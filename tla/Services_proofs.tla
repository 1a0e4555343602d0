-------------------------- MODULE Services_proofs ---------------------------
(***************************************************************************)
(* Proofs about the services that call back into the program.  LogExport:  *)
(* no record is lost, doubled or reordered and a shutdown drains and       *)
(* closes, for any number of producers, of callers of shutdown and of      *)
(* records, and for every capacity.  TlsListener: the objects of the       *)
(* listener, for any number of connections, blocks and operations.         *)
(* TlsIdentity: what the constructors hold, step by step.  ChildProcess:   *)
(* what a call leaves behind and what a run reports, for any calls at once *)
(* and any programs.                                                       *)
(***************************************************************************)
EXTENDS LogExport, TlsIdentity, ChildProcess, QueueLemmas

-----------------------------------------------------------------------------
(* LogExport.                                                              *)

\* What is asked of the constants: ExportSink's constructor refuses a capacity
\* that is not positive, and a caller is either a producer or a stopper.
SinkHolds == Capacity \in Nat \ {0} /\ Producers \intersect Stoppers = {}

Inside == {"announced", "write", "flush", "leave"}

\* The number of records is left open.
LogTypeOK ==
    /\ policy \in {"newest", "oldest", "block"}
    /\ sink \in {"none", "making", "open", "closed"}
    /\ stopping \in BOOLEAN /\ shut_down \in BOOLEAN
    /\ is_running \in BOOLEAN /\ late \in BOOLEAN
    /\ lpc \in [Producers \cup Stoppers ->
                  {"idle", "begun", "lock", "wait", "stop", "done"} \cup Inside]
    /\ active \in [Producers -> BOOLEAN] /\ pend \in [Producers -> BOOLEAN]
    /\ queue \in Seq(Nat) /\ writing \in Seq(Nat) /\ Len(writing) <= 1
    /\ export \in Seq(Nat) /\ taken \in Seq(Nat)
    /\ written \in Nat /\ dropped \in Nat

\* An announced operation shows in its slot or in the store buffer of its
\* thread, so the shutdown that found every slot empty and every buffer drained
\* has nobody left inside, and the flag keeps others out.
StopInv ==
    /\ \A p \in Producers : lpc[p] \in Inside => active[p] \/ pend[p]
    /\ \A s \in Stoppers : /\ lpc[s] # "idle" => stopping
                           /\ lpc[s] \in {"wait", "stop", "done"} => shut_down
    /\ shut_down => stopping /\ sink \in {"none", "closed"}
    /\ ~is_running => shut_down
    /\ (~is_running \/ \E s \in Stoppers : lpc[s] = "stop") /\ ~late =>
          \A p \in Producers : lpc[p] \notin {"write", "flush"}
    /\ ~is_running /\ ~late => queue = <<>>

\* The four places a record can be in, each in the order of acceptance and
\* each ahead of the next.
Rising(r)   == \A i, j \in DOMAIN r : i < j => r[i] < r[j]
Ahead(r, u) == \A x \in Range(r), y \in Range(u) : x < y
UpTo(r, n)  == \A x \in Range(r) : x <= n

OrderInv ==
    /\ Rising(taken) /\ Rising(export) /\ Rising(writing) /\ Rising(queue)
    /\ Ahead(taken, export) /\ Ahead(taken, writing) /\ Ahead(taken, queue)
    /\ Ahead(export, writing) /\ Ahead(export, queue) /\ Ahead(writing, queue)
    /\ UpTo(taken, written) /\ UpTo(export, written)
    /\ UpTo(writing, written) /\ UpTo(queue, written)
    /\ Len(export) <= Capacity

LogInv == LogTypeOK /\ StopInv /\ OrderInv /\ Accounted

-----------------------------------------------------------------------------
\* What a sequence that rises keeps under the operations of the queues.
LEMMA RangeOf ==
    ASSUME NEW r \in Seq(Nat)
    PROVE  /\ Range(r) \subseteq Nat
           /\ \A i \in 1..Len(r) : r[i] \in Range(r)
           /\ \A x \in Range(r) : \E i \in 1..Len(r) : x = r[i]
<1>1. DOMAIN r = 1..Len(r)
  BY LenProperties
<1> QED BY <1>1, ElementOfSeq DEF Range

LEMMA RisingJoin ==
    ASSUME NEW r \in Seq(Nat), NEW u \in Seq(Nat)
    PROVE  /\ r \o u \in Seq(Nat)
           /\ Len(r \o u) = Len(r) + Len(u)
           /\ Range(r \o u) = Range(r) \union Range(u)
           /\ Rising(r) /\ Rising(u) /\ Ahead(r, u) => Rising(r \o u)
<1>1. /\ (r \o u) \in Seq(Nat) /\ Len((r \o u)) = Len(r) + Len(u)
      /\ Len(r) \in Nat /\ Len(u) \in Nat
      /\ DOMAIN r = 1..Len(r) /\ DOMAIN u = 1..Len(u)
      /\ DOMAIN (r \o u) = 1..(Len(r) + Len(u))
      /\ \A i \in 1..Len(r) : (r \o u)[i] = r[i]
      /\ \A i \in (Len(r) + 1)..(Len(r) + Len(u)) : (r \o u)[i] = u[i - Len(r)]
  BY ConcatProperties, LenProperties
<1>2. Range((r \o u)) = Range(r) \union Range(u)
  BY RangeConcatenation
<1>5. ASSUME Rising(r), Rising(u), Ahead(r, u),
             NEW i \in DOMAIN (r \o u), NEW j \in DOMAIN (r \o u), i < j
      PROVE  (r \o u)[i] < (r \o u)[j]
  <2>1. CASE j <= Len(r)
    BY <1>1, <1>5, <2>1 DEF Rising
  <2>2. CASE i > Len(r)
    <3>1. /\ i - Len(r) \in DOMAIN u /\ j - Len(r) \in DOMAIN u
          /\ i - Len(r) < j - Len(r)
          /\ (r \o u)[i] = u[i - Len(r)] /\ (r \o u)[j] = u[j - Len(r)]
      BY <1>1, <1>5, <2>2
    <3> QED BY <1>5, <3>1 DEF Rising
  <2>3. CASE i <= Len(r) /\ j > Len(r)
    <3>1. /\ i \in 1..Len(r) /\ j - Len(r) \in 1..Len(u)
          /\ (r \o u)[i] = r[i] /\ (r \o u)[j] = u[j - Len(r)]
      BY <1>1, <1>5, <2>3
    <3>2. r[i] \in Range(r) /\ u[j - Len(r)] \in Range(u)
      BY <3>1, RangeOf
    <3> QED BY <1>5, <3>1, <3>2 DEF Ahead
  <2> QED BY <1>1, <1>5, <2>1, <2>2, <2>3
<1> QED BY <1>1, <1>2, <1>5 DEF Rising

\* A cut of a rising sequence: both halves rise, the front is ahead of the back
\* and together they hold the same records.
LEMMA RisingCut ==
    ASSUME NEW r \in Seq(Nat), Rising(r), NEW n \in 0..Len(r)
    PROVE  /\ SubSeq(r, 1, n) \in Seq(Nat) /\ SubSeq(r, n + 1, Len(r)) \in Seq(Nat)
           /\ Len(SubSeq(r, 1, n)) = n /\ Len(SubSeq(r, n + 1, Len(r))) = Len(r) - n
           /\ Rising(SubSeq(r, 1, n)) /\ Rising(SubSeq(r, n + 1, Len(r)))
           /\ Ahead(SubSeq(r, 1, n), SubSeq(r, n + 1, Len(r)))
           /\ Range(SubSeq(r, 1, n)) \subseteq Range(r)
           /\ Range(SubSeq(r, n + 1, Len(r))) \subseteq Range(r)
<1> DEFINE f == SubSeq(r, 1, n)
           b == SubSeq(r, n + 1, Len(r))
<1>0. Len(r) \in Nat /\ DOMAIN r = 1..Len(r) /\ \A i \in 1..Len(r) : r[i] \in Nat
  BY LenProperties, ElementOfSeq
<1>1. /\ f \in Seq(Nat) /\ Len(f) = n /\ \A i \in 1..n : f[i] = r[i]
      /\ b \in Seq(Nat) /\ Len(b) = Len(r) - n /\ \A i \in 1..(Len(r) - n) : b[i] = r[n + i]
  <2>1. /\ f \in Seq(Nat) /\ Len(f) = IF 1 <= n THEN n - 1 + 1 ELSE 0
        /\ \A i \in 1..(n - 1 + 1) : f[i] = r[1 + i - 1]
    BY <1>0, SubSeqProperties
  <2>2. /\ b \in Seq(Nat)
        /\ Len(b) = IF n + 1 <= Len(r) THEN Len(r) - (n + 1) + 1 ELSE 0
        /\ \A i \in 1..(Len(r) - (n + 1) + 1) : b[i] = r[(n + 1) + i - 1]
    BY <1>0, SubSeqProperties
  <2> HIDE DEF f, b
  <2>3. ASSUME NEW i \in 1..(Len(r) - n) PROVE b[i] = r[n + i]
    <3>1. i \in 1..(Len(r) - (n + 1) + 1) /\ (n + 1) + i - 1 = n + i
      BY <1>0
    <3> QED BY <2>2, <3>1
  <2>4. ASSUME NEW i \in 1..n PROVE f[i] = r[i]
    <3>1. i \in 1..(n - 1 + 1) /\ 1 + i - 1 = i
      BY <1>0
    <3> QED BY <2>1, <3>1
  <2>5. Len(f) = n
    BY <1>0, <2>1
  <2>6. Len(b) = Len(r) - n
    <3>1. CASE n = Len(r)
      <4>1. ~(n + 1 <= Len(r)) /\ Len(r) - n = 0
        BY <1>0, <3>1
      <4> QED BY <2>2, <4>1
    <3>2. CASE n # Len(r)
      <4>0. n \in Nat /\ n <= Len(r) /\ Len(r) \in Nat
        BY <1>0
      <4>1. \A k \in Nat : n # k /\ n <= k => n + 1 <= k /\ k - (n + 1) + 1 = k - n
        BY <4>0
      <4>2. n + 1 <= Len(r) /\ Len(r) - (n + 1) + 1 = Len(r) - n
        BY <3>2, <4>0, <4>1
      <4> QED BY <2>2, <4>2
    <3> QED BY <3>1, <3>2
  <2> QED BY <2>1, <2>2, <2>3, <2>4, <2>5, <2>6
<1>2. DOMAIN f = 1..n /\ DOMAIN b = 1..(Len(r) - n)
  BY <1>1, LenProperties
<1> HIDE DEF f, b
<1>3. Rising(f)
  BY <1>0, <1>1, <1>2 DEF Rising
<1>4. Rising(b)
  <2> SUFFICES ASSUME NEW i \in DOMAIN b, NEW j \in DOMAIN b, i < j PROVE b[i] < b[j]
    BY DEF Rising
  <2>1. n + i \in DOMAIN r /\ n + j \in DOMAIN r /\ n + i < n + j
    BY <1>0, <1>2
  <2> QED BY <1>1, <1>2, <2>1 DEF Rising
<1>5. Ahead(f, b)
  <2> SUFFICES ASSUME NEW x \in Range(f), NEW y \in Range(b) PROVE x < y
    BY DEF Ahead
  <2>1. PICK i \in 1..n, j \in 1..(Len(r) - n) : x = f[i] /\ y = b[j]
    BY <1>2 DEF Range
  <2>2. i \in DOMAIN r /\ n + j \in DOMAIN r /\ i < n + j
    BY <1>0
  <2> QED BY <1>1, <2>1, <2>2 DEF Rising
<1>6. Range(f) \subseteq Range(r)
  BY <1>0, <1>1, <1>2 DEF Range
<1>7. Range(b) \subseteq Range(r)
  <2>1. ASSUME NEW j \in 1..(Len(r) - n) PROVE b[j] \in Range(r)
    <3>1. n + j \in DOMAIN r
      BY <1>0
    <3> QED BY <1>1, <3>1 DEF Range
  <2> QED BY <1>2, <2>1 DEF Range
<1> QED BY <1>1, <1>3, <1>4, <1>5, <1>6, <1>7 DEF f, b

LEMMA RisingOne ==
    /\ Rising(<<>>) /\ Range(<<>>) = {}
    /\ \A x \in Nat : <<x>> \in Seq(Nat) /\ Len(<<x>>) = 1 /\ Rising(<<x>>) /\ Range(<<x>>) = {x}
<1>1. DOMAIN <<>> = {}
  BY EmptySeq
<1>2. ASSUME NEW x \in Nat
      PROVE  <<x>> \in Seq(Nat) /\ Len(<<x>>) = 1 /\ Rising(<<x>>) /\ Range(<<x>>) = {x}
  <2>1. <<x>> \in Seq(Nat) /\ Len(<<x>>) = 1 /\ DOMAIN <<x>> = {1} /\ <<x>>[1] = x
    OBVIOUS
  <2>2. Range(<<x>>) = {x}
    BY ShortLemma
  <2>3. Rising(<<x>>)
    BY <2>1 DEF Rising
  <2> QED BY <2>1, <2>2, <2>3
<1>3. Rising(<<>>) /\ Range(<<>>) = {}
  BY <1>1 DEF Rising, Range
<1> QED BY <1>2, <1>3

LEMMA RisingTail ==
    ASSUME NEW r \in Seq(Nat), r # <<>>, Rising(r)
    PROVE  /\ Head(r) \in Nat /\ Head(r) \in Range(r)
           /\ Tail(r) \in Seq(Nat) /\ Len(Tail(r)) = Len(r) - 1 /\ Len(r) \in Nat \ {0}
           /\ Rising(Tail(r)) /\ Range(Tail(r)) \subseteq Range(r)
           /\ \A x \in Range(Tail(r)) : Head(r) < x
<1>0. Len(r) \in Nat \ {0} /\ DOMAIN r = 1..Len(r)
  BY EmptySeq, LenProperties
<1>1. /\ Head(r) \in Nat /\ Head(r) = r[1]
      /\ Tail(r) \in Seq(Nat) /\ Len(Tail(r)) = Len(r) - 1
      /\ \A i \in 1..(Len(r) - 1) : Tail(r)[i] = r[i + 1]
  BY HeadTailProperties, <1>0
<1>2. DOMAIN Tail(r) = 1..(Len(r) - 1)
  BY <1>1, LenProperties
<1>3. Head(r) \in Range(r)
  BY <1>0, <1>1 DEF Range
<1> DEFINE u == Tail(r)
<1> HIDE DEF u
<1>4. DOMAIN u = 1..(Len(r) - 1) /\ \A i \in 1..(Len(r) - 1) : u[i] = r[i + 1] /\ i + 1 \in DOMAIN r
  BY <1>0, <1>1, <1>2 DEF u
<1>5. Rising(u)
  <2> SUFFICES ASSUME NEW i \in DOMAIN u, NEW j \in DOMAIN u, i < j PROVE u[i] < u[j]
    BY DEF Rising
  <2>1. i + 1 \in DOMAIN r /\ j + 1 \in DOMAIN r /\ i + 1 < j + 1
    BY <1>0, <1>4
  <2> QED BY <1>4, <2>1 DEF Rising
<1>6. Range(u) \subseteq Range(r)
  BY <1>4 DEF Range
<1>7. ASSUME NEW x \in Range(u) PROVE Head(r) < x
  <2>1. PICK i \in 1..(Len(r) - 1) : x = r[i + 1]
    BY <1>4 DEF Range
  <2>2. 1 \in DOMAIN r /\ i + 1 \in DOMAIN r /\ 1 < i + 1
    BY <1>0
  <2> QED BY <1>1, <2>1, <2>2 DEF Rising
<1> QED BY <1>0, <1>1, <1>3, <1>5, <1>6, <1>7 DEF u

-----------------------------------------------------------------------------
LEMMA InitLog == ASSUME SinkHolds, LogInit PROVE LogInv
<1> USE DEF LogInit, SinkHolds
<1>0. <<>> \in Seq(Nat) /\ Len(<<>>) = 0
  BY EmptySeq
<1>1. LogTypeOK
  <2>1. lpc \in [Producers \cup Stoppers ->
                  {"idle", "begun", "lock", "wait", "stop", "done"} \cup Inside]
    OBVIOUS
  <2>2. /\ queue \in Seq(Nat) /\ writing \in Seq(Nat) /\ Len(writing) <= 1
        /\ export \in Seq(Nat) /\ taken \in Seq(Nat)
    BY <1>0
  <2> QED BY <2>1, <2>2 DEF LogTypeOK
<1>2. StopInv
  BY DEF StopInv, Inside
<1>3. OrderInv
  <2>1. Rising(<<>>) /\ Range(<<>>) = {}
    BY RisingOne
  <2>2. taken = <<>> /\ export = <<>> /\ writing = <<>> /\ queue = <<>>
    OBVIOUS
  <2>3. Ahead(<<>>, <<>>) /\ UpTo(<<>>, written)
    BY <2>1 DEF Ahead, UpTo
  <2> QED BY <1>0, <2>1, <2>2, <2>3 DEF OrderInv
<1>4. Accounted
  BY <1>0 DEF Accounted
<1> QED BY <1>1, <1>2, <1>3, <1>4 DEF LogInv

\* A step that moves no record disturbs neither their order nor the count.
LEMMA RecordsStay == ASSUME OrderInv, Accounted, UNCHANGED dataVars PROVE OrderInv' /\ Accounted'
BY DEF OrderInv, Accounted, dataVars, Rising, Ahead, UpTo

\* The life of the sink, and the steps of a producer around its operation.
LEMMA ProducerKeeps ==
    ASSUME SinkHolds, LogInv,
           \/ MakeSink \/ AddSink
           \/ \E p \in Producers : \/ Begin(p) \/ Announce(p) \/ Drain(p) \/ RecheckStopping(p)
                                   \/ Flush(p) \/ Leave(p)
    PROVE  LogInv'
<1> USE DEF LogInv, lifeVars, SinkHolds
<1>0. OrderInv' /\ Accounted'
  <2>1. UNCHANGED dataVars
    BY DEF MakeSink, AddSink, Begin, Announce, Drain, RecheckStopping, Flush, Leave
  <2> QED BY <2>1, RecordsStay
<1>1. CASE MakeSink
  <2>1. LogTypeOK'
    BY <1>1 DEF MakeSink, LogTypeOK, dataVars
  <2>2. StopInv'
    BY <1>1 DEF MakeSink, StopInv, dataVars
  <2> QED BY <1>0, <2>1, <2>2
<1>2. CASE AddSink
  <2>1. LogTypeOK'
    BY <1>2 DEF AddSink, LogTypeOK, dataVars
  <2>2. StopInv'
    BY <1>2 DEF AddSink, StopInv, dataVars
  <2> QED BY <1>0, <2>1, <2>2
<1>3. ASSUME NEW p \in Producers, Begin(p) PROVE LogInv'
  <2>1. LogTypeOK'
    BY <1>3 DEF Begin, Goto, LogTypeOK, dataVars
  <2>2. StopInv'
    BY <1>3 DEF Begin, Goto, LogTypeOK, StopInv, Inside, dataVars
  <2> QED BY <1>0, <2>1, <2>2
<1>4. ASSUME NEW p \in Producers, Announce(p) PROVE LogInv'
  <2>1. LogTypeOK'
    BY <1>4 DEF Announce, Goto, LogTypeOK, Inside, dataVars
  <2>2. StopInv'
    BY <1>4 DEF Announce, Goto, LogTypeOK, StopInv, Inside, dataVars
  <2> QED BY <1>0, <2>1, <2>2
<1>5. ASSUME NEW p \in Producers, Drain(p) PROVE LogInv'
  <2>1. LogTypeOK'
    BY <1>5 DEF Drain, LogTypeOK, dataVars
  <2>2. StopInv'
    BY <1>5 DEF Drain, LogTypeOK, StopInv, Inside, dataVars
  <2> QED BY <1>0, <2>1, <2>2
<1>6. ASSUME NEW p \in Producers, RecheckStopping(p) PROVE LogInv'
  <2>1. LogTypeOK'
    BY <1>6 DEF RecheckStopping, Goto, LogTypeOK, Inside, dataVars
  <2>2. StopInv'
    BY <1>6 DEF RecheckStopping, Refused, Goto, LogTypeOK, StopInv, Inside, dataVars
  <2> QED BY <1>0, <2>1, <2>2
<1>7. ASSUME NEW p \in Producers, Flush(p) PROVE LogInv'
  <2>1. LogTypeOK'
    BY <1>7 DEF Flush, Goto, LogTypeOK, Inside, dataVars
  <2>2. StopInv'
    BY <1>7 DEF Flush, Goto, LogTypeOK, StopInv, Inside, dataVars
  <2> QED BY <1>0, <2>1, <2>2
<1>8. ASSUME NEW p \in Producers, Leave(p) PROVE LogInv'
  <2>1. LogTypeOK'
    BY <1>8 DEF Leave, Goto, LogTypeOK, dataVars
  <2>2. StopInv'
    BY <1>8 DEF Leave, Goto, LogTypeOK, StopInv, Inside, dataVars
  <2> QED BY <1>0, <2>1, <2>2
<1> QED BY <1>1, <1>2, <1>3, <1>4, <1>5, <1>6, <1>7, <1>8

\* The steps of a shutdown.
LEMMA ShutdownKeeps ==
    ASSUME SinkHolds, LogInv, NEW s \in Stoppers,
           Shutdown(s) \/ LockLifecycle(s) \/ WaitForOperations(s) \/ StopBackend(s)
    PROVE  LogInv'
<1> USE DEF LogInv, SinkHolds, dataVars
<1>0. OrderInv' /\ Accounted'
  <2>1. UNCHANGED dataVars
    BY DEF Shutdown, LockLifecycle, WaitForOperations, StopBackend
  <2> QED BY <2>1, RecordsStay
<1>1. CASE Shutdown(s)
  <2>1. LogTypeOK'
    BY <1>1 DEF Shutdown, CloseExports, Goto, LogTypeOK
  <2>2. StopInv'
    BY <1>1 DEF Shutdown, CloseExports, Goto, LogTypeOK, StopInv
  <2> QED BY <1>0, <2>1, <2>2
<1>2. CASE LockLifecycle(s)
  <2>1. LogTypeOK'
    BY <1>2 DEF LockLifecycle, CloseLate, CloseExports, Goto, LogTypeOK
  <2>2. StopInv'
    BY <1>2 DEF LockLifecycle, CloseLate, CloseExports, Goto, LogTypeOK, StopInv
  <2> QED BY <1>0, <2>1, <2>2
<1>3. CASE WaitForOperations(s)
  <2>1. LogTypeOK'
    BY <1>3 DEF WaitForOperations, Goto, LogTypeOK
  <2>2. StopInv'
    BY <1>3 DEF WaitForOperations, Goto, LogTypeOK, StopInv, Inside
  <2> QED BY <1>0, <2>1, <2>2
<1>4. CASE StopBackend(s)
  <2>1. LogTypeOK'
    BY <1>4 DEF StopBackend, Goto, LogTypeOK
  <2>2. StopInv'
    BY <1>4 DEF StopBackend, Goto, LogTypeOK, StopInv
  <2> QED BY <1>0, <2>1, <2>2
<1> QED BY <1>1, <1>2, <1>3, <1>4

-----------------------------------------------------------------------------
\* A write: the record gets the next number, which no record has yet.
LEMMA WriteKeeps == ASSUME SinkHolds, LogInv, NEW p \in Producers, Write(p) PROVE LogInv'
<1> USE DEF LogInv, lifeVars, SinkHolds
<1>0. Write(p) /\ written \in Nat /\ dropped \in Nat
  BY DEF LogTypeOK
<1>1. CASE queue' = Append(queue, written + 1) /\ written' = written + 1 /\ dropped' = dropped
  <2> DEFINE one == <<written + 1>>
  <2>1. one \in Seq(Nat) /\ Len(one) = 1 /\ Rising(one) /\ Range(one) = {written + 1}
    BY RisingOne DEF LogTypeOK
  <2>2. queue' = queue \o one
    BY <1>1, AppendIsConcat DEF LogTypeOK
  <2> HIDE DEF one
  <2>3. /\ queue \o one \in Seq(Nat) /\ Len(queue \o one) = Len(queue) + 1
        /\ Range(queue \o one) = Range(queue) \union {written + 1}
        /\ Rising(queue) /\ Rising(one) /\ Ahead(queue, one) => Rising(queue \o one)
    BY <2>1, RisingJoin DEF LogTypeOK
  <2>4. Ahead(queue, one)
    BY <2>1, RangeOf DEF OrderInv, LogTypeOK, UpTo, Ahead
  <2>5. /\ queue' \in Seq(Nat) /\ Len(queue') = Len(queue) + 1 /\ Rising(queue')
        /\ Range(queue') = Range(queue) \union {written + 1}
    BY <2>1, <2>2, <2>3, <2>4 DEF OrderInv
  <2>6. UNCHANGED <<taken, export, writing>>
    BY <1>0 DEF Write
  <2>7. OrderInv'
    <3>1. /\ Range(taken) \subseteq Nat /\ Range(export) \subseteq Nat
          /\ Range(writing) \subseteq Nat /\ Range(queue) \subseteq Nat
      BY RangeOf DEF LogTypeOK
    <3>2. /\ Rising(taken') /\ Rising(export') /\ Rising(writing') /\ Rising(queue')
          /\ Len(export') <= Capacity
      BY <2>5, <2>6 DEF OrderInv
    <3>3. /\ Ahead(taken', export') /\ Ahead(taken', writing') /\ Ahead(taken', queue')
          /\ Ahead(export', writing') /\ Ahead(export', queue') /\ Ahead(writing', queue')
      BY <2>5, <2>6, <3>1 DEF OrderInv, Ahead, UpTo, LogTypeOK
    <3>4. /\ UpTo(taken', written') /\ UpTo(export', written')
          /\ UpTo(writing', written') /\ UpTo(queue', written')
      <4>1. written \in Nat /\ written' = written + 1
        BY <1>0, <1>1
      <4>2. \A x \in Nat : x <= written => x <= written'
        BY <4>1
      <4> QED BY <2>5, <2>6, <3>1, <4>1, <4>2 DEF OrderInv, UpTo
    <3> QED BY <3>2, <3>3, <3>4 DEF OrderInv, Rising, Ahead, UpTo
  <2>8. LogTypeOK'
    BY <1>0, <1>1, <2>5 DEF Write, Goto, LogTypeOK, Inside
  <2>9. StopInv'
    BY <1>0 DEF Write, Goto, LogTypeOK, StopInv, Inside
  <2>10. Accounted'
    BY <1>1, <2>5, <2>6, LenProperties DEF Accounted, LogTypeOK
  <2> QED BY <2>7, <2>8, <2>9, <2>10
<1>2. CASE queue' = queue /\ written' \in Nat /\ written <= written'
           /\ dropped' \in Nat /\ written' + dropped = written + dropped'
  <2>1. LogTypeOK'
    BY <1>0, <1>2 DEF Write, Goto, LogTypeOK, Inside
  <2>2. StopInv'
    BY <1>0, <1>2 DEF Write, Goto, LogTypeOK, StopInv, Inside
  <2>3. OrderInv'
    <3>1. UNCHANGED <<taken, export, writing, queue>>
      BY <1>0, <1>2 DEF Write
    <3>2. /\ UpTo(taken, written') /\ UpTo(export, written')
          /\ UpTo(writing, written') /\ UpTo(queue, written')
      <4>1. \A x \in Nat : x <= written => x <= written'
        BY <1>0, <1>2
      <4>2. /\ Range(taken) \subseteq Nat /\ Range(export) \subseteq Nat
            /\ Range(writing) \subseteq Nat /\ Range(queue) \subseteq Nat
        BY RangeOf DEF LogTypeOK
      <4> QED BY <4>1, <4>2 DEF OrderInv, UpTo
    <3> QED BY <3>1, <3>2 DEF OrderInv, Rising, Ahead, UpTo
  <2>4. Accounted'
    <3>1. /\ Len(queue) \in Nat /\ Len(writing) \in Nat
          /\ Len(export) \in Nat /\ Len(taken) \in Nat
      BY LenProperties DEF LogTypeOK
    <3>2. UNCHANGED <<taken, export, writing, queue>>
      BY <1>0, <1>2 DEF Write
    <3>3. written' = Len(queue) + Len(writing) + Len(export) + Len(taken) + dropped'
      <4> DEFINE n == Len(queue) + Len(writing) + Len(export) + Len(taken)
                 w == written'
                 d == dropped'
      <4>1. written = n + dropped
        BY DEF Accounted
      <4>2. n \in Nat /\ dropped \in Nat
        BY <3>1 DEF LogTypeOK
      <4>3. w \in Nat /\ d \in Nat /\ w + dropped = written + d
        BY <1>2
      <4> HIDE DEF n, w, d
      <4>4. w = n + d
        BY <4>1, <4>2, <4>3
      <4> QED BY <4>4 DEF n, w, d
    <3> QED BY <3>2, <3>3 DEF Accounted
  <2> QED BY <2>1, <2>2, <2>3, <2>4
<1>3. CASE written' = written + 1 /\ dropped' = dropped + 1 /\ queue' = queue
  BY <1>0, <1>2, <1>3
<1>4. CASE UNCHANGED <<queue, written, dropped>>
  BY <1>0, <1>2, <1>4
<1> QED BY <1>0, <1>1, <1>3, <1>4 DEF Write

\* The backend takes the oldest record of its queue.
LEMMA BackendKeeps == ASSUME SinkHolds, LogInv, BackendNext PROVE LogInv'
<1> USE DEF LogInv, lifeVars, SinkHolds
<1>1. /\ writing = <<>> /\ queue # <<>> /\ is_running
      /\ writing' = <<Head(queue)>> /\ queue' = Tail(queue)
      /\ UNCHANGED <<lifeVars, lpc, active, pend, export, taken, written, dropped>>
  BY DEF BackendNext
<1>2. /\ Head(queue) \in Nat /\ Head(queue) \in Range(queue)
      /\ Tail(queue) \in Seq(Nat) /\ Len(Tail(queue)) = Len(queue) - 1
      /\ Len(queue) \in Nat \ {0}
      /\ Rising(Tail(queue)) /\ Range(Tail(queue)) \subseteq Range(queue)
      /\ \A x \in Range(Tail(queue)) : Head(queue) < x
  BY <1>1, RisingTail DEF LogTypeOK, OrderInv
<1>3. /\ writing' \in Seq(Nat) /\ Len(writing') = 1
      /\ Rising(writing') /\ Range(writing') = {Head(queue)}
  BY <1>1, <1>2, RisingOne
<1>4. LogTypeOK'
  BY <1>1, <1>2, <1>3 DEF LogTypeOK
<1>5. StopInv'
  BY <1>1 DEF StopInv, LogTypeOK
<1>6. OrderInv'
  <2>1. /\ Rising(taken') /\ Rising(export') /\ Rising(writing') /\ Rising(queue')
        /\ Len(export') <= Capacity
    BY <1>1, <1>2, <1>3 DEF OrderInv
  <2>2. /\ Ahead(taken', export') /\ Ahead(taken', writing') /\ Ahead(taken', queue')
        /\ Ahead(export', writing') /\ Ahead(export', queue') /\ Ahead(writing', queue')
    BY <1>1, <1>2, <1>3 DEF OrderInv, Ahead
  <2>3. /\ UpTo(taken', written') /\ UpTo(export', written')
        /\ UpTo(writing', written') /\ UpTo(queue', written')
    BY <1>1, <1>2, <1>3 DEF OrderInv, UpTo
  <2> QED BY <2>1, <2>2, <2>3 DEF OrderInv, Rising, Ahead, UpTo
<1>7. Accounted'
  BY <1>1, <1>2, <1>3, EmptySeq, LenProperties DEF Accounted, LogTypeOK
<1> QED BY <1>4, <1>5, <1>6, <1>7

\* The sink takes the record that is being written, or counts one as dropped.
LEMMA WriteLogKeeps == ASSUME SinkHolds, LogInv, WriteLog PROVE LogInv'
<1> USE DEF LogInv, lifeVars, SinkHolds
<1>0. /\ writing # <<>> /\ writing' = <<>> /\ sink \in {"open", "closed"}
      /\ UNCHANGED <<lifeVars, lpc, active, pend, queue, taken, written>>
  BY DEF WriteLog
<1>1. Len(writing) = 1 /\ Len(export) \in Nat /\ Len(queue) \in Nat /\ Len(taken) \in Nat
      /\ <<>> \in Seq(Nat) /\ Len(<<>>) = 0
  <2>1. writing \in Seq(Nat) /\ Len(writing) <= 1
    BY DEF LogTypeOK
  <2>2. Len(writing) \in Nat \ {0}
    BY <1>0, <2>1, EmptySeq
  <2>3. Len(export) \in Nat /\ Len(queue) \in Nat /\ Len(taken) \in Nat
    BY LenProperties DEF LogTypeOK
  <2>4. <<>> \in Seq(Nat) /\ Len(<<>>) = 0
    BY EmptySeq
  <2>5. Len(writing) = 1
    <3>1. \A n \in Nat \ {0} : n <= 1 => n = 1
      OBVIOUS
    <3> QED BY <2>1, <2>2, <3>1
  <2> QED BY <2>3, <2>4, <2>5
<1>2. \/ export' = export /\ dropped' = dropped + 1
      \/ export' = export \o writing /\ dropped' = dropped /\ Len(export) < Capacity
      \/ export' = Tail(export) \o writing /\ dropped' = dropped + 1 /\ Len(export) >= Capacity
  <2>1. dropped \in Nat /\ Capacity \in Nat /\ policy \in {"newest", "oldest", "block"}
    BY DEF LogTypeOK
  <2>2. CASE Len(export) >= Capacity
    BY <1>0, <1>1, <2>1, <2>2 DEF WriteLog, WaitsOn, Counted, MakeRoom
  <2>3. CASE ~(Len(export) >= Capacity)
    BY <1>0, <1>1, <2>1, <2>3 DEF WriteLog, WaitsOn, Counted, MakeRoom
  <2> QED BY <2>2, <2>3
<1>3. ASSUME NEW front \in Seq(Nat), export' = front \o writing, Rising(front),
             Range(front) \subseteq Range(export), Len(front) + 1 <= Capacity, Len(front) \in Nat,
             dropped' \in Nat, Len(front) + 1 + dropped' = Len(export) + 1 + dropped
      PROVE  LogInv'
  <2>1. /\ front \o writing \in Seq(Nat) /\ Len(front \o writing) = Len(front) + 1
        /\ Range(front \o writing) = Range(front) \union Range(writing)
        /\ Rising(front) /\ Rising(writing) /\ Ahead(front, writing)
              => Rising(front \o writing)
    BY <1>1, <1>3, RisingJoin DEF LogTypeOK
  <2>2. Ahead(front, writing)
    BY <1>3 DEF OrderInv, Ahead
  <2>3. /\ export' \in Seq(Nat) /\ Len(export') = Len(front) + 1 /\ Rising(export')
        /\ Range(export') \subseteq Range(export) \union Range(writing)
    BY <1>3, <2>1, <2>2 DEF OrderInv
  <2>4. LogTypeOK'
    BY <1>0, <1>1, <1>3, <2>3 DEF LogTypeOK
  <2>5. StopInv'
    BY <1>0 DEF StopInv
  <2>6. OrderInv'
    <3>1. /\ Rising(taken') /\ Rising(export') /\ Rising(writing') /\ Rising(queue')
          /\ Len(export') <= Capacity /\ Range(writing') = {}
      BY <1>0, <1>3, <2>3, RisingOne DEF OrderInv
    <3>2. /\ Ahead(taken', export') /\ Ahead(taken', writing') /\ Ahead(taken', queue')
          /\ Ahead(export', writing') /\ Ahead(export', queue') /\ Ahead(writing', queue')
      BY <1>0, <2>3, <3>1 DEF OrderInv, Ahead
    <3>3. /\ UpTo(taken', written') /\ UpTo(export', written')
          /\ UpTo(writing', written') /\ UpTo(queue', written')
      BY <1>0, <2>3, <3>1 DEF OrderInv, UpTo
    <3> QED BY <3>1, <3>2, <3>3 DEF OrderInv, Rising, Ahead, UpTo
  <2>7. Accounted'
    <3>1. Len(writing') = 0 /\ Len(queue') = Len(queue) /\ Len(taken') = Len(taken)
          /\ written' = written
      BY <1>0, <1>1
    <3>2. written = Len(queue) + 1 + Len(export) + Len(taken) + dropped /\ dropped \in Nat
      BY <1>1 DEF Accounted, LogTypeOK
    <3>3. written = Len(queue) + 0 + (Len(front) + 1) + Len(taken) + dropped'
      BY <1>1, <1>3, <3>2
    <3> QED BY <2>3, <3>1, <3>3 DEF Accounted
  <2> QED BY <2>4, <2>5, <2>6, <2>7
<1>4. CASE export' = export /\ dropped' = dropped + 1
  <2>1. LogTypeOK'
    BY <1>0, <1>1, <1>4 DEF LogTypeOK
  <2>2. StopInv'
    BY <1>0 DEF StopInv
  <2>3. OrderInv'
    <3>1. Rising(writing') /\ Range(writing') = {}
      BY <1>0, RisingOne
    <3> QED BY <1>0, <1>4, <3>1 DEF OrderInv, Rising, Ahead, UpTo
  <2>4. Accounted'
    <3>1. Len(writing') = 0 /\ Len(queue') = Len(queue) /\ Len(taken') = Len(taken)
          /\ written' = written /\ Len(export') = Len(export)
      BY <1>0, <1>1, <1>4
    <3>2. written = Len(queue) + 1 + Len(export) + Len(taken) + dropped /\ dropped \in Nat
      BY <1>1 DEF Accounted, LogTypeOK
    <3>3. written = Len(queue) + 0 + Len(export) + Len(taken) + dropped'
      BY <1>1, <1>4, <3>2
    <3> QED BY <3>1, <3>3 DEF Accounted
  <2> QED BY <2>1, <2>2, <2>3, <2>4
<1>50. Capacity \in Nat /\ dropped \in Nat /\ export \in Seq(Nat) /\ Rising(export)
  BY DEF OrderInv, LogTypeOK
<1>5. CASE export' = export \o writing /\ dropped' = dropped /\ Len(export) < Capacity
  <2>1. Len(export) \in Nat /\ Range(export) \subseteq Range(export)
    BY <1>1
  <2>2. Len(export) + 1 <= Capacity
    BY <1>5, <1>50, <2>1
  <2>3. dropped' \in Nat /\ Len(export) + 1 + dropped' = Len(export) + 1 + dropped
    BY <1>5, <1>50
  <2>4. export' = export \o writing
    BY <1>5
  <2> QED BY <1>3, <1>50, <2>1, <2>2, <2>3, <2>4
<1>6. CASE export' = Tail(export) \o writing /\ dropped' = dropped + 1 /\ Len(export) >= Capacity
  <2>1. export # <<>>
    BY <1>1, <1>6
  <2>2. /\ Tail(export) \in Seq(Nat) /\ Len(Tail(export)) = Len(export) - 1
        /\ Len(export) \in Nat \ {0}
        /\ Rising(Tail(export)) /\ Range(Tail(export)) \subseteq Range(export)
    BY <2>1, RisingTail DEF LogTypeOK, OrderInv
  <2>3. Len(Tail(export)) + 1 <= Capacity /\ dropped' \in Nat
        /\ Len(Tail(export)) + 1 + dropped' = Len(export) + 1 + dropped
        /\ Len(Tail(export)) \in Nat
    BY <1>6, <2>2 DEF OrderInv, LogTypeOK
  <2> QED BY <1>3, <1>6, <2>2, <2>3
<1> QED BY <1>2, <1>4, <1>5, <1>6

\* The consumer takes the oldest records.
LEMMA TakeKeeps == ASSUME SinkHolds, LogInv, Take PROVE LogInv'
<1> USE DEF LogInv, lifeVars, SinkHolds
<1>1. PICK n \in 1..Len(export) :
         /\ taken' = taken \o SubSeq(export, 1, n)
         /\ export' = SubSeq(export, n + 1, Len(export))
  BY DEF Take
<1>2. UNCHANGED <<lifeVars, lpc, active, pend, queue, writing, written, dropped>>
  BY DEF Take
<1>3. Len(export) \in Nat /\ n \in 0..Len(export) /\ n \in Nat
  BY LenProperties DEF LogTypeOK
<1> DEFINE front == SubSeq(export, 1, n)
           back  == SubSeq(export, n + 1, Len(export))
<1>4. /\ front \in Seq(Nat) /\ back \in Seq(Nat)
      /\ Len(front) = n /\ Len(back) = Len(export) - n
      /\ Rising(front) /\ Rising(back) /\ Ahead(front, back)
      /\ Range(front) \subseteq Range(export) /\ Range(back) \subseteq Range(export)
  BY <1>3, RisingCut DEF LogTypeOK, OrderInv
<1>5. taken' = taken \o front /\ export' = back
  BY <1>1
<1> HIDE DEF front, back
<1>6. /\ taken \o front \in Seq(Nat) /\ Len(taken \o front) = Len(taken) + n
      /\ Range(taken \o front) = Range(taken) \union Range(front)
      /\ Rising(taken) /\ Rising(front) /\ Ahead(taken, front) => Rising(taken \o front)
  BY <1>4, RisingJoin DEF LogTypeOK
<1>7. Ahead(taken, front)
  BY <1>4 DEF OrderInv, Ahead
<1>8. LogTypeOK'
  BY <1>2, <1>4, <1>5, <1>6 DEF LogTypeOK
<1>9. StopInv'
  BY <1>2 DEF StopInv
<1>10. OrderInv'
  <2>1. /\ Rising(taken') /\ Rising(export') /\ Rising(writing') /\ Rising(queue')
        /\ Len(export') <= Capacity
    BY <1>2, <1>3, <1>4, <1>5, <1>6, <1>7 DEF OrderInv
  <2>2. /\ Ahead(taken', export') /\ Ahead(taken', writing') /\ Ahead(taken', queue')
        /\ Ahead(export', writing') /\ Ahead(export', queue') /\ Ahead(writing', queue')
    BY <1>2, <1>4, <1>5, <1>6 DEF OrderInv, Ahead
  <2>3. /\ UpTo(taken', written') /\ UpTo(export', written')
        /\ UpTo(writing', written') /\ UpTo(queue', written')
    BY <1>2, <1>4, <1>5, <1>6 DEF OrderInv, UpTo
  <2> QED BY <2>1, <2>2, <2>3 DEF OrderInv, Rising, Ahead, UpTo
<1>11. Accounted'
  <2>1. /\ Len(taken') = Len(taken) + n /\ Len(export') = Len(export) - n
        /\ Len(queue') = Len(queue) /\ Len(writing') = Len(writing)
        /\ written' = written /\ dropped' = dropped
        /\ Len(taken) \in Nat /\ Len(queue) \in Nat /\ Len(writing) \in Nat
    BY <1>2, <1>4, <1>5, <1>6, LenProperties DEF LogTypeOK
  <2> QED BY <1>3, <2>1 DEF Accounted, LogTypeOK
<1> QED BY <1>8, <1>9, <1>10, <1>11

LEMMA LogStep == ASSUME SinkHolds, LogInv, [LogNext]_logVars PROVE LogInv'
<1>1. CASE LogNext
  BY <1>1, ProducerKeeps, ShutdownKeeps, WriteKeeps, BackendKeeps, WriteLogKeeps, TakeKeeps
     DEF LogNext
<1>2. CASE UNCHANGED logVars
  BY <1>2 DEF logVars, LogInv, LogTypeOK, StopInv, OrderInv, Accounted, Rising, Ahead, UpTo
<1> QED BY <1>1, <1>2

\* What the four places say together: one sequence in order.
LEMMA LogInvImplies == ASSUME LogInv PROVE RecordsKept
<1>0. /\ taken \in Seq(Nat) /\ export \in Seq(Nat) /\ writing \in Seq(Nat) /\ queue \in Seq(Nat)
  BY DEF LogInv, LogTypeOK
<1>1. InOrder
  <2>1. /\ taken \o export \in Seq(Nat) /\ Rising(taken \o export)
        /\ Range(taken \o export) = Range(taken) \union Range(export)
    BY <1>0, RisingJoin DEF LogInv, OrderInv
  <2>2. /\ (taken \o export) \o writing \in Seq(Nat) /\ Rising((taken \o export) \o writing)
        /\ Range((taken \o export) \o writing)
             = Range(taken \o export) \union Range(writing)
    <3>1. Ahead(taken \o export, writing)
      BY <2>1 DEF LogInv, OrderInv, Ahead
    <3> QED BY <1>0, <2>1, <3>1, RisingJoin DEF LogInv, OrderInv
  <2>3. Rising(((taken \o export) \o writing) \o queue)
    <3>1. Ahead((taken \o export) \o writing, queue)
      BY <2>1, <2>2 DEF LogInv, OrderInv, Ahead
    <3> QED BY <1>0, <2>2, <3>1, RisingJoin DEF LogInv, OrderInv
  <2>4. Len(export) <= Capacity
    BY DEF LogInv, OrderInv
  <2> QED BY <2>3, <2>4 DEF InOrder, Rising
<1>2. StoppedIsDrained /\ ClosedAtEnd
  BY DEF LogInv, StopInv, LogTypeOK, StoppedIsDrained, ClosedAtEnd
<1> QED BY <1>1, <1>2 DEF LogInv, RecordsKept

\* write_record, the backend, take and shutdown of the logging bridge, for any
\* number of threads and records: every accepted record is in one place or
\* counted as dropped, in order; a stopped backend has nothing left and nobody
\* inside; a finished shutdown leaves no sink open.
THEOREM RecordsKeptCorrect == ASSUME SinkHolds PROVE LogSpec => []RecordsKept
<1>1. LogInit => LogInv
  BY InitLog
<1>2. LogInv /\ [LogNext]_logVars => LogInv'
  BY LogStep
<1>3. LogInv => RecordsKept
  BY LogInvImplies
<1> QED BY <1>1, <1>2, <1>3, PTL DEF LogSpec

-----------------------------------------------------------------------------
(* TlsListener.                                                            *)

Blocks ==
    {b \in [k : {"listener", "new", "state", "challenge", "sync"}, c : Conns \cup {NoConn},
            st : {"", "ready", "failed"}] :
        IF b.k \in {"new", "state", "challenge"} THEN b.c \in Conns ELSE b.c = NoConn}
Operations == [refs : 0..2, done : BOOLEAN, cb : BOOLEAN, freed : BOOLEAN,
               result : {"none", "waiting", "done", "timeout"}]
Closing == {"closing", "syncing", "synced", "closed"}

\* The lengths of the queue and the number of operations are left open.
ListenTypeOK ==
    /\ q \in Seq(Blocks)
    /\ block # <<>> => block[1] \in Blocks
    /\ nw_closing \in BOOLEAN /\ listening \in BOOLEAN /\ magic \in BOOLEAN
    /\ all \subseteq Conns /\ handler \subseteq Conns /\ accepted \subseteq Conns
    /\ ready \in Seq(Conns)
    /\ conn \in [Conns -> {"none", "offered", "live", "freed"}]
    /\ nw_refs \in Nat /\ destroyed \in BOOLEAN
    /\ app \in {"starting", "idle", "freeing", "looking", "asleep", "expired", "waiting"}
              \cup Closing
    /\ op \in [Conns -> Operations]

\* A connection is announced once and the close runs one block, so two such
\* blocks are never in the queue, or one in the queue and one running.
Once(b)     == b.k \in {"new", "sync"}
Alike(b, d) == b.k = d.k /\ b.c = d.c
OnceEach(r) == \A i, j \in DOMAIN r : Once(r[i]) /\ Alike(r[i], r[j]) => i = j

QueueInv ==
    /\ \A b \in Range(q) : /\ b.k = "new" => conn[b.c] = "offered"
                           /\ b.k = "sync" => app = "syncing"
                           /\ block # <<>> /\ block[2] = "enter" /\ Once(b)
                                => ~Alike(b, block[1])
    /\ OnceEach(q)

\* What the block that runs has established, step by step.
BlockInv ==
    /\ block # <<>> => block[2] = "enter" \/ Runs("new", "watch")
                         \/ Runs("state", "lock") \/ Runs("state", "drop")
    /\ Runs("new", "enter") => conn[block[1].c] = "offered"
    /\ Runs("new", "watch") \/ Runs("state", "lock") =>
          block[1].c \in all \ (handler \cup Range(ready))
    /\ Runs("state", "enter") => block[1].c \in handler
    /\ Runs("state", "drop") => conn[block[1].c] = "live" /\ block[1].c \notin all \cup accepted
    /\ Runs("sync", "enter") => app = "syncing"

\* A block of the framework for c that the queue holds or that runs.
Due(b) == b \in Range(q) \/ (block # <<>> /\ b = block[1])

\* A challenge is due for a connection that exists, that nobody has accepted
\* and whose handshake has not reported that it is ready.
ChallengeInv ==
    \A b \in Blocks : b.k = "challenge" /\ Due(b) =>
        /\ conn[b.c] \in {"live", "freed"} /\ b.c \notin accepted \cup Range(ready)
        /\ \A d \in Blocks : Due(d) /\ d.k = "state" /\ d.c = b.c => d.st # "ready"

\* A handler is set only for a connection in nw_all that is not ready yet.
OwnInv ==
    /\ all \intersect accepted = {}
    /\ Range(ready) \subseteq all /\ IsInjective(ready)
    /\ \A c \in all : conn[c] = "live"
    /\ \A c \in Conns : conn[c] = "live" =>
         c \in all \cup accepted \/ (Runs("state", "drop") /\ block[1].c = c)
    /\ handler \subseteq all \ Range(ready)
    /\ \A c \in accepted : conn[c] \in {"live", "freed"}

\* The close clears the listener's handlers before its block is queued, and that
\* block finds every connection in nw_all: behind it only challenges still run.
CloseInv ==
    /\ nw_closing <=> app \in Closing
    /\ app \in {"syncing", "synced", "closed"} => ~listening
    /\ app \in {"synced", "closed"} =>
          handler = {} /\ (block # <<>> => block[1].k = "challenge")
    /\ app = "closed" => all = {} /\ ready = <<>>
    /\ magic <=> app # "closed"

\* One reference for the listener itself and one for each stream not yet freed.
LiveStreams == {c \in accepted : conn[c] = "live"}
RefInv ==
    /\ IsFiniteSet(accepted)
    /\ nw_refs = Cardinality(LiveStreams) + (IF magic THEN 1 ELSE 0)
    /\ destroyed <=> nw_refs = 0

OpInv ==
    \A c \in Conns :
       /\ op[c].refs = (IF op[c].cb THEN 1 ELSE 0) + (IF op[c].result = "waiting" THEN 1 ELSE 0)
       /\ op[c].cb \/ op[c].result = "waiting" => ~op[c].freed

ListenInv == ListenTypeOK /\ QueueInv /\ BlockInv /\ OwnInv /\ CloseInv /\ RefInv /\ OpInv
             /\ NotAsleepOverReady /\ ChallengeInv

-----------------------------------------------------------------------------
LEMMA Pairs ==
    \A b, step : <<b, step>> # <<>> /\ <<b, step>>[1] = b /\ <<b, step>>[2] = step
OBVIOUS

LEMMA QueueAppend ==
    ASSUME NEW S, NEW r \in Seq(S), NEW x \in S, OnceEach(r),
           \A y \in Range(r) : Once(x) => ~Alike(y, x)
    PROVE  /\ Append(r, x) \in Seq(S)
           /\ Range(Append(r, x)) = Range(r) \union {x}
           /\ OnceEach(Append(r, x))
<1>1. /\ Append(r, x) \in Seq(S) /\ Len(r) \in Nat
      /\ DOMAIN r = 1..Len(r) /\ DOMAIN Append(r, x) = 1..(Len(r) + 1)
      /\ \A i \in 1..Len(r) : Append(r, x)[i] = r[i]
      /\ Append(r, x)[Len(r) + 1] = x
  BY AppendProperties, LenProperties
<1>2. Range(Append(r, x)) = Range(r) \union {x}
  BY <1>1 DEF Range
<1>3. ASSUME NEW i \in DOMAIN Append(r, x), NEW j \in DOMAIN Append(r, x),
             Once(Append(r, x)[i]), Alike(Append(r, x)[i], Append(r, x)[j])
      PROVE  i = j
  <2>1. CASE i \in 1..Len(r) /\ j \in 1..Len(r)
    BY <1>1, <1>3, <2>1 DEF OnceEach
  <2>2. CASE i \in 1..Len(r) /\ j = Len(r) + 1
    BY <1>1, <1>3, <2>2 DEF Range, Once, Alike
  <2>3. CASE i = Len(r) + 1 /\ j \in 1..Len(r)
    BY <1>1, <1>3, <2>3 DEF Range, Once, Alike
  <2> QED BY <1>1, <1>3, <2>1, <2>2, <2>3
<1> QED BY <1>1, <1>2, <1>3 DEF OnceEach

LEMMA QueueTail ==
    ASSUME NEW S, NEW r \in Seq(S), r # <<>>, OnceEach(r)
    PROVE  /\ Head(r) \in S /\ Head(r) \in Range(r)
           /\ Tail(r) \in Seq(S)
           /\ Range(Tail(r)) \subseteq Range(r)
           /\ OnceEach(Tail(r))
           /\ \A y \in Range(Tail(r)) : Once(Head(r)) => ~Alike(y, Head(r))
<1>1. /\ Len(r) \in Nat \ {0} /\ DOMAIN r = 1..Len(r)
      /\ Tail(r) \in Seq(S) /\ DOMAIN Tail(r) = 1..(Len(r) - 1)
      /\ \A i \in 1..(Len(r) - 1) : Tail(r)[i] = r[i + 1]
      /\ Head(r) = r[1]
  BY HeadTailProperties, LenProperties, EmptySeq
<1>2. Head(r) \in S /\ Head(r) \in Range(r)
  BY <1>1, ElementOfSeq DEF Range
<1>3. Range(Tail(r)) \subseteq Range(r)
  BY <1>1 DEF Range
<1>4. ASSUME NEW i \in DOMAIN Tail(r), NEW j \in DOMAIN Tail(r),
             Once(Tail(r)[i]), Alike(Tail(r)[i], Tail(r)[j])
      PROVE  i = j
  <2>1. i + 1 \in DOMAIN r /\ j + 1 \in DOMAIN r /\ Once(r[i + 1]) /\ Alike(r[i + 1], r[j + 1])
    BY <1>1, <1>4
  <2>2. i + 1 = j + 1
    BY <2>1 DEF OnceEach
  <2> QED BY <1>1, <2>2
<1>5. ASSUME NEW y \in Range(Tail(r)), Once(Head(r)), Alike(y, Head(r)) PROVE FALSE
  <2>1. PICK i \in 1..(Len(r) - 1) : y = r[i + 1]
    BY <1>1 DEF Range
  <2>2. 1 \in DOMAIN r /\ i + 1 \in DOMAIN r /\ Once(r[1]) /\ Alike(r[1], r[i + 1]) /\ 1 # i + 1
    BY <1>1, <1>5, <2>1 DEF Alike
  <2> QED BY <2>2 DEF OnceEach
<1> QED BY <1>1, <1>2, <1>3, <1>4, <1>5 DEF OnceEach

\* The references of the streams when one more is accepted or freed.
LEMMA StreamsCount ==
    ASSUME IsFiniteSet(accepted), NEW c
    PROVE  /\ IsFiniteSet(LiveStreams) /\ Cardinality(LiveStreams) \in Nat
           /\ c \notin LiveStreams => Cardinality(LiveStreams \cup {c}) = Cardinality(LiveStreams) + 1
           /\ c \in LiveStreams => Cardinality(LiveStreams \ {c}) = Cardinality(LiveStreams) - 1
           /\ Cardinality(LiveStreams) = 0 => LiveStreams = {}
           /\ IsFiniteSet(accepted \cup {c})
<1>1. IsFiniteSet(LiveStreams)
  BY FS_Subset DEF LiveStreams
<1> QED BY <1>1, FS_AddElement, FS_RemoveElement, FS_CardinalityType, FS_EmptySet

\* A step after which no new block is due, no freed connection has come back to
\* life and nobody has been accepted keeps ChallengeInv.
LEMMA ChallengeStays ==
    ASSUME ChallengeInv,
           \A b \in Blocks : b.k \in {"challenge", "state"} /\ Due(b)' => Due(b),
           \A c \in Conns : conn[c] \in {"live", "freed"} => conn'[c] \in {"live", "freed"},
           \A c \in Conns : c \in accepted' \cup Range(ready') => c \in accepted \cup Range(ready)
    PROVE  ChallengeInv'
<1>1. ASSUME NEW b \in Blocks, b.k = "challenge", Due(b)'
      PROVE  /\ conn'[b.c] \in {"live", "freed"} /\ b.c \notin accepted' \cup Range(ready')
             /\ \A d \in Blocks : Due(d)' /\ d.k = "state" /\ d.c = b.c => d.st # "ready"
  <2>1. b.c \in Conns
    BY <1>1 DEF Blocks
  <2>2. Due(b)
    BY <1>1
  <2>3. /\ conn[b.c] \in {"live", "freed"} /\ b.c \notin accepted \cup Range(ready)
        /\ \A d \in Blocks : Due(d) /\ d.k = "state" /\ d.c = b.c => d.st # "ready"
    BY <1>1, <2>2 DEF ChallengeInv
  <2> QED BY <2>1, <2>3
<1> QED BY <1>1 DEF ChallengeInv

\* The blocks that are due after a step of the block that runs.
LEMMA DueAfter ==
    ASSUME q' = q, block' = <<>> \/ (block # <<>> /\ block' # <<>> /\ block'[1] = block[1])
    PROVE  \A b \in Blocks : Due(b)' => Due(b)
BY DEF Due

LEMMA InitListen == ASSUME ListenInit PROVE ListenInv
<1> USE DEF ListenInit
<1>0. /\ <<>> \in Seq(Blocks) /\ <<>> \in Seq(Conns) /\ DOMAIN <<>> = {}
      /\ Range(<<>>) = {} /\ IsInjective(<<>>)
  <2>1. DOMAIN <<>> = {}
    BY EmptySeq
  <2> QED BY <2>1, EmptySeq DEF Range, IsInjective
<1>1. ListenTypeOK
  <2>1. NoOp \in Operations
    BY DEF NoOp, Operations
  <2>2. op \in [Conns -> Operations] /\ conn \in [Conns -> {"none", "offered", "live", "freed"}]
    BY <2>1
  <2>3. q \in Seq(Blocks) /\ ready \in Seq(Conns) /\ block = <<>>
    BY <1>0
  <2> QED BY <2>2, <2>3 DEF ListenTypeOK
<1>2. QueueInv
  BY <1>0 DEF QueueInv, OnceEach
<1>3. BlockInv
  BY DEF BlockInv, Runs
<1>4. OwnInv
  BY <1>0 DEF OwnInv
<1>5. CloseInv
  BY DEF CloseInv, Closing
<1>6. RefInv
  <2>1. accepted = {} /\ LiveStreams = {}
    BY DEF LiveStreams
  <2>2. IsFiniteSet({}) /\ Cardinality({}) = 0
    BY FS_EmptySet
  <2> QED BY <2>1, <2>2 DEF RefInv
<1>7. OpInv
  BY DEF OpInv, NoOp
<1>8. NotAsleepOverReady
  BY DEF NotAsleepOverReady
<1>9. ChallengeInv
  BY <1>0 DEF ChallengeInv, Due
<1> QED BY <1>1, <1>2, <1>3, <1>4, <1>5, <1>6, <1>7, <1>8, <1>9 DEF ListenInv

-----------------------------------------------------------------------------
(* The framework.                                                          *)

LEMMA DispatchKeeps == ASSUME ListenInv, FrameworkDispatch PROVE ListenInv'
<1> USE DEF ListenInv
<1>1. PICK b \in Blocks :
         /\ b.k \in {"listener", "new"} => listening
         /\ b.k = "new" => conn[b.c] = "none"
         /\ b.k \in {"state", "challenge"} => b.c \in handler
         /\ b.k = "state" /\ b.st = "ready" => ~Pending("challenge", b.c)
         /\ b.k = "challenge" => ~Pending("state", b.c)
         /\ b.k # "sync"
         /\ q' = Append(q, b)
         /\ conn' = IF b.k = "new" THEN [conn EXCEPT ![b.c] = "offered"] ELSE conn
         /\ UNCHANGED <<block, guarded, listening, handler, accepted, magic, nw_refs,
                        destroyed, app, operations>>
  <2> DEFINE Sent == [k : {"listener"}, c : {NoConn}, st : {"ready", "failed"}]
                     \cup [k : {"new"}, c : Conns, st : {""}]
                     \cup [k : {"state"}, c : Conns, st : {"ready", "failed"}]
                     \cup [k : {"challenge"}, c : Conns, st : {""}]
  <2>1. \A b \in Sent : b \in Blocks /\ b.k \in {"listener", "new", "state", "challenge"}
    BY DEF Blocks
  <2>2. PICK b \in Sent :
          /\ Len(q) < MaxQueue
          /\ CASE b.k = "listener" -> listening /\ nw_state # -1 /\ Queued("listener", NoConn) = 0
               [] b.k = "new" -> listening /\ conn[b.c] = "none"
               [] b.k = "state" -> /\ b.c \in handler /\ Queued("state", b.c) < 2
                                   /\ b.st = "ready" => ~Pending("challenge", b.c)
               [] b.k = "challenge" -> /\ b.c \in handler
                                       /\ ~Pending("challenge", b.c) /\ ~Pending("state", b.c)
          /\ q' = Append(q, b)
          /\ conn' = IF b.k = "new" THEN [conn EXCEPT ![b.c] = "offered"] ELSE conn
          /\ UNCHANGED <<block, guarded, listening, handler, accepted, magic, nw_refs,
                         destroyed, app, operations>>
    BY DEF FrameworkDispatch
  <2> HIDE DEF Sent
  <2>3. b \in Blocks /\ b.k \in {"listener", "new", "state", "challenge"}
    BY <2>1
  <2>4. /\ b.k \in {"listener", "new"} => listening
        /\ b.k = "new" => conn[b.c] = "none"
        /\ b.k \in {"state", "challenge"} => b.c \in handler
        /\ b.k = "state" /\ b.st = "ready" => ~Pending("challenge", b.c)
        /\ b.k = "challenge" => ~Pending("state", b.c)
    BY <2>2
  <2> QED BY <2>2, <2>3, <2>4
<1>2. UNCHANGED <<block, guarded, listening, handler, accepted, magic, nw_refs, destroyed, app,
                  operations>>
  BY <1>1
<1> USE <1>2 DEF guarded, operations
<1>3. b.k = "new" => b.c \in Conns
  BY DEF Blocks
<1>4. \A y \in Range(q) : Once(b) => ~Alike(y, b)
  BY <1>1 DEF QueueInv, Once, Alike
<1>5. /\ q' \in Seq(Blocks) /\ Range(q') = Range(q) \union {b} /\ OnceEach(q')
  BY <1>1, <1>4, QueueAppend DEF ListenTypeOK, QueueInv
<1>6. \A c \in Conns : \/ conn'[c] = conn[c]
                       \/ b.k = "new" /\ b.c = c /\ conn[c] = "none" /\ conn'[c] = "offered"
  <2>1. CASE b.k = "new"
    BY <1>1, <1>3, <2>1 DEF ListenTypeOK
  <2>2. CASE b.k # "new"
    BY <1>1, <2>2
  <2> QED BY <2>1, <2>2
<1>7. ListenTypeOK'
  <2>1. conn' \in [Conns -> {"none", "offered", "live", "freed"}]
    BY <1>1, <1>3 DEF ListenTypeOK
  <2> QED BY <1>5, <2>1 DEF ListenTypeOK
<1>8. QueueInv'
  <2>1. ASSUME NEW y \in Range(q')
        PROVE  /\ y.k = "new" => conn'[y.c] = "offered"
               /\ y.k = "sync" => app' = "syncing"
               /\ block' # <<>> /\ block'[2] = "enter" /\ Once(y) => ~Alike(y, block'[1])
    <3>1. CASE y = b
      BY <1>1, <1>3, <3>1 DEF ListenTypeOK, BlockInv, Runs, Once, Alike
    <3>2. CASE y \in Range(q)
      BY <1>1, <1>3, <3>2 DEF ListenTypeOK, QueueInv
    <3> QED BY <1>5, <2>1, <3>1, <3>2
  <2> QED BY <1>5, <2>1 DEF QueueInv
<1>9. BlockInv'
  <2>1. block # <<>> /\ block[1].k \in {"new", "state"} => block[1].c \in Conns
    BY DEF ListenTypeOK, Blocks
  <2> QED BY <1>6, <2>1 DEF BlockInv, Runs
<1>10. OwnInv'
  BY <1>6 DEF OwnInv, Runs, ListenTypeOK
<1>11. CloseInv'
  BY DEF CloseInv
<1>12. RefInv'
  <2>1. LiveStreams' = LiveStreams
    BY <1>6 DEF LiveStreams, ListenTypeOK, OwnInv
  <2> QED BY <2>1 DEF RefInv
<1>13. OpInv' /\ NotAsleepOverReady'
  BY DEF OpInv, NotAsleepOverReady
<1>14. ChallengeInv'
  <2>1. \A d \in Blocks : Due(d)' <=> Due(d) \/ d = b
    BY <1>5 DEF Due
  <2>2. \A k, c : Pending(k, c) <=> \E d \in Blocks : Due(d) /\ d.k = k /\ d.c = c
    <3>1. ToSet(q) = Range(q) /\ \A d \in Range(q) : d \in Blocks
      BY ElementOfSeq, LenProperties DEF ToSet, Range, ListenTypeOK
    <3> QED BY <3>1 DEF Pending, IsOf, Due, ListenTypeOK
  <2>3. /\ b.k = "challenge" => /\ b.c \in Conns /\ conn[b.c] = "live"
                                /\ b.c \notin accepted \cup Range(ready)
        /\ conn' = conn \/ b.k = "new"
    BY <1>1 DEF OwnInv, Blocks
  <2>4. \A c \in Conns : conn[c] \in {"live", "freed"} => conn'[c] = conn[c]
    BY <1>6
  <2>5. ASSUME NEW x \in Blocks, x.k = "challenge", Due(x)'
        PROVE  /\ conn'[x.c] \in {"live", "freed"} /\ x.c \notin accepted \cup Range(ready)
               /\ \A d \in Blocks : Due(d)' /\ d.k = "state" /\ d.c = x.c => d.st # "ready"
    <3>0. x.c \in Conns
      BY <2>5 DEF Blocks
    <3>1. CASE x = b
      <4>1. \A d \in Blocks : Due(d) => ~(d.k = "state" /\ d.c = x.c)
        BY <1>1, <2>2, <2>5, <3>1
      <4> QED BY <2>1, <2>3, <2>4, <2>5, <3>0, <3>1, <4>1
    <3>2. CASE Due(x)
      <4>1. /\ conn[x.c] \in {"live", "freed"} /\ x.c \notin accepted \cup Range(ready)
            /\ \A d \in Blocks : Due(d) /\ d.k = "state" /\ d.c = x.c => d.st # "ready"
        BY <2>5, <3>2 DEF ChallengeInv
      <4>2. b.k = "state" /\ b.c = x.c => b.st # "ready"
        BY <1>1, <2>2, <2>5, <3>2
      <4> QED BY <2>1, <2>4, <3>0, <4>1, <4>2
    <3> QED BY <2>1, <2>5, <3>1, <3>2
  <2> QED BY <1>2, <2>5 DEF ChallengeInv
<1> QED BY <1>7, <1>8, <1>9, <1>10, <1>11, <1>12, <1>13, <1>14

LEMMA RunKeeps == ASSUME ListenInv, FrameworkRun PROVE ListenInv'
<1> USE DEF ListenInv
<1> DEFINE b == Head(q)
           gone == \/ b.k = "state" /\ b.c \notin handler
                   \/ b.k \in {"listener", "new"} /\ ~listening
<1>1. /\ block = <<>> /\ q # <<>> /\ q' = Tail(q)
      /\ block' = IF gone THEN <<>> ELSE <<b, "enter">>
      /\ UNCHANGED <<guarded, listening, handler, objects, app, operations>>
  BY DEF FrameworkRun
<1> USE <1>1 DEF guarded, objects, operations
<1>2. /\ b \in Blocks /\ b \in Range(q)
      /\ q' \in Seq(Blocks) /\ Range(q') \subseteq Range(q) /\ OnceEach(q')
      /\ \A y \in Range(q') : Once(b) => ~Alike(y, b)
  BY QueueTail DEF ListenTypeOK, QueueInv
<1>3. \/ block' = <<>>
      \/ /\ block' # <<>> /\ block'[1] = b /\ block'[2] = "enter"
         /\ b.k = "state" => b.c \in handler
         /\ b.k \in {"listener", "new"} => listening
  BY Pairs
<1> HIDE DEF b, gone
<1>4. ListenTypeOK'
  BY <1>2, <1>3 DEF ListenTypeOK
<1>5. QueueInv'
  <2>1. ASSUME NEW y \in Range(q')
        PROVE  /\ y.k = "new" => conn'[y.c] = "offered"
               /\ y.k = "sync" => app' = "syncing"
               /\ block' # <<>> /\ block'[2] = "enter" /\ Once(y) => ~Alike(y, block'[1])
    BY <1>2, <1>3, <2>1 DEF QueueInv, Once, Alike
  <2> QED BY <1>2, <2>1 DEF QueueInv
<1>6. BlockInv'
  BY <1>2, <1>3 DEF QueueInv, BlockInv, Runs
<1>7. OwnInv'
  BY DEF OwnInv, Runs
<1>8. CloseInv'
  BY <1>2, <1>3 DEF CloseInv, QueueInv, Blocks
<1>9. RefInv'
  BY DEF RefInv, LiveStreams
<1>10. OpInv' /\ NotAsleepOverReady'
  BY DEF OpInv, NotAsleepOverReady
<1>11. ChallengeInv'
  <2>1. \A d \in Blocks : Due(d)' => Due(d)
    BY <1>2, <1>3 DEF Due
  <2> QED BY <2>1, ChallengeStays
<1> QED BY <1>4, <1>5, <1>6, <1>7, <1>8, <1>9, <1>10, <1>11

\* The steps of an operation: they touch no other object than the operation and
\* the program's own place.
LEMMA OperationKeeps ==
    ASSUME ListenInv, NEW c \in Conns,
           FrameworkComplete(c) \/ StartOp(c) \/ OpDone(c) \/ OpTimesOut(c)
    PROVE  ListenInv'
<1> USE DEF ListenInv
<1>1. /\ UNCHANGED <<q, block, guarded, listening, handler, objects>>
      /\ app' = app \/ (app \in {"idle", "waiting"} /\ app' \in {"idle", "waiting"})
  BY DEF FrameworkComplete, StartOp, OpDone, OpTimesOut
<1>2. op' \in [Conns -> Operations] /\ OpInv'
  <2>1. op \in [Conns -> Operations] /\ op[c] \in Operations
    BY DEF ListenTypeOK
  <2>2. /\ op[c].refs = (IF op[c].cb THEN 1 ELSE 0) + (IF op[c].result = "waiting" THEN 1 ELSE 0)
        /\ op[c].cb \/ op[c].result = "waiting" => ~op[c].freed
    BY DEF OpInv
  <2>3. ASSUME NEW o \in Operations, op' = [op EXCEPT ![c] = o],
               o.refs = (IF o.cb THEN 1 ELSE 0) + (IF o.result = "waiting" THEN 1 ELSE 0),
               o.cb \/ o.result = "waiting" => ~o.freed
        PROVE  op' \in [Conns -> Operations] /\ OpInv'
    <3>1. op' \in [Conns -> Operations] /\ op'[c] = o /\ \A d \in Conns \ {c} : op'[d] = op[d]
      BY <2>1, <2>3
    <3> QED BY <2>3, <3>1 DEF OpInv
  <2>4. CASE FrameworkComplete(c)
    <3> DEFINE last == (op[c].refs = 1)
               o == [op[c] EXCEPT !.cb = FALSE, !.done = TRUE, !.refs = @ - 1, !.freed = last]
    <3>0. last \in BOOLEAN /\ (last <=> op[c].refs = 1)
      OBVIOUS
    <3>1. op[c].cb /\ op' = [op EXCEPT ![c] = o]
      BY <2>1, <2>4 DEF FrameworkComplete
    <3> HIDE DEF last
    <3>2. /\ o.cb = FALSE /\ o.done = TRUE /\ o.refs = op[c].refs - 1
          /\ (o.freed <=> op[c].refs = 1) /\ o.result = op[c].result
      BY <2>1, <3>0 DEF Operations
    <3>3. o \in Operations
      <4>1. op[c].refs - 1 \in 0..2
        BY <2>1, <2>2, <3>1 DEF Operations
      <4> QED BY <2>1, <3>0, <4>1 DEF Operations
    <3> HIDE DEF o
    <3>4. o.refs = (IF o.cb THEN 1 ELSE 0) + (IF o.result = "waiting" THEN 1 ELSE 0)
      BY <2>1, <2>2, <3>1, <3>2 DEF Operations
    <3>5. o.cb \/ o.result = "waiting" => ~o.freed
      BY <2>1, <2>2, <3>1, <3>2 DEF Operations
    <3> QED BY <2>3, <3>1, <3>3, <3>4, <3>5
  <2>5. CASE StartOp(c)
    <3>1. op' = [op EXCEPT ![c] = NewOp] /\ NewOp \in Operations
      BY <2>5 DEF StartOp, NewOp, Operations
    <3>2. /\ NewOp.refs = (IF NewOp.cb THEN 1 ELSE 0)
                           + (IF NewOp.result = "waiting" THEN 1 ELSE 0)
          /\ ~NewOp.freed
      BY DEF NewOp
    <3> HIDE DEF NewOp
    <3> QED BY <2>3, <3>1, <3>2
  <2>6. ASSUME op[c].result = "waiting", NEW r \in {"done", "timeout"},
               op' = [op EXCEPT ![c] = [DropOp(op[c]) EXCEPT !.result = r]]
        PROVE  op' \in [Conns -> Operations] /\ OpInv'
    <3> DEFINE last == (op[c].refs = 1)
               o == [[op[c] EXCEPT !.refs = @ - 1, !.freed = last] EXCEPT !.result = r]
    <3>0. last \in BOOLEAN /\ (last <=> op[c].refs = 1)
      OBVIOUS
    <3>3. op' = [op EXCEPT ![c] = o]
      BY <2>6 DEF DropOp
    <3> HIDE DEF last
    <3>1. /\ o.cb = op[c].cb /\ o.done = op[c].done /\ o.refs = op[c].refs - 1
          /\ (o.freed <=> op[c].refs = 1) /\ o.result = r
      BY <2>1, <3>0 DEF Operations
    <3>2. o \in Operations
      <4>1. op[c].refs - 1 \in 0..2
        BY <2>1, <2>2, <2>6 DEF Operations
      <4> QED BY <2>1, <3>0, <4>1 DEF Operations
    <3> HIDE DEF o
    <3>4. o.refs = (IF o.cb THEN 1 ELSE 0) + (IF o.result = "waiting" THEN 1 ELSE 0)
      BY <2>1, <2>2, <2>6, <3>1 DEF Operations
    <3>5. o.cb \/ o.result = "waiting" => ~o.freed
      BY <2>1, <2>2, <2>6, <3>1 DEF Operations
    <3> QED BY <2>3, <3>2, <3>3, <3>4, <3>5
  <2>7. CASE OpDone(c)
    BY <2>6, <2>7 DEF OpDone
  <2>8. CASE OpTimesOut(c)
    BY <2>6, <2>8 DEF OpTimesOut
  <2> QED BY <2>4, <2>5, <2>7, <2>8
<1> USE <1>1 DEF guarded, objects
<1>3. ListenTypeOK'
  BY <1>2 DEF ListenTypeOK
<1>4. QueueInv'
  BY DEF QueueInv
<1>5. BlockInv'
  BY DEF BlockInv, Runs
<1>6. OwnInv'
  BY DEF OwnInv, Runs
<1>7. CloseInv'
  BY DEF CloseInv, Closing
<1>8. RefInv'
  BY DEF RefInv, LiveStreams
<1>9. NotAsleepOverReady'
  BY DEF NotAsleepOverReady
<1>10. ChallengeInv'
  <2>1. \A b \in Blocks : Due(b)' => Due(b)
    BY DEF Due
  <2> QED BY <2>1, ChallengeStays
<1> QED BY <1>2, <1>3, <1>4, <1>5, <1>6, <1>7, <1>8, <1>9, <1>10

\* Steps that only move the program's own thread between states of a call.
LEMMA CallerKeeps ==
    ASSUME ListenInv, StartReturns \/ Accept \/ AcceptEmpty \/ AcceptTimesOut \/ AcceptExpired
    PROVE  ListenInv'
<1> USE DEF ListenInv
<1>1. /\ UNCHANGED <<q, block, guarded, listening, handler, objects, operations>>
      /\ app \in {"starting", "idle", "looking", "asleep", "expired"}
      /\ app' \in {"idle", "freeing", "looking", "asleep", "expired"}
      /\ app' = "asleep" => ready = <<>> /\ nw_state = 1
  BY DEF StartReturns, Accept, AcceptEmpty, AcceptTimesOut, AcceptExpired
<1> USE <1>1 DEF guarded, objects, operations
<1>2. ListenTypeOK'
  BY DEF ListenTypeOK
<1>3. QueueInv'
  BY DEF QueueInv
<1>4. BlockInv'
  BY DEF BlockInv, Runs
<1>5. OwnInv'
  BY DEF OwnInv, Runs
<1>6. CloseInv'
  BY DEF CloseInv, Closing
<1>7. RefInv' /\ OpInv'
  BY DEF RefInv, LiveStreams, OpInv
<1>8. NotAsleepOverReady'
  BY DEF NotAsleepOverReady
<1>9. ChallengeInv'
  <2>1. \A b \in Blocks : Due(b)' => Due(b)
    BY DEF Due
  <2> QED BY <2>1, ChallengeStays
<1> QED BY <1>2, <1>3, <1>4, <1>5, <1>6, <1>7, <1>8, <1>9

-----------------------------------------------------------------------------
(* The callback blocks.                                                    *)

\* A broadcast wakes a sleeping accept and disturbs no other call.
LEMMA BroadcastWakes ==
    ASSUME app' = Broadcast
    PROVE  /\ app = "asleep" => app' = "looking"
           /\ app # "asleep" => app' = app
BY DEF Broadcast

LEMMA ListenerStateKeeps == ASSUME ListenInv, ListenerState PROVE ListenInv'
<1> USE DEF ListenInv
<1>1. /\ Runs("listener", "enter") /\ block' = <<>>
      /\ UNCHANGED <<q, nw_closing, all, ready, listening, handler, objects, operations>>
      /\ app = "asleep" => app' = "looking"
      /\ app # "asleep" => app' = app
  BY BroadcastWakes DEF ListenerState
<1> USE <1>1 DEF objects, operations
<1>2. ListenTypeOK'
  BY DEF ListenTypeOK
<1>3. QueueInv'
  BY DEF QueueInv
<1>4. BlockInv'
  BY DEF BlockInv, Runs
<1>5. OwnInv'
  BY DEF OwnInv, Runs
<1>6. CloseInv'
  BY DEF CloseInv, Closing
<1>7. RefInv' /\ OpInv'
  BY DEF RefInv, LiveStreams, OpInv
<1>8. NotAsleepOverReady'
  BY DEF NotAsleepOverReady
<1>9. ChallengeInv'
  <2>1. \A b \in Blocks : Due(b)' => Due(b)
    BY DueAfter
  <2> QED BY <2>1, ChallengeStays
<1> QED BY <1>2, <1>3, <1>4, <1>5, <1>6, <1>7, <1>8, <1>9

LEMMA NewConnectionKeeps == ASSUME ListenInv, NewConnection PROVE ListenInv'
<1> USE DEF ListenInv
<1> DEFINE c == block[1].c
<1>1. /\ Runs("new", "enter") /\ block # <<>>
      /\ UNCHANGED <<q, nw_state, nw_closing, ready, listening, handler, accepted, magic, nw_refs,
                     destroyed, app, operations>>
      /\ \/ /\ nw_closing /\ conn' = [conn EXCEPT ![c] = "freed"]
            /\ block' = <<>> /\ all' = all
         \/ /\ ~nw_closing /\ conn' = [conn EXCEPT ![c] = "live"]
            /\ all' = all \cup {c} /\ block' = <<block[1], "watch">>
  BY DEF NewConnection, Runs
<1>2. /\ block[1] \in Blocks /\ block[1].k = "new" /\ block[2] = "enter"
      /\ c \in Conns /\ conn[c] = "offered"
  BY <1>1 DEF ListenTypeOK, BlockInv, Runs, Blocks
<1>3. /\ c \notin all /\ c \notin accepted /\ c \notin handler /\ c \notin Range(ready)
      /\ \A b \in Range(q) : b.k = "new" => b.c # c
  BY <1>1, <1>2 DEF OwnInv, QueueInv, Once, Alike
<1>4. \/ block' = <<>> /\ nw_closing /\ all' = all
      \/ /\ block' # <<>> /\ block'[1] = block[1] /\ block'[2] = "watch"
         /\ ~nw_closing /\ all' = all \cup {c} /\ conn' = [conn EXCEPT ![c] = "live"]
  BY <1>1, Pairs
<1>5. /\ conn' \in [Conns -> {"none", "offered", "live", "freed"}]
      /\ \A d \in Conns : d # c => conn'[d] = conn[d]
      /\ conn'[c] \in {"live", "freed"} /\ (nw_closing => conn'[c] = "freed")
  BY <1>1, <1>2 DEF ListenTypeOK
<1> USE <1>1 DEF operations
<1> HIDE DEF c
<1>6. ListenTypeOK'
  BY <1>2, <1>4, <1>5 DEF ListenTypeOK
<1>7. QueueInv'
  <2>1. \A b \in Range(q) : b.k = "new" => b.c \in Conns /\ b.c # c
    <3>1. \A b \in Range(q) : b \in Blocks
      BY ElementOfSeq, LenProperties DEF ListenTypeOK, Range
    <3> QED BY <1>3, <3>1 DEF Blocks
  <2> QED BY <1>4, <1>5, <2>1 DEF QueueInv
<1>8. BlockInv'
  BY <1>2, <1>3, <1>4 DEF BlockInv, Runs, c
<1>9. OwnInv'
  BY <1>1, <1>2, <1>3, <1>4, <1>5 DEF OwnInv, Runs, ListenTypeOK
<1>10. CloseInv'
  BY <1>2, <1>4 DEF CloseInv, Closing
<1>11. RefInv'
  <2>1. LiveStreams' = LiveStreams
    BY <1>3, <1>5 DEF LiveStreams, ListenTypeOK
  <2> QED BY <2>1 DEF RefInv
<1>12. OpInv' /\ NotAsleepOverReady'
  BY DEF OpInv, NotAsleepOverReady
<1>13. ChallengeInv'
  <2>1. \A b \in Blocks : Due(b)' => Due(b)
    BY <1>4, DueAfter
  <2> QED BY <1>2, <1>5, <2>1, ChallengeStays
<1> QED BY <1>6, <1>7, <1>8, <1>9, <1>10, <1>11, <1>12, <1>13

\* The steps that set and clear the handlers.
LEMMA HandlerKeeps ==
    ASSUME ListenInv, WatchConnection \/ ConnectionState
    PROVE  ListenInv'
<1> USE DEF ListenInv
<1> DEFINE c == block[1].c
<1>1. /\ block # <<>> /\ UNCHANGED <<q, guarded, listening, objects, app, operations>>
      /\ \/ Runs("new", "watch") /\ handler' = handler \cup {c} /\ block' = <<>>
         \/ Runs("state", "enter") /\ handler' = handler \ {c} /\ block' = <<block[1], "lock">>
  BY DEF WatchConnection, ConnectionState, FirstState, Runs
<1>2. /\ block[1] \in Blocks /\ c \in all /\ c \in Conns /\ c \notin Range(ready)
      /\ Runs("state", "enter") => block[1].k = "state"
  BY <1>1 DEF ListenTypeOK, BlockInv, OwnInv, Runs
<1>3. \/ Runs("new", "watch") /\ handler' = handler \cup {c} /\ block' = <<>>
      \/ /\ Runs("state", "enter") /\ handler' = handler \ {c}
         /\ block' # <<>> /\ block'[1] = block[1] /\ block'[2] = "lock"
  BY <1>1, Pairs
<1> USE <1>1 DEF guarded, objects, operations
<1>4. ListenTypeOK'
  BY <1>2, <1>3 DEF ListenTypeOK
<1>5. QueueInv'
  BY <1>3 DEF QueueInv
<1>6. BlockInv'
  BY <1>2, <1>3 DEF BlockInv, Runs
<1>7. OwnInv'
  BY <1>2, <1>3 DEF OwnInv, Runs
<1>8. CloseInv'
  <2>1. app \notin {"synced", "closed"}
    BY <1>1, <1>3 DEF CloseInv, Runs
  <2> QED BY <2>1 DEF CloseInv, Closing
<1>9. RefInv' /\ OpInv' /\ NotAsleepOverReady'
  BY DEF RefInv, LiveStreams, OpInv, NotAsleepOverReady
<1>10. ChallengeInv'
  <2>1. \A b \in Blocks : Due(b)' => Due(b)
    BY <1>3, DueAfter
  <2> QED BY <2>1, ChallengeStays
<1> QED BY <1>4, <1>5, <1>6, <1>7, <1>8, <1>9, <1>10

LEMMA ChallengeAnswersKeeps == ASSUME ListenInv, ChallengeAnswers PROVE ListenInv'
<1> USE DEF ListenInv
<1>1. /\ Runs("challenge", "enter") /\ block' = <<>>
      /\ UNCHANGED <<q, guarded, listening, handler, objects, app, operations>>
  BY DEF ChallengeAnswers
<1> USE <1>1 DEF guarded, objects, operations
<1>2. ListenTypeOK' /\ QueueInv' /\ CloseInv'
  BY DEF ListenTypeOK, QueueInv, CloseInv
<1>3. BlockInv' /\ OwnInv'
  BY DEF BlockInv, OwnInv, Runs
<1>4. RefInv' /\ OpInv' /\ NotAsleepOverReady'
  BY DEF RefInv, LiveStreams, OpInv, NotAsleepOverReady
<1>5. ChallengeInv'
  BY DueAfter, ChallengeStays
<1> QED BY <1>2, <1>3, <1>4, <1>5

LEMMA SettleKeeps == ASSUME ListenInv, ConnectionSettles PROVE ListenInv'
<1> USE DEF ListenInv
<1> DEFINE c == block[1].c
<1>1. /\ Runs("state", "lock") /\ block # <<>>
      /\ UNCHANGED <<q, nw_state, nw_closing, listening, handler, objects, operations>>
      /\ app = "asleep" => app' = "looking"
      /\ app # "asleep" => app' = app
      /\ \/ ~nw_closing /\ ready' = Append(ready, c) /\ all' = all /\ block' = <<>>
         \/ ready' = ready /\ all' = all \ {c} /\ block' = <<block[1], "drop">>
  BY BroadcastWakes DEF ConnectionSettles, Runs
<1>2. /\ block[1] \in Blocks /\ block[1].k = "state" /\ c \in Conns
      /\ c \in all /\ c \notin handler /\ c \notin Range(ready)
      /\ c \notin accepted /\ conn[c] = "live"
  BY <1>1 DEF ListenTypeOK, BlockInv, OwnInv, Runs, Blocks
<1>3. \/ ~nw_closing /\ ready' = Append(ready, c) /\ all' = all /\ block' = <<>>
      \/ /\ ready' = ready /\ all' = all \ {c}
         /\ block' # <<>> /\ block'[1] = block[1] /\ block'[2] = "drop"
  BY <1>1, Pairs
<1>4. /\ Append(ready, c) \in Seq(Conns) /\ IsInjective(Append(ready, c))
      /\ Range(Append(ready, c)) = Range(ready) \union {c}
  BY <1>2, PushLemma DEF ListenTypeOK, OwnInv
<1> USE <1>1 DEF objects, operations
<1>5. ready' \in Seq(Conns) /\ IsInjective(ready') /\ Range(ready') \subseteq all'
  BY <1>2, <1>3, <1>4 DEF ListenTypeOK, OwnInv
<1>6. Range(ready') \subseteq Range(ready) \union {c}
  BY <1>3, <1>4
<1> HIDE DEF c
<1>7. ListenTypeOK'
  BY <1>2, <1>3, <1>5 DEF ListenTypeOK
<1>8. QueueInv'
  BY <1>3 DEF QueueInv
<1>9. BlockInv'
  BY <1>2, <1>3 DEF BlockInv, Runs, c
<1>10. OwnInv'
  BY <1>2, <1>3, <1>5, <1>6 DEF OwnInv, Runs, c
<1>11. CloseInv'
  BY <1>3 DEF CloseInv, Closing
<1>12. RefInv' /\ OpInv'
  BY DEF RefInv, LiveStreams, OpInv
<1>13. NotAsleepOverReady'
  BY DEF NotAsleepOverReady
<1>14. ChallengeInv'
  <2>1. \A b \in Blocks : Due(b)' => Due(b)
    BY <1>3, DueAfter
  <2>2. CASE ready' = ready
    BY <2>1, <2>2, ChallengeStays
  <2>3. CASE ready' # ready
    <3>1. block[1].st = "ready" /\ Due(block[1]) /\ block[1].c = c
      BY <2>3 DEF ConnectionSettles, Due, c
    <3>2. \A b \in Blocks : b.k = "challenge" /\ Due(b) => b.c # c
      BY <1>2, <3>1 DEF ChallengeInv
    <3> QED BY <1>6, <2>1, <3>2 DEF ChallengeInv
  <2> QED BY <2>2, <2>3
<1> QED BY <1>7, <1>8, <1>9, <1>10, <1>11, <1>12, <1>13, <1>14

LEMMA DropFailedKeeps == ASSUME ListenInv, DropFailed PROVE ListenInv'
<1> USE DEF ListenInv
<1> DEFINE c == block[1].c
<1>1. /\ Runs("state", "drop") /\ block # <<>> /\ block' = <<>>
      /\ conn' = [conn EXCEPT ![c] = "freed"]
      /\ UNCHANGED <<q, guarded, listening, handler, accepted, magic, nw_refs, destroyed, app,
                     operations>>
  BY DEF DropFailed, Runs
<1>2. /\ block[1] \in Blocks /\ block[1].k = "state" /\ c \in Conns
      /\ c \notin all /\ c \notin accepted /\ conn[c] = "live"
  BY <1>1 DEF ListenTypeOK, BlockInv, Runs, Blocks
<1>3. /\ conn' \in [Conns -> {"none", "offered", "live", "freed"}]
      /\ conn'[c] = "freed" /\ \A d \in Conns : d # c => conn'[d] = conn[d]
  BY <1>1, <1>2 DEF ListenTypeOK
<1> USE <1>1 DEF guarded, operations
<1>4. ListenTypeOK'
  BY <1>3 DEF ListenTypeOK
<1>5. QueueInv'
  <2>1. \A b \in Range(q) : b.k = "new" => b.c \in Conns /\ b.c # c
    <3>1. \A b \in Range(q) : b \in Blocks
      BY ElementOfSeq, LenProperties DEF ListenTypeOK, Range
    <3> QED BY <1>2, <3>1 DEF Blocks, QueueInv
  <2> QED BY <1>3, <2>1 DEF QueueInv
<1>6. BlockInv'
  BY DEF BlockInv, Runs
<1>7. OwnInv'
  <2> HIDE DEF c
  <2>1. \A d \in Conns : d # c => ~(Runs("state", "drop") /\ block[1].c = d)
    BY DEF c
  <2> QED BY <1>2, <1>3, <2>1 DEF OwnInv, ListenTypeOK
<1>8. CloseInv'
  BY DEF CloseInv
<1>9. RefInv'
  <2>1. LiveStreams' = LiveStreams
    BY <1>2, <1>3 DEF LiveStreams, ListenTypeOK
  <2> QED BY <2>1 DEF RefInv
<1>10. OpInv' /\ NotAsleepOverReady'
  BY DEF OpInv, NotAsleepOverReady
<1>11. ChallengeInv'
  <2>1. \A b \in Blocks : Due(b)' => Due(b)
    BY DueAfter
  <2> QED BY <1>3, <2>1, ChallengeStays
<1> QED BY <1>4, <1>5, <1>6, <1>7, <1>8, <1>9, <1>10, <1>11

LEMMA SyncKeeps == ASSUME ListenInv, SyncBlock PROVE ListenInv'
<1> USE DEF ListenInv
<1>1. /\ Runs("sync", "enter") /\ block # <<>> /\ block' = <<>> /\ app' = "synced"
      /\ handler' = handler \ all
      /\ UNCHANGED <<q, guarded, listening, objects, operations>>
  BY DEF SyncBlock, Runs
<1>2. /\ block[1] \in Blocks /\ block[1].k = "sync" /\ app = "syncing" /\ handler' = {}
  BY <1>1 DEF ListenTypeOK, BlockInv, OwnInv, Runs
<1>3. \A b \in Range(q) : b.k # "sync"
  <2>1. \A b \in Range(q) : b \in Blocks
    BY ElementOfSeq, LenProperties DEF ListenTypeOK, Range
  <2> QED BY <1>1, <1>2, <2>1 DEF QueueInv, Once, Alike, Blocks, Runs
<1> USE <1>1 DEF guarded, objects, operations
<1>4. ListenTypeOK'
  BY <1>2 DEF ListenTypeOK, Closing
<1>5. QueueInv'
  BY <1>3 DEF QueueInv
<1>6. BlockInv'
  BY DEF BlockInv, Runs
<1>7. OwnInv'
  BY <1>2 DEF OwnInv, Runs
<1>8. CloseInv'
  BY <1>2 DEF CloseInv, Closing
<1>9. RefInv' /\ OpInv' /\ NotAsleepOverReady'
  BY DEF RefInv, LiveStreams, OpInv, NotAsleepOverReady
<1>10. ChallengeInv'
  <2>1. \A b \in Blocks : Due(b)' => Due(b)
    BY DueAfter
  <2> QED BY <2>1, ChallengeStays
<1> QED BY <1>4, <1>5, <1>6, <1>7, <1>8, <1>9, <1>10

-----------------------------------------------------------------------------
(* The program's thread.                                                   *)

LEMMA AcceptTakesKeeps == ASSUME ListenInv, AcceptTakes PROVE ListenInv'
<1> USE DEF ListenInv
<1> DEFINE c == Head(ready)
<1>1. /\ app = "looking" /\ ready # <<>> /\ app' = "idle"
      /\ ready' = Tail(ready) /\ all' = all \ {c} /\ accepted' = accepted \cup {c}
      /\ nw_refs' = nw_refs + 1
      /\ UNCHANGED <<q, block, nw_state, nw_closing, listening, handler, conn, magic, destroyed,
                     operations>>
  BY DEF AcceptTakes, AcceptedRefs
<1>2. /\ c \in Conns /\ c \in Range(ready) /\ ready' \in Seq(Conns) /\ IsInjective(ready')
      /\ Range(ready') = Range(ready) \ {c}
  BY <1>1, PopLemma DEF ListenTypeOK, OwnInv
<1>3. c \in all /\ c \notin handler /\ c \notin accepted /\ conn[c] = "live" /\ magic
  BY <1>1, <1>2 DEF OwnInv, CloseInv
<1> USE <1>1 DEF operations
<1> HIDE DEF c
<1>4. ListenTypeOK'
  BY <1>2 DEF ListenTypeOK
<1>5. QueueInv'
  BY DEF QueueInv
<1>6. BlockInv'
  BY <1>2, <1>3 DEF BlockInv, Runs
<1>7. OwnInv'
  BY <1>2, <1>3 DEF OwnInv, Runs
<1>8. CloseInv'
  BY <1>3 DEF CloseInv, Closing
<1>9. RefInv'
  <2>1. LiveStreams' = LiveStreams \cup {c} /\ c \notin LiveStreams
    BY <1>3 DEF LiveStreams
  <2>2. IsFiniteSet(accepted) /\ nw_refs = Cardinality(LiveStreams) + 1 /\ (destroyed <=> nw_refs = 0)
    BY <1>3 DEF RefInv
  <2>3. /\ Cardinality(LiveStreams) \in Nat /\ Cardinality(LiveStreams') = Cardinality(LiveStreams) + 1
        /\ IsFiniteSet(accepted')
    BY <2>1, <2>2, StreamsCount
  <2>4. ~destroyed' /\ nw_refs' = Cardinality(LiveStreams') + 1 /\ nw_refs' # 0 /\ magic'
    BY <1>3, <2>2, <2>3
  <2> QED BY <2>3, <2>4 DEF RefInv
<1>10. OpInv' /\ NotAsleepOverReady'
  BY DEF OpInv, NotAsleepOverReady
<1>11. ChallengeInv'
  <2>1. \A b \in Blocks : Due(b)' => Due(b)
    BY DEF Due
  <2> QED BY <1>2, <2>1, ChallengeStays
<1> QED BY <1>4, <1>5, <1>6, <1>7, <1>8, <1>9, <1>10, <1>11

LEMMA NwFreeKeeps == ASSUME ListenInv, NEW c \in Conns, NwFree(c) PROVE ListenInv'
<1> USE DEF ListenInv
<1>1. /\ c \in accepted /\ conn[c] = "live" /\ conn' = [conn EXCEPT ![c] = "freed"]
      /\ nw_refs' = nw_refs - 1 /\ (destroyed' <=> nw_refs = 1) /\ destroyed' \in BOOLEAN
      /\ UNCHANGED <<q, block, guarded, listening, handler, accepted, magic, app, operations>>
  BY DEF NwFree, Release
<1>2. /\ conn' \in [Conns -> {"none", "offered", "live", "freed"}]
      /\ conn'[c] = "freed" /\ \A d \in Conns : d # c => conn'[d] = conn[d]
  BY <1>1 DEF ListenTypeOK
<1>3. c \notin all
  BY <1>1 DEF OwnInv
<1> USE <1>1 DEF guarded, operations
<1>4. RefInv' /\ nw_refs' \in Nat
  <2>1. LiveStreams' = LiveStreams \ {c} /\ c \in LiveStreams
    BY <1>1, <1>2 DEF LiveStreams, ListenTypeOK
  <2>2. /\ IsFiniteSet(accepted)
        /\ nw_refs = Cardinality(LiveStreams) + (IF magic THEN 1 ELSE 0)
    BY DEF RefInv
  <2>3. Cardinality(LiveStreams) \in Nat /\ Cardinality(LiveStreams') = Cardinality(LiveStreams) - 1
    BY <2>1, <2>2, StreamsCount
  <2>4. Cardinality(LiveStreams) # 0
    BY <2>1, <2>2, StreamsCount
  <2> QED BY <2>2, <2>3, <2>4 DEF RefInv
<1>5. ListenTypeOK'
  BY <1>2, <1>4 DEF ListenTypeOK
<1>6. QueueInv'
  <2>1. \A b \in Range(q) : b.k = "new" => b.c \in Conns /\ b.c # c
    <3>1. \A b \in Range(q) : b \in Blocks
      BY ElementOfSeq, LenProperties DEF ListenTypeOK, Range
    <3> QED BY <1>1, <3>1 DEF Blocks, QueueInv
  <2> QED BY <1>2, <2>1 DEF QueueInv
<1>7. BlockInv'
  <2>1. block # <<>> /\ block[1].k \in {"new", "state"} => block[1].c \in Conns
    BY DEF ListenTypeOK, Blocks
  <2> QED BY <1>1, <1>2, <2>1 DEF BlockInv, Runs
<1>8. OwnInv'
  BY <1>2, <1>3 DEF OwnInv, Runs, ListenTypeOK
<1>9. CloseInv'
  BY DEF CloseInv
<1>10. OpInv' /\ NotAsleepOverReady'
  BY DEF OpInv, NotAsleepOverReady
<1>11. ChallengeInv'
  <2>1. \A b \in Blocks : Due(b)' => Due(b)
    BY DEF Due
  <2> QED BY <1>2, <2>1, ChallengeStays
<1> QED BY <1>4, <1>5, <1>6, <1>7, <1>8, <1>9, <1>10, <1>11

LEMMA FreeClosesKeeps == ASSUME ListenInv, FreeCloses PROVE ListenInv'
<1> USE DEF ListenInv
<1>1. /\ app \in {"idle", "freeing"} /\ magic /\ nw_closing' = TRUE /\ app' = "closing"
      /\ UNCHANGED <<q, block, nw_state, all, ready, listening, handler, objects, operations>>
  BY DEF FreeCloses
<1> USE <1>1 DEF objects, operations
<1>2. ListenTypeOK' /\ QueueInv' /\ CloseInv'
  BY DEF ListenTypeOK, QueueInv, CloseInv, Closing
<1>3. BlockInv' /\ OwnInv'
  BY DEF BlockInv, OwnInv, Runs
<1>4. RefInv' /\ OpInv' /\ NotAsleepOverReady'
  BY DEF RefInv, LiveStreams, OpInv, NotAsleepOverReady
<1>5. ChallengeInv'
  <2>1. \A b \in Blocks : Due(b)' => Due(b)
    BY DEF Due
  <2> QED BY <2>1, ChallengeStays
<1> QED BY <1>2, <1>3, <1>4, <1>5

LEMMA FreeCancelsKeeps == ASSUME ListenInv, FreeCancels PROVE ListenInv'
<1> USE DEF ListenInv
<1> DEFINE b == Block("sync", NoConn, "")
<1>1. /\ app = "closing" /\ listening' = FALSE /\ app' = "syncing" /\ q' = Append(q, b)
      /\ UNCHANGED <<block, guarded, handler, objects, operations>>
  BY DEF FreeCancels
<1>2. b \in Blocks /\ b.k = "sync"
  BY DEF Block, Blocks
<1> HIDE DEF b
<1>3. \A y \in Range(q) : Once(b) => ~Alike(y, b)
  BY <1>1, <1>2 DEF QueueInv, Once, Alike
<1>4. q' \in Seq(Blocks) /\ Range(q') = Range(q) \union {b} /\ OnceEach(q')
  BY <1>1, <1>2, <1>3, QueueAppend DEF ListenTypeOK, QueueInv
<1> USE <1>1 DEF guarded, objects, operations
<1>5. ListenTypeOK'
  BY <1>4 DEF ListenTypeOK, Closing
<1>6. QueueInv'
  <2>1. ASSUME NEW y \in Range(q')
        PROVE  /\ y.k = "new" => conn'[y.c] = "offered"
               /\ y.k = "sync" => app' = "syncing"
               /\ block' # <<>> /\ block'[2] = "enter" /\ Once(y) => ~Alike(y, block'[1])
    <3>1. CASE y = b
      BY <1>2, <3>1 DEF BlockInv, Runs, Alike
    <3>2. CASE y \in Range(q)
      BY <3>2 DEF QueueInv
    <3> QED BY <1>4, <2>1, <3>1, <3>2
  <2> QED BY <1>4, <2>1 DEF QueueInv
<1>7. BlockInv' /\ OwnInv'
  BY DEF BlockInv, OwnInv, Runs
<1>8. CloseInv'
  BY DEF CloseInv, Closing
<1>9. RefInv' /\ OpInv' /\ NotAsleepOverReady'
  BY DEF RefInv, LiveStreams, OpInv, NotAsleepOverReady
<1>10. ChallengeInv'
  <2>1. \A y \in Blocks : y.k \in {"challenge", "state"} /\ Due(y)' => Due(y)
    BY <1>2, <1>4 DEF Due
  <2> QED BY <2>1, ChallengeStays
<1> QED BY <1>5, <1>6, <1>7, <1>8, <1>9, <1>10

LEMMA FreeDropsKeeps == ASSUME ListenInv, FreeDrops PROVE ListenInv'
<1> USE DEF ListenInv
<1>1. /\ app = "synced" /\ app' = "closed" /\ all' = {} /\ ready' = <<>> /\ magic' = FALSE
      /\ conn' = [c \in Conns |-> IF c \in all THEN "freed" ELSE conn[c]]
      /\ nw_refs' = nw_refs - 1 /\ (destroyed' <=> nw_refs = 1) /\ destroyed' \in BOOLEAN
      /\ UNCHANGED <<q, block, nw_state, nw_closing, listening, handler, accepted, operations>>
  BY DEF FreeDrops, FreeWaits, NeverAccepted, Release
<1>2. /\ block # <<>> => block[1].k = "challenge"
      /\ handler = {} /\ magic /\ ~listening /\ nw_closing
      /\ <<>> \in Seq(Conns) /\ Range(<<>>) = {} /\ IsInjective(<<>>)
  <2>1. DOMAIN <<>> = {} /\ <<>> \in Seq(Conns)
    BY EmptySeq
  <2> QED BY <1>1, <2>1 DEF CloseInv, Closing, Range, IsInjective
<1>3. /\ conn' \in [Conns -> {"none", "offered", "live", "freed"}]
      /\ \A c \in Conns : /\ conn[c] # "live" => conn'[c] = conn[c]
                          /\ c \in accepted => conn'[c] = conn[c]
                          /\ conn'[c] = "live" => conn[c] = "live" /\ c \notin all
  BY <1>1 DEF ListenTypeOK, OwnInv
<1> USE <1>1 DEF operations
<1>4. RefInv' /\ nw_refs' \in Nat
  <2>1. LiveStreams' = LiveStreams
    BY <1>3 DEF LiveStreams, ListenTypeOK
  <2>2. IsFiniteSet(accepted) /\ nw_refs = Cardinality(LiveStreams) + 1
    BY <1>2 DEF RefInv
  <2>3. Cardinality(LiveStreams) \in Nat
    BY <2>2, StreamsCount
  <2>4. nw_refs' = Cardinality(LiveStreams') + 0 /\ (destroyed' <=> nw_refs' = 0) /\ ~magic'
    BY <2>1, <2>2, <2>3
  <2> QED BY <2>1, <2>2, <2>3, <2>4 DEF RefInv
<1>5. ListenTypeOK'
  BY <1>2, <1>3, <1>4 DEF ListenTypeOK, Closing
<1>6. QueueInv'
  <2>1. \A b \in Range(q) : b.k = "new" => b.c \in Conns /\ conn[b.c] = "offered"
    <3>1. \A b \in Range(q) : b \in Blocks
      BY ElementOfSeq, LenProperties DEF ListenTypeOK, Range
    <3> QED BY <3>1 DEF Blocks, QueueInv
  <2>2. \A b \in Range(q) : b.k # "sync"
    BY DEF QueueInv
  <2> QED BY <1>2, <1>3, <2>1, <2>2 DEF QueueInv
<1>7. BlockInv'
  BY <1>2 DEF BlockInv, Runs
<1>8. OwnInv'
  BY <1>2, <1>3 DEF OwnInv, Runs, ListenTypeOK
<1>9. CloseInv'
  BY <1>2 DEF CloseInv, Closing
<1>10. OpInv' /\ NotAsleepOverReady'
  BY DEF OpInv, NotAsleepOverReady
<1>11. ChallengeInv'
  <2>1. \A b \in Blocks : Due(b)' => Due(b)
    BY DEF Due
  <2>2. \A c \in Conns : conn[c] \in {"live", "freed"} => conn'[c] \in {"live", "freed"}
    BY <1>1
  <2> QED BY <1>2, <2>1, <2>2, ChallengeStays
<1> QED BY <1>4, <1>5, <1>6, <1>7, <1>8, <1>9, <1>10, <1>11

LEMMA ListenStep == ASSUME ListenInv, [ListenNext]_listenVars PROVE ListenInv'
<1>1. CASE ListenNext
  BY <1>1, DispatchKeeps, RunKeeps, OperationKeeps, CallerKeeps, ListenerStateKeeps,
     NewConnectionKeeps, HandlerKeeps, ChallengeAnswersKeeps, SettleKeeps, DropFailedKeeps, SyncKeeps,
     AcceptTakesKeeps, NwFreeKeeps, FreeClosesKeeps, FreeCancelsKeeps, FreeDropsKeeps
     DEF ListenNext
<1>2. CASE UNCHANGED listenVars
  BY <1>2 DEF listenVars, ListenInv, ListenTypeOK, QueueInv, BlockInv, OwnInv, CloseInv, RefInv,
              LiveStreams, OpInv, NotAsleepOverReady, Runs, ChallengeInv, Due
<1> QED BY <1>1, <1>2

LEMMA ListenInvImplies == ASSUME ListenInv PROVE ConnectionsKept
<1> USE DEF ListenInv
<1>1. OneOwner
  <2>1. ToSet(ready) = Range(ready)
    BY DEF ToSet, Range
  <2> QED BY <2>1 DEF OneOwner, OwnInv
<1>2. UsersFindTheirObjects
  <2>1. ASSUME destroyed
        PROVE  /\ block # <<>> => LateChallenge
               /\ \A c \in accepted : conn[c] = "freed"
    <3>1. IsFiniteSet(accepted) /\ Cardinality(LiveStreams) \in Nat
      BY StreamsCount DEF RefInv
    <3>2. Cardinality(LiveStreams) = 0 /\ ~magic
      BY <2>1, <3>1 DEF RefInv
    <3>3. LiveStreams = {}
      BY <3>1, <3>2, StreamsCount
    <3>4. app = "closed" /\ all = {} /\ \A c \in accepted : conn[c] = "freed"
      BY <3>2, <3>3 DEF LiveStreams, CloseInv, OwnInv
    <3>5. ASSUME block # <<>> PROVE LateChallenge
      <4>1. block[1] \in Blocks /\ block[1].k = "challenge" /\ Due(block[1])
        BY <3>4, <3>5 DEF CloseInv, ListenTypeOK, Due
      <4>2. /\ block[1].c \in Conns /\ conn[block[1].c] \in {"live", "freed"}
            /\ block[1].c \notin accepted
        BY <4>1 DEF ChallengeInv, Blocks
      <4> QED BY <3>4, <4>1, <4>2 DEF OwnInv, Runs, LateChallenge
    <3> QED BY <3>4, <3>5
  <2>2. ASSUME block # <<>>, block[2] \in {"watch", "lock", "drop"}
        PROVE  conn[block[1].c] = "live"
    BY <2>2 DEF BlockInv, OwnInv, Runs
  <2> QED BY <2>1, <2>2 DEF UsersFindTheirObjects
<1>3. OpOutlivesBoth
  BY DEF OpInv, OpOutlivesBoth
<1>4. CloseDropsAll
  BY DEF CloseInv, OwnInv, Runs, CloseDropsAll
<1> QED BY <1>1, <1>2, <1>3, <1>4 DEF ConnectionsKept

\* The listener of the Network.framework backend, for any number of connections,
\* of blocks in its queue and of operations: every connection has one owner, a
\* block and a stream find what they point to, an operation outlives both its
\* waiter and its block, and a close drops what nobody accepted; the one block
\* that can find the session gone is a challenge queued behind the close, of a
\* connection the close has dropped.
THEOREM ConnectionsKeptCorrect == ListenSpec => []ConnectionsKept
<1>1. ListenInit => ListenInv
  BY InitListen
<1>2. ListenInv /\ [ListenNext]_listenVars => ListenInv'
  BY ListenStep
<1>3. ListenInv => ConnectionsKept
  BY ListenInvImplies
<1> QED BY <1>1, <1>2, <1>3, PTL DEF ListenSpec

-----------------------------------------------------------------------------
(* TlsIdentity.                                                            *)

\* What a function holds before each of its steps, and after the last one.
Held(fn) ==
    CASE fn = "openssl new" ->
           << {}, {"s"}, {"s", "ctx"}, {"s", "ctx"}, {"s", "ctx", "ssl"},
              {"s", "ctx", "ssl", "rbio", "wbio"}, {"s", "ctx", "ssl", "rbio", "wbio"} >>
      [] fn = "securetransport new" ->
           << {}, {"s"}, {"s", "ctx"}, {"s", "ctx"}, {"s", "ctx", "protos"},
              {"s", "ctx", "alpn_config"} >>
      [] fn = "schannel new" -> << {}, {"s"}, {"s"}, {"s", "wide"}, {"s", "credential"} >>
      [] fn = "openssl pem" ->
           << {}, {"password"}, {"password", "cert_bio", "key_bio"},
              {"password", "cert_bio", "certificate", "private_key"},
              {"password", "cert_bio", "certificate", "private_key", "entry", "entry_ctx"},
              {"password", "cert_bio", "certificate", "private_key", "entry", "entry_ctx"},
              {"entry", "entry_ctx"} >>
      [] fn = "openssl pkcs12" ->
           << {}, {"password"}, {"password", "p12_bio", "p12"},
              {"password", "certificate", "private_key", "extra_chain"},
              {"password", "certificate", "private_key", "extra_chain", "entry", "entry_ctx"},
              {"password", "certificate", "private_key", "extra_chain", "entry", "entry_ctx"},
              {"entry", "entry_ctx"} >>
      [] fn = "securetransport pem" ->
           << {}, {"keychain"}, {"keychain", "cert_data", "key_data"},
              {"keychain", "key_data", "certs"}, {"keychain", "key_data", "certs", "pass"},
              {"keychain", "certs", "keys"}, {"keychain", "chain"},
              {"keychain", "chain", "entry"}, {"keychain", "chain", "entry", "leaf"},
              {"keychain", "chain", "entry", "certificates"},
              {"keychain", "chain", "entry", "nw_identity"},
              {"keychain", "chain", "entry", "nw_identity"},
              {"keychain", "chain", "entry", "nw_identity"} >>
      [] fn = "securetransport pkcs12" ->
           << {}, {"keychain"}, {"keychain", "blob", "pass"},
              {"keychain", "blob", "pass", "options"}, {"keychain", "items"},
              {"keychain", "chain"},
              {"keychain", "chain", "entry"}, {"keychain", "chain", "entry", "leaf"},
              {"keychain", "chain", "entry", "certificates"},
              {"keychain", "chain", "entry", "nw_identity"},
              {"keychain", "chain", "entry", "nw_identity"},
              {"keychain", "chain", "entry", "nw_identity"} >>
      [] fn = "schannel pem" ->
           << {}, {"entry"}, {"entry"}, {"entry", "store"}, {"entry", "store", "der"},
              {"entry", "store", "wrapped"}, {"entry", "store", "wrapped", "key_provider"},
              {"entry", "store", "wrapped", "key_provider", "wide_password"},
              {"entry", "store", "key_provider", "key"},
              {"entry", "store", "key_provider", "key"},
              {"entry", "store", "key_provider", "key", "parsed"},
              {"entry", "store", "key_provider", "key", "certificate"},
              {"entry", "store", "key_provider", "key", "certificate", "credential"} >>
      [] fn = "schannel pkcs12" ->
           << {}, {"entry"}, {"entry"}, {"entry", "wide_password"}, {"entry", "store"},
              {"entry", "store", "pfx_key", "at"}, {"entry", "store", "pfx_key", "at", "info"},
              {"entry", "store", "pfx_key", "at", "key_provider", "key"},
              {"entry", "store", "pfx_key", "at", "key_provider", "key", "certificate"},
              {"entry", "store", "pfx_key", "at", "key_provider", "key", "certificate",
               "credential"} >>

IdentityInv ==
    /\ twice = FALSE
    /\ at \in [fn : Functions, pc : Nat]
    /\ at.pc \in 0..(Len(Program(at.fn)) + 2)
    /\ at.pc = 0 => acquired \subseteq LostOnFailure(at.fn)
    /\ at.pc = Len(Program(at.fn)) + 2 => acquired \subseteq LostAtEnd(at.fn)
    /\ at.pc \in 1..(Len(Program(at.fn)) + 1) => acquired = Held(at.fn)[at.pc]

\* A step that starts with h held: it acquires nothing twice, ends with g held,
\* and whatever part of it a failure leaves behind, no more than f is held then.
Balanced(h, st, g, f) ==
    /\ st.get \intersect h = {}
    /\ (h \cup st.get) \ st.drop = g
    /\ \A got \in SUBSET st.get :
         (st.get # {} => got # st.get) => (h \cup got) \ st.undo \subseteq f

\* A program of which every step is balanced, and what is held at its ends: what
\* the session owns, O, and what is lost, e.
BalancedSeq(P, H, O, f, e) ==
    /\ Len(P) \in Nat
    /\ H[1] = {} /\ O \subseteq H[Len(P) + 1] /\ H[Len(P) + 1] \ O \subseteq e
    /\ \A i \in 1..Len(P) : Balanced(H[i], P[i], H[i + 1], f)
BalancedProgram(fn) ==
    BalancedSeq(Program(fn), Held(fn), Owned(fn), LostOnFailure(fn), LostAtEnd(fn))

\* The form in which the programs below are shown balanced.
LEMMA BalancedIf ==
  ASSUME NEW P, NEW H, NEW O, NEW f, NEW e, NEW n \in Nat, NEW m, m = n + 1, Len(P) = n,
         H[1] = {}, O \subseteq H[m], H[m] \ O \subseteq e,
         \A i \in 1..n : Balanced(H[i], P[i], H[i + 1], f)
  PROVE  BalancedSeq(P, H, O, f, e)
BY DEF BalancedSeq

\* The nine functions, step by step.
LEMMA OsslNewBalanced == BalancedProgram("openssl new")
<1>1. ASSUME NEW i \in 1..6
      PROVE  Balanced(Held("openssl new")[i],
                      Program("openssl new")[i], Held("openssl new")[i + 1], LostOnFailure("openssl new"))
  <2> USE DEF Balanced, LostOnFailure, Step, Check, Program, Held, OsslNew
  <2>1. CASE i = 1  BY <2>1
  <2>2. CASE i = 2  BY <2>2
  <2>3. CASE i = 3  BY <2>3
  <2>4. CASE i = 4  BY <2>4
  <2>5. CASE i = 5  BY <2>5
  <2>6. CASE i = 6  BY <2>6
  <2> HIDE DEF Balanced, Program, Held, OsslNew
  <2>7. i = 1 \/ i = 2 \/ i = 3 \/ i = 4 \/ i = 5 \/ i = 6
    OBVIOUS
  <2> QED BY <2>1, <2>2, <2>3, <2>4, <2>5, <2>6, <2>7
<1>2. /\ Len(Program("openssl new")) = 6
      /\ Held("openssl new")[1] = {}
      /\ Owned("openssl new") \subseteq Held("openssl new")[7]
      /\ Held("openssl new")[7] \ Owned("openssl new") \subseteq LostAtEnd("openssl new")
  BY DEF Owned, LostAtEnd, Held, Program, Step, Check, OsslNew
<1>3. 6 \in Nat /\ 7 = 6 + 1
  OBVIOUS
<1> HIDE DEF Balanced
<1> QED BY <1>1, <1>2, <1>3, BalancedIf, Zenon DEF BalancedProgram

LEMMA StNewBalanced == BalancedProgram("securetransport new")
<1>1. ASSUME NEW i \in 1..5
      PROVE  Balanced(Held("securetransport new")[i],
                      Program("securetransport new")[i], Held("securetransport new")[i + 1], LostOnFailure("securetransport new"))
  <2> USE DEF Balanced, LostOnFailure, Step, Check, Program, Held, StNew
  <2>1. CASE i = 1  BY <2>1
  <2>2. CASE i = 2  BY <2>2
  <2>3. CASE i = 3  BY <2>3
  <2>4. CASE i = 4  BY <2>4
  <2>5. CASE i = 5  BY <2>5
  <2> HIDE DEF Balanced, Program, Held, StNew
  <2>6. i = 1 \/ i = 2 \/ i = 3 \/ i = 4 \/ i = 5
    OBVIOUS
  <2> QED BY <2>1, <2>2, <2>3, <2>4, <2>5, <2>6
<1>2. /\ Len(Program("securetransport new")) = 5
      /\ Held("securetransport new")[1] = {}
      /\ Owned("securetransport new") \subseteq Held("securetransport new")[6]
      /\ Held("securetransport new")[6] \ Owned("securetransport new") \subseteq LostAtEnd("securetransport new")
  BY DEF Owned, LostAtEnd, Held, Program, Step, Check, StNew
<1>3. 5 \in Nat /\ 6 = 5 + 1
  OBVIOUS
<1> HIDE DEF Balanced
<1> QED BY <1>1, <1>2, <1>3, BalancedIf, Zenon DEF BalancedProgram

LEMMA SchannelNewBalanced == BalancedProgram("schannel new")
<1>1. ASSUME NEW i \in 1..4
      PROVE  Balanced(Held("schannel new")[i],
                      Program("schannel new")[i], Held("schannel new")[i + 1], LostOnFailure("schannel new"))
  <2> USE DEF Balanced, LostOnFailure, Step, Check, Program, Held, SchannelNew
  <2>1. CASE i = 1  BY <2>1
  <2>2. CASE i = 2  BY <2>2
  <2>3. CASE i = 3  BY <2>3
  <2>4. CASE i = 4  BY <2>4
  <2> HIDE DEF Balanced, Program, Held, SchannelNew
  <2>5. i = 1 \/ i = 2 \/ i = 3 \/ i = 4
    OBVIOUS
  <2> QED BY <2>1, <2>2, <2>3, <2>4, <2>5
<1>2. /\ Len(Program("schannel new")) = 4
      /\ Held("schannel new")[1] = {}
      /\ Owned("schannel new") \subseteq Held("schannel new")[5]
      /\ Held("schannel new")[5] \ Owned("schannel new") \subseteq LostAtEnd("schannel new")
  BY DEF Owned, LostAtEnd, Held, Program, Step, Check, SchannelNew
<1>3. 4 \in Nat /\ 5 = 4 + 1
  OBVIOUS
<1> HIDE DEF Balanced
<1> QED BY <1>1, <1>2, <1>3, BalancedIf, Zenon DEF BalancedProgram

LEMMA OsslAddBalanced == BalancedProgram("openssl pem")
<1>1. ASSUME NEW i \in 1..6
      PROVE  Balanced(Held("openssl pem")[i],
                      Program("openssl pem")[i], Held("openssl pem")[i + 1], LostOnFailure("openssl pem"))
  <2> USE DEF Balanced, LostOnFailure, Step, Check, Program, Held, OsslAdd, OsslExit
  <2>1. CASE i = 1  BY <2>1
  <2>2. CASE i = 2  BY <2>2
  <2>3. CASE i = 3  BY <2>3
  <2>4. CASE i = 4  BY <2>4
  <2>5. CASE i = 5  BY <2>5
  <2>6. CASE i = 6  BY <2>6
  <2> HIDE DEF Balanced, Program, Held, OsslAdd
  <2>7. i = 1 \/ i = 2 \/ i = 3 \/ i = 4 \/ i = 5 \/ i = 6
    OBVIOUS
  <2> QED BY <2>1, <2>2, <2>3, <2>4, <2>5, <2>6, <2>7
<1>2. /\ Len(Program("openssl pem")) = 6
      /\ Held("openssl pem")[1] = {}
      /\ Owned("openssl pem") \subseteq Held("openssl pem")[7]
      /\ Held("openssl pem")[7] \ Owned("openssl pem") \subseteq LostAtEnd("openssl pem")
  BY DEF Owned, LostAtEnd, Held, Program, Step, Check, OsslAdd, OsslExit
<1>3. 6 \in Nat /\ 7 = 6 + 1
  OBVIOUS
<1> HIDE DEF Balanced
<1> QED BY <1>1, <1>2, <1>3, BalancedIf, Zenon DEF BalancedProgram

LEMMA OsslAddPkcs12Balanced == BalancedProgram("openssl pkcs12")
<1>1. ASSUME NEW i \in 1..6
      PROVE  Balanced(Held("openssl pkcs12")[i],
                      Program("openssl pkcs12")[i], Held("openssl pkcs12")[i + 1], LostOnFailure("openssl pkcs12"))
  <2> USE DEF Balanced, LostOnFailure, Step, Check, Program, Held, OsslAddPkcs12, OsslExit
  <2>1. CASE i = 1  BY <2>1
  <2>2. CASE i = 2  BY <2>2
  <2>3. CASE i = 3  BY <2>3
  <2>4. CASE i = 4  BY <2>4
  <2>5. CASE i = 5  BY <2>5
  <2>6. CASE i = 6  BY <2>6
  <2> HIDE DEF Balanced, Program, Held, OsslAddPkcs12
  <2>7. i = 1 \/ i = 2 \/ i = 3 \/ i = 4 \/ i = 5 \/ i = 6
    OBVIOUS
  <2> QED BY <2>1, <2>2, <2>3, <2>4, <2>5, <2>6, <2>7
<1>2. /\ Len(Program("openssl pkcs12")) = 6
      /\ Held("openssl pkcs12")[1] = {}
      /\ Owned("openssl pkcs12") \subseteq Held("openssl pkcs12")[7]
      /\ Held("openssl pkcs12")[7] \ Owned("openssl pkcs12") \subseteq LostAtEnd("openssl pkcs12")
  BY DEF Owned, LostAtEnd, Held, Program, Step, Check, OsslAddPkcs12, OsslExit
<1>3. 6 \in Nat /\ 7 = 6 + 1
  OBVIOUS
<1> HIDE DEF Balanced
<1> QED BY <1>1, <1>2, <1>3, BalancedIf, Zenon DEF BalancedProgram

LEMMA SchannelPemBalanced == BalancedProgram("schannel pem")
<1>1. ASSUME NEW i \in 1..12
      PROVE  Balanced(Held("schannel pem")[i],
                      Program("schannel pem")[i], Held("schannel pem")[i + 1], LostOnFailure("schannel pem"))
  <2> USE DEF Balanced, LostOnFailure, Step, Check, Program, Held, SchannelPem, SchannelExit
  <2>1. CASE i = 1  BY <2>1
  <2>2. CASE i = 2  BY <2>2
  <2>3. CASE i = 3  BY <2>3
  <2>4. CASE i = 4  BY <2>4
  <2>5. CASE i = 5  BY <2>5
  <2>6. CASE i = 6  BY <2>6
  <2>7. CASE i = 7  BY <2>7
  <2>8. CASE i = 8  BY <2>8
  <2>9. CASE i = 9  BY <2>9
  <2>10. CASE i = 10  BY <2>10
  <2>11. CASE i = 11  BY <2>11
  <2>12. CASE i = 12  BY <2>12
  <2> HIDE DEF Balanced, Program, Held, SchannelPem
  <2>13. i = 1 \/ i = 2 \/ i = 3 \/ i = 4 \/ i = 5 \/ i = 6 \/ i = 7 \/ i = 8 \/ i = 9
        \/ i = 10 \/ i = 11 \/ i = 12
    OBVIOUS
  <2> QED BY <2>1, <2>2, <2>3, <2>4, <2>5, <2>6, <2>7, <2>8, <2>9, <2>10, <2>11, <2>12, <2>13
<1>2. /\ Len(Program("schannel pem")) = 12
      /\ Held("schannel pem")[1] = {}
      /\ Owned("schannel pem") \subseteq Held("schannel pem")[13]
      /\ Held("schannel pem")[13] \ Owned("schannel pem") \subseteq LostAtEnd("schannel pem")
  BY DEF Owned, LostAtEnd, Held, Program, Step, Check, SchannelPem, SchannelExit
<1>3. 12 \in Nat /\ 13 = 12 + 1
  OBVIOUS
<1> HIDE DEF Balanced
<1> QED BY <1>1, <1>2, <1>3, BalancedIf, Zenon DEF BalancedProgram

LEMMA StPemBalanced == BalancedProgram("securetransport pem")
<1>1. ASSUME NEW i \in 1..12
      PROVE  Balanced(Held("securetransport pem")[i],
                      Program("securetransport pem")[i], Held("securetransport pem")[i + 1], LostOnFailure("securetransport pem"))
  <2> USE DEF Balanced, LostOnFailure, Step, Check, Program, Held, StPem, StEntry
  <2>1. CASE i = 1  BY <2>1
  <2>2. CASE i = 2  BY <2>2
  <2>3. CASE i = 3  BY <2>3
  <2>4. CASE i = 4  BY <2>4
  <2>5. CASE i = 5  BY <2>5
  <2>6. CASE i = 6  BY <2>6
  <2>7. CASE i = 7  BY <2>7
  <2>8. CASE i = 8  BY <2>8
  <2>9. CASE i = 9  BY <2>9
  <2>10. CASE i = 10  BY <2>10
  <2>11. CASE i = 11  BY <2>11
  <2>12. CASE i = 12  BY <2>12
  <2> HIDE DEF Balanced, Program, Held, StPem, StEntry
  <2>13. i = 1 \/ i = 2 \/ i = 3 \/ i = 4 \/ i = 5 \/ i = 6 \/ i = 7 \/ i = 8 \/ i = 9
        \/ i = 10 \/ i = 11 \/ i = 12
    OBVIOUS
  <2> QED BY <2>1, <2>2, <2>3, <2>4, <2>5, <2>6, <2>7, <2>8, <2>9, <2>10, <2>11, <2>12, <2>13
<1>2. /\ Len(Program("securetransport pem")) = 12
      /\ Held("securetransport pem")[1] = {}
      /\ Owned("securetransport pem") \subseteq Held("securetransport pem")[13]
      /\ Held("securetransport pem")[13] \ Owned("securetransport pem") \subseteq LostAtEnd("securetransport pem")
  BY DEF Owned, LostAtEnd, Held, Program, Step, Check, StPem, StEntry
<1>3. 12 \in Nat /\ 13 = 12 + 1
  OBVIOUS
<1> HIDE DEF Balanced
<1> QED BY <1>1, <1>2, <1>3, BalancedIf, Zenon DEF BalancedProgram

LEMMA StPkcs12Balanced == BalancedProgram("securetransport pkcs12")
<1>1. ASSUME NEW i \in 1..11
      PROVE  Balanced(Held("securetransport pkcs12")[i],
                      Program("securetransport pkcs12")[i], Held("securetransport pkcs12")[i + 1], LostOnFailure("securetransport pkcs12"))
  <2> USE DEF Balanced, LostOnFailure, Step, Check, Program, Held, StPkcs12, StEntry
  <2>1. CASE i = 1  BY <2>1
  <2>2. CASE i = 2  BY <2>2
  <2>3. CASE i = 3  BY <2>3
  <2>4. CASE i = 4  BY <2>4
  <2>5. CASE i = 5  BY <2>5
  <2>6. CASE i = 6  BY <2>6
  <2>7. CASE i = 7  BY <2>7
  <2>8. CASE i = 8  BY <2>8
  <2>9. CASE i = 9  BY <2>9
  <2>10. CASE i = 10  BY <2>10
  <2>11. CASE i = 11  BY <2>11
  <2> HIDE DEF Balanced, Program, Held, StPkcs12, StEntry
  <2>12. i = 1 \/ i = 2 \/ i = 3 \/ i = 4 \/ i = 5 \/ i = 6 \/ i = 7 \/ i = 8 \/ i = 9
        \/ i = 10 \/ i = 11
    OBVIOUS
  <2> QED BY <2>1, <2>2, <2>3, <2>4, <2>5, <2>6, <2>7, <2>8, <2>9, <2>10, <2>11, <2>12
<1>2. /\ Len(Program("securetransport pkcs12")) = 11
      /\ Held("securetransport pkcs12")[1] = {}
      /\ Owned("securetransport pkcs12") \subseteq Held("securetransport pkcs12")[12]
      /\ Held("securetransport pkcs12")[12] \ Owned("securetransport pkcs12") \subseteq LostAtEnd("securetransport pkcs12")
  BY DEF Owned, LostAtEnd, Held, Program, Step, Check, StPkcs12, StEntry
<1>3. 11 \in Nat /\ 12 = 11 + 1
  OBVIOUS
<1> HIDE DEF Balanced
<1> QED BY <1>1, <1>2, <1>3, BalancedIf, Zenon DEF BalancedProgram

LEMMA SchannelPkcs12Balanced == BalancedProgram("schannel pkcs12")
<1>1. ASSUME NEW i \in 1..9
      PROVE  Balanced(Held("schannel pkcs12")[i], Program("schannel pkcs12")[i],
                      Held("schannel pkcs12")[i + 1], LostOnFailure("schannel pkcs12"))
  <2> USE DEF Balanced, LostOnFailure, Step, Check, Program, Held, SchannelPkcs12, SchannelExit
  <2>1. CASE i = 1  BY <2>1
  <2>2. CASE i = 2  BY <2>2
  <2>3. CASE i = 3  BY <2>3
  <2>4. CASE i = 4  BY <2>4
  <2>5. CASE i = 5  BY <2>5
  <2>6. CASE i = 6  BY <2>6
  <2>7. CASE i = 7  BY <2>7
  <2>8. CASE i = 8  BY <2>8
  <2>9. CASE i = 9  BY <2>9
  <2> HIDE DEF Balanced, Program, Held, SchannelPkcs12
  <2>10. i = 1 \/ i = 2 \/ i = 3 \/ i = 4 \/ i = 5 \/ i = 6 \/ i = 7 \/ i = 8 \/ i = 9
    OBVIOUS
  <2> QED BY <2>1, <2>2, <2>3, <2>4, <2>5, <2>6, <2>7, <2>8, <2>9, <2>10
<1>2. /\ Len(Program("schannel pkcs12")) = 9
      /\ Held("schannel pkcs12")[1] = {}
      /\ Owned("schannel pkcs12") \subseteq Held("schannel pkcs12")[10]
      /\ Held("schannel pkcs12")[10] \ Owned("schannel pkcs12") \subseteq LostAtEnd("schannel pkcs12")
  BY DEF Owned, LostAtEnd, Held, Program, Step, Check, SchannelPkcs12, SchannelExit
<1>3. 9 \in Nat /\ 10 = 9 + 1
  OBVIOUS
<1> HIDE DEF Balanced
<1> QED BY <1>1, <1>2, <1>3, BalancedIf, Zenon DEF BalancedProgram

\* Every function is balanced.
LEMMA ProgramsBalanced == ASSUME NEW fn \in Functions PROVE BalancedProgram(fn)
BY OsslNewBalanced, StNewBalanced, SchannelNewBalanced, OsslAddBalanced,
   OsslAddPkcs12Balanced, StPemBalanced, StPkcs12Balanced, SchannelPemBalanced,
   SchannelPkcs12Balanced
   DEF Functions

\* Every step, failure and free keeps what is held on the list.
LEMMA IdentityStep == ASSUME IdentityInv, [IdentityNext]_identityVars PROVE IdentityInv'
<1> DEFINE fn == at.fn
           P == Program(fn)
           H == Held(fn)
<1>1. fn \in Functions /\ at.pc \in Nat /\ at = [fn |-> fn, pc |-> at.pc]
  BY DEF IdentityInv
<1>2. BalancedSeq(P, H, Owned(fn), LostOnFailure(fn), LostAtEnd(fn))
  BY <1>1, ProgramsBalanced DEF BalancedProgram
<1>3. CASE Succeed
  <2>1. at.pc \in 1..Len(P)
    BY <1>2, <1>3 DEF Succeed, BalancedSeq
  <2>2. at' = [fn |-> fn, pc |-> at.pc + 1]
    BY <1>1, <1>3 DEF Succeed
  <2>3. acquired = H[at.pc]
    BY <1>2, <2>1 DEF IdentityInv, BalancedSeq
  <2>4. Balanced(H[at.pc], P[at.pc], H[at.pc + 1], LostOnFailure(fn))
    BY <1>2, <2>1 DEF BalancedSeq
  <2>5. acquired' = H[at.pc + 1] /\ twice' = FALSE
    BY <1>3, <2>3, <2>4 DEF Succeed, Balanced, IdentityInv
  <2> QED BY <1>1, <1>2, <2>1, <2>2, <2>5 DEF IdentityInv, BalancedSeq
<1>4. CASE Fail
  <2>1. at.pc \in 1..Len(P)
    BY <1>2, <1>4 DEF Fail, BalancedSeq
  <2>2. at' = [fn |-> fn, pc |-> 0]
    BY <1>1, <1>4 DEF Fail
  <2>3. acquired = H[at.pc]
    BY <1>2, <2>1 DEF IdentityInv, BalancedSeq
  <2>4. Balanced(H[at.pc], P[at.pc], H[at.pc + 1], LostOnFailure(fn))
    BY <1>2, <2>1 DEF BalancedSeq
  <2>5. acquired' \subseteq LostOnFailure(fn) /\ twice' = FALSE
    BY <1>4, <2>3, <2>4 DEF Fail, Balanced, IdentityInv
  <2> QED BY <1>1, <1>2, <2>2, <2>5 DEF IdentityInv, BalancedSeq
<1>5. CASE Free
  <2>1. at' = [fn |-> fn, pc |-> Len(P) + 2] /\ at.pc = Len(P) + 1
    BY <1>1, <1>5 DEF Free
  <2>2. Owned(fn) \subseteq acquired /\ acquired \ Owned(fn) \subseteq LostAtEnd(fn)
    BY <1>2, <2>1 DEF IdentityInv, BalancedSeq
  <2>3. acquired' \subseteq LostAtEnd(fn) /\ twice' = FALSE
    BY <1>5, <2>2 DEF Free, IdentityInv
  <2> QED BY <1>1, <1>2, <2>1, <2>3 DEF IdentityInv, BalancedSeq
<1>6. CASE UNCHANGED identityVars
  BY <1>6 DEF identityVars, IdentityInv
<1> QED BY <1>3, <1>4, <1>5, <1>6 DEF IdentityNext

\* A function begins with nothing.
LEMMA InitIdentity == ASSUME IdentityInit PROVE IdentityInv
<1>1. /\ at.fn \in Functions /\ at = [fn |-> at.fn, pc |-> 1]
      /\ acquired = {} /\ twice = FALSE
  BY DEF IdentityInit
<1>2. BalancedSeq(Program(at.fn), Held(at.fn), Owned(at.fn), LostOnFailure(at.fn),
                 LostAtEnd(at.fn))
  BY <1>1, ProgramsBalanced DEF BalancedProgram
<1> QED BY <1>1, <1>2 DEF IdentityInv, BalancedSeq

\* beans_tls_client_new and beans_tls_add_identity, on all three backends:
\* whichever step fails and whatever part of it had been acquired, and after the
\* free of the session, everything has been given back, each object once, but for
\* the certificate context and the stored key SChannel's PKCS#12 loader loses.
THEOREM NothingLeaksCorrect == IdentitySpec => []NothingLeaks
<1>1. IdentityInit => IdentityInv
  BY InitIdentity
<1>2. IdentityInv /\ [IdentityNext]_identityVars => IdentityInv'
  BY IdentityStep
<1>3. IdentityInv => NothingLeaks
  BY DEF IdentityInv, NothingLeaks, FailureHoldsNothing, FreedHoldsNothing
<1> QED BY <1>1, <1>2, <1>3, PTL DEF IdentitySpec

\* What the TLS layer owns of the platform's objects is owned once, live while
\* it is used and given back: the connections of a listener and the objects of
\* sessions and identities, with the exceptions of the two theorems above.
THEOREM TlsObjectsKeptCorrect == ListenSpec /\ IdentitySpec => []TlsObjectsKept
<1>1. ConnectionsKept /\ NothingLeaks => TlsObjectsKept
  BY DEF TlsObjectsKept
<1> QED BY <1>1, ConnectionsKeptCorrect, NothingLeaksCorrect, PTL

-----------------------------------------------------------------------------
(* ChildProcess.                                                           *)

\* The limit of a run is a number of bytes.
LimitHolds == MaxOutput \in Nat

CallPoints == {"call", "cloexec", "fork", "parent", "opening", "threads", "poll", "feed", "join",
               "reap", "handle", "done"}
ProcStates == {"none", "born", "run", "failed", "exited", "killed", "reaped"}
Procs == {Caller} \union {Child(r) : r \in Runners} \union {Helper(r) : r \in Runners}
PipeEnds == [Runners -> [Streams -> SUBSET Procs]]
Bytes == [Runners -> [Streams -> Nat]]

ChildTypeOK ==
    /\ ppc \in [Runners -> CallPoints] /\ proc \in [Runners -> ProcStates]
    /\ helper \in [Runners -> {"none", "run", "killed"}]
    /\ out \in [Runners -> {"none", "error", "timeout", "output", "dropped"}]
    /\ wr \in PipeEnds /\ rd \in PipeEnds /\ ew \in [Runners -> SUBSET Procs]
    /\ held \in Bytes /\ sent \in Bytes /\ kept \in Bytes

\* There is a child from the fork on, and none once the call is done; the
\* answer is final.
ProcHeld(r) ==
    /\ ppc[r] \in {"call", "cloexec", "fork"} => proc[r] = "none"
    /\ ppc[r] = "done" => proc[r] \in {"none", "reaped"}
    /\ out[r] # "none" => ppc[r] = "done"
    /\ out[r] = "timeout" => helper[r] # "run" /\ proc[r] = "reaped"

\* The ends the program has open, by how far the call is.
EndsHeld(r) ==
    /\ ppc[r] \in {"call", "done"} => Caller \notin ew[r] /\ \A s \in Streams : Caller \notin wr[r][s] \union rd[r][s]
    /\ ppc[r] \in {"opening", "threads", "poll", "feed", "join", "reap", "handle"} =>
          Caller \notin ew[r] \union wr[r]["out"] \union wr[r]["err"] \union rd[r]["in"]
    /\ ppc[r] \in {"join", "reap"} => Caller \notin wr[r]["in"]
    /\ ppc[r] = "reap" => \A s \in Outputs : Caller \notin rd[r][s]
    /\ ppc[r] \in {"cloexec", "fork"} => \A s \in Outputs : Caller \in wr[r][s]
    /\ ppc[r] \in {"cloexec", "fork", "parent", "opening", "threads"} =>
          \A s \in Outputs : Caller \in rd[r][s]

\* What was taken from a pipe was kept up to the limit, whoever can still write
\* holds the end, and an end of file was one.
FlowHeld(r) ==
    \A s \in Outputs :
        /\ held[r][s] <= sent[r][s]
        /\ ppc[r] \notin {"handle", "done"} => kept[r][s] = Capped(sent[r][s] - held[r][s])
        /\ proc[r] \in {"born", "run"} => Child(r) \in wr[r][s]
        /\ ppc[r] \in {"poll", "feed", "join", "reap"} /\ Caller \notin rd[r][s] =>
              held[r][s] = 0 /\ wr[r][s] = {}
        /\ out[r] = "output" => kept[r][s] = Capped(sent[r][s])

RunInv(r) == ProcHeld(r) /\ EndsHeld(r) /\ FlowHeld(r)
ChildInv == ChildTypeOK /\ \A r \in Runners : RunInv(r)
\* The processes are told apart, and none is the program.
LEMMA ProcsDiffer ==
  ASSUME NEW u, NEW r
  PROVE  /\ Caller # Child(r) /\ Caller # Helper(r) /\ Child(u) # Helper(r)
         /\ Child(u) = Child(r) => u = r
BY DEF Caller, Child, Helper

LEMMA StreamFacts ==
  /\ "in" \in Streams /\ "out" \in Streams /\ "err" \in Streams
  /\ Outputs = {"out", "err"} /\ Outputs \subseteq Streams /\ "in" \notin Outputs
BY DEF Streams, Outputs

\* What the operators on the ends of the pipes do to one end.
LEMMA DropFacts ==
  ASSUME NEW f \in PipeEnds, NEW r \in Runners, NEW S \in SUBSET Streams
  PROVE  /\ Drop(f, r, S) \in PipeEnds
         /\ \A u \in Runners, s \in Streams :
               Drop(f, r, S)[u][s] = IF u = r /\ s \in S THEN f[u][s] \ {Caller} ELSE f[u][s]
<1> DEFINE g == [s \in Streams |-> IF s \in S THEN f[r][s] \ {Caller} ELSE f[r][s]]
<1>1. g \in [Streams -> SUBSET Procs]
  BY DEF PipeEnds
<1>2. Drop(f, r, S) = [f EXCEPT ![r] = g]
  BY DEF Drop
<1>3. \A s \in Streams : g[s] = IF s \in S THEN f[r][s] \ {Caller} ELSE f[r][s]
  OBVIOUS
<1> HIDE DEF g
<1> QED BY <1>1, <1>2, <1>3 DEF PipeEnds

LEMMA DropAt ==
  ASSUME NEW f \in PipeEnds, NEW r \in Runners, NEW S \in SUBSET Streams,
         NEW u \in Runners, NEW s \in Streams
  PROVE  Drop(f, r, S)[u][s] = IF u = r /\ s \in S THEN f[u][s] \ {Caller} ELSE f[u][s]
BY DEF Drop, PipeEnds

LEMMA GoneFacts ==
  ASSUME NEW f \in PipeEnds, NEW D \in SUBSET Procs
  PROVE  /\ Gone(f, D) \in PipeEnds
         /\ \A u \in Runners, s \in Streams : Gone(f, D)[u][s] = f[u][s] \ D
BY DEF Gone, PipeEnds

LEMMA InheritedFacts ==
  ASSUME NEW f \in PipeEnds, NEW r \in Runners, NEW keeps
  PROVE  /\ Inherited(f, r, keeps) \in PipeEnds
         /\ \A u \in Runners, s \in Streams :
               Inherited(f, r, keeps)[u][s] =
                  IF Caller \in f[u][s] /\ (u # r \/ s \in keeps) THEN f[u][s] \union {Child(r)}
                                                                  ELSE f[u][s]
<1>1. Child(r) \in Procs
  BY DEF Procs
<1> QED BY <1>1 DEF Inherited, PipeEnds

LEMMA KilledFacts ==
  ASSUME ChildTypeOK, NEW r \in Runners, KillAll(r)
  PROVE  /\ wr' \in PipeEnds /\ rd' \in PipeEnds /\ ew' \in [Runners -> SUBSET Procs]
         /\ \A u \in Runners, s \in Streams :
              /\ wr'[u][s] = (IF u = r THEN wr[u][s] \ {Caller} ELSE wr[u][s]) \ Victims(r)
              /\ rd'[u][s] = (IF u = r THEN rd[u][s] \ {Caller} ELSE rd[u][s]) \ Victims(r)
         /\ \A u \in Runners : ew'[u] = ew[u] \ Victims(r)
         /\ proc'[r] = "reaped" /\ proc' \in [Runners -> ProcStates]
         /\ helper' \in [Runners -> {"none", "run", "killed"}]
         /\ job[r].budget => helper'[r] # "run"
         /\ \A u \in Runners : u # r => proc'[u] = proc[u] /\ helper'[u] = helper[u]
         /\ Caller \notin Victims(r) /\ \A u \in Runners : u # r => Child(u) \notin Victims(r)
<1>0. Victims(r) \in SUBSET Procs /\ Streams \in SUBSET Streams
  BY DEF Victims, Group, Procs
<1>1. wr \in PipeEnds /\ rd \in PipeEnds /\ ew \in [Runners -> SUBSET Procs]
  BY DEF ChildTypeOK
<1>2. Drop(wr, r, Streams) \in PipeEnds /\ Drop(rd, r, Streams) \in PipeEnds
  BY <1>0, <1>1, DropFacts
<1>3. wr' = Gone(Drop(wr, r, Streams), Victims(r)) /\ rd' = Gone(Drop(rd, r, Streams), Victims(r))
  BY DEF KillAll
<1>4. wr' \in PipeEnds /\ rd' \in PipeEnds
  BY <1>0, <1>2, <1>3, GoneFacts
<1>5. ASSUME NEW u \in Runners, NEW s \in Streams
      PROVE  /\ wr'[u][s] = (IF u = r THEN wr[u][s] \ {Caller} ELSE wr[u][s]) \ Victims(r)
             /\ rd'[u][s] = (IF u = r THEN rd[u][s] \ {Caller} ELSE rd[u][s]) \ Victims(r)
  <2>1. /\ wr'[u][s] = Drop(wr, r, Streams)[u][s] \ Victims(r)
        /\ rd'[u][s] = Drop(rd, r, Streams)[u][s] \ Victims(r)
    BY <1>0, <1>2, <1>3, GoneFacts
  <2>2. /\ Drop(wr, r, Streams)[u][s] = IF u = r THEN wr[u][s] \ {Caller} ELSE wr[u][s]
        /\ Drop(rd, r, Streams)[u][s] = IF u = r THEN rd[u][s] \ {Caller} ELSE rd[u][s]
    <3>1. ASSUME NEW f \in PipeEnds
          PROVE  Drop(f, r, Streams)[u][s] = IF u = r THEN f[u][s] \ {Caller} ELSE f[u][s]
      <4>1. Drop(f, r, Streams)[u][s] = IF u = r /\ s \in Streams THEN f[u][s] \ {Caller} ELSE f[u][s]
        BY <1>0, DropAt
      <4> QED BY <4>1
    <3> QED BY <3>1, <1>1
  <2> QED BY <2>1, <2>2
<1>6. ew' \in [Runners -> SUBSET Procs] /\ \A u \in Runners : ew'[u] = ew[u] \ Victims(r)
  BY <1>1 DEF KillAll, GoneExec
<1>7. /\ proc'[r] = "reaped" /\ proc' \in [Runners -> ProcStates]
      /\ \A u \in Runners : u # r => proc'[u] = proc[u]
  BY DEF KillAll, ChildTypeOK, ProcStates
<1> DEFINE now == IF Helper(r) \in Victims(r) /\ helper[r] = "run" THEN "killed" ELSE helper[r]
<1>8. helper' = [helper EXCEPT ![r] = now]
  BY DEF KillAll
<1>9. now \in {"none", "run", "killed"} /\ (job[r].budget => now # "run")
  BY DEF ChildTypeOK, Victims, Group
<1> HIDE DEF now
<1>10. /\ helper' \in [Runners -> {"none", "run", "killed"}]
       /\ job[r].budget => helper'[r] # "run"
       /\ \A u \in Runners : u # r => helper'[u] = helper[u]
  BY <1>8, <1>9 DEF ChildTypeOK
<1>11. Caller \notin Victims(r) /\ \A u \in Runners : u # r => Child(u) \notin Victims(r)
  BY ProcsDiffer DEF Victims, Group
<1> QED BY <1>4, <1>5, <1>6, <1>7, <1>10, <1>11

\* A runner that does not act: others add and remove processes that are neither
\* the program nor its child, and an end that nobody holds stays so.
SameRun(r) ==
    /\ ppc'[r] = ppc[r] /\ proc'[r] = proc[r] /\ helper'[r] = helper[r] /\ out'[r] = out[r]
    /\ held'[r] = held[r] /\ sent'[r] = sent[r] /\ kept'[r] = kept[r]
SameEnds(r) ==
    /\ Caller \in ew'[r] <=> Caller \in ew[r]
    /\ \A s \in Streams : /\ Caller \in wr'[r][s] <=> Caller \in wr[r][s]
                          /\ Caller \in rd'[r][s] <=> Caller \in rd[r][s]
                          /\ Child(r) \in wr[r][s] => Child(r) \in wr'[r][s]
                          /\ wr[r][s] = {} => wr'[r][s] = {}

LEMMA RunKept ==
  ASSUME NEW r \in Runners, RunInv(r), SameRun(r), SameEnds(r)
  PROVE  RunInv(r)'
<1>1. ProcHeld(r)'
  BY DEF RunInv, SameRun, ProcHeld
<1>2. EndsHeld(r)'
  BY StreamFacts DEF RunInv, SameRun, SameEnds, EndsHeld
<1>3. FlowHeld(r)'
  BY StreamFacts DEF RunInv, SameRun, SameEnds, FlowHeld, Capped
<1> QED BY <1>1, <1>2, <1>3 DEF RunInv

\* The three ways in which others change the ends.
LEMMA KillSpares ==
  ASSUME ChildTypeOK, NEW u \in Runners, KillAll(u), NEW r \in Runners, r # u
  PROVE  SameEnds(r)
BY KilledFacts DEF SameEnds

LEMMA DeathSpares ==
  ASSUME ChildTypeOK, NEW u \in Runners, NEW r \in Runners, r # u,
         wr' = Gone(wr, {Child(u)}), rd' = Gone(rd, {Child(u)}), ew' = GoneExec({Child(u)})
  PROVE  SameEnds(r)
<1>1. ew'[r] = ew[r] \ {Child(u)}
  BY DEF GoneExec
<1>2. \A s \in Streams : wr'[r][s] = wr[r][s] \ {Child(u)} /\ rd'[r][s] = rd[r][s] \ {Child(u)}
  <2>1. {Child(u)} \in SUBSET Procs
    BY DEF Procs
  <2> QED BY <2>1, GoneFacts DEF ChildTypeOK
<1>3. Caller # Child(u) /\ Child(r) # Child(u)
  BY ProcsDiffer
<1> QED BY <1>1, <1>2, <1>3 DEF SameEnds

LEMMA DropSpares ==
  ASSUME ChildTypeOK, NEW u \in Runners, NEW r \in Runners, r # u,
         NEW S \in SUBSET Streams, NEW T \in SUBSET Streams,
         wr' = Drop(wr, u, S) \/ wr' = wr, rd' = Drop(rd, u, T) \/ rd' = rd, ew'[r] = ew[r]
  PROVE  SameEnds(r)
<1>1. ASSUME NEW f \in PipeEnds, NEW U \in SUBSET Streams, NEW s \in Streams
      PROVE  Drop(f, u, U)[r][s] = f[r][s]
  BY DEF Drop, PipeEnds
<1>2. wr \in PipeEnds /\ rd \in PipeEnds
  BY DEF ChildTypeOK
<1>3. \A s \in Streams : wr'[r][s] = wr[r][s] /\ rd'[r][s] = rd[r][s]
  BY <1>1, <1>2
<1> QED BY <1>3 DEF SameEnds

\* A step of one runner keeps the invariant when it keeps it for that runner.
LEMMA StepKeeps ==
  ASSUME ChildInv, ChildTypeOK', NEW u \in Runners, RunInv(u)',
         \A r \in Runners : r # u => SameRun(r) /\ SameEnds(r)
  PROVE  ChildInv'
<1>1. ASSUME NEW r \in Runners PROVE RunInv(r)'
  <2>1. CASE r = u
    BY <2>1
  <2>2. CASE r # u
    BY <2>2, RunKept DEF ChildInv
  <2> QED BY <2>1, <2>2
<1> QED BY <1>1 DEF ChildInv

LEMMA CappedNext ==
  ASSUME LimitHolds, NEW n \in Nat
  PROVE  /\ Capped(n) \in Nat
         /\ (IF Capped(n) < MaxOutput THEN Capped(n) + 1 ELSE Capped(n)) = Capped(n + 1)
BY DEF Capped, LimitHolds

\* The ends that stay as they are.
LEMMA QuietSpares ==
  ASSUME wr' = wr, rd' = rd, ew' = ew, NEW r
  PROVE  SameEnds(r)
BY DEF SameEnds

LEMMA ChildStarts == ASSUME LimitHolds, ChildInit PROVE ChildInv
<1>1. ChildTypeOK
  BY DEF ChildInit, ChildTypeOK, CallPoints, ProcStates, PipeEnds, Bytes, Each
<1>2. ASSUME NEW r \in Runners PROVE RunInv(r)
  BY StreamFacts DEF LimitHolds, ChildInit, RunInv, ProcHeld, EndsHeld, FlowHeld, Each, Capped
<1> QED BY <1>1, <1>2 DEF ChildInv

LEMMA MakePipesKeeps ==
  ASSUME LimitHolds, ChildInv, NEW u \in Runners, MakePipes(u) PROVE ChildInv'
<1>0. ChildTypeOK /\ RunInv(u)
  BY DEF ChildInv
<1>a. ppc[u] = "call" /\ proc' = proc /\ helper' = helper /\ held' = held /\ sent' = sent /\ kept' = kept
  BY DEF MakePipes, child, capture
<1>1. CASE Returns(u, "error") /\ UNCHANGED <<wr, rd, ew>>
  <2>1. ChildTypeOK'
    BY <1>0, <1>1, <1>a DEF Returns, ChildTypeOK, CallPoints
  <2>2. RunInv(u)'
    BY <1>0, <1>1, <1>a DEF ChildTypeOK, Returns, RunInv, ProcHeld, EndsHeld, FlowHeld
  <2>3. ASSUME NEW r \in Runners, r # u PROVE SameRun(r) /\ SameEnds(r)
    BY <1>0, <1>1, <1>a, <2>3, QuietSpares DEF SameRun, Returns, ChildTypeOK
  <2> QED BY <2>1, <2>2, <2>3, StepKeeps
<1>2. CASE /\ wr' = [wr EXCEPT ![u] = [s \in Streams |-> {Caller}]]
           /\ rd' = [rd EXCEPT ![u] = [s \in Streams |-> {Caller}]]
           /\ ew' = [ew EXCEPT ![u] = {Caller}]
           /\ GoesTo(u, "cloexec") /\ UNCHANGED out
  <2>1. ChildTypeOK'
    BY <1>0, <1>2, <1>a DEF GoesTo, ChildTypeOK, CallPoints, PipeEnds, Procs
  <2>2. \A s \in Streams : wr'[u][s] = {Caller} /\ rd'[u][s] = {Caller}
    BY <1>0, <1>2 DEF ChildTypeOK, PipeEnds
  <2>3. ppc'[u] = "cloexec"
    BY <1>0, <1>2 DEF ChildTypeOK, GoesTo
  <2>4. RunInv(u)'
    BY <1>0, <1>2, <1>a, <2>2, <2>3, StreamFacts DEF RunInv, ProcHeld, EndsHeld, FlowHeld, Capped
  <2>5. ASSUME NEW r \in Runners, r # u PROVE SameRun(r) /\ SameEnds(r)
    BY <1>0, <1>2, <1>a, <2>5 DEF SameRun, SameEnds, GoesTo, ChildTypeOK, PipeEnds
  <2> QED BY <2>1, <2>4, <2>5, StepKeeps
<1> QED BY <1>1, <1>2 DEF MakePipes

LEMMA SetCloexecKeeps ==
  ASSUME LimitHolds, ChildInv, NEW u \in Runners, SetCloexec(u) PROVE ChildInv'
<1>0. ChildTypeOK /\ RunInv(u)
  BY DEF ChildInv
<1>a. /\ ppc[u] = "cloexec" /\ proc' = proc /\ helper' = helper /\ held' = held /\ sent' = sent /\ kept' = kept
      /\ wr' = wr /\ rd' = rd /\ ew' = ew /\ out' = out /\ ppc' = [ppc EXCEPT ![u] = "fork"]
  BY DEF SetCloexec, child, capture, GoesTo
<1>1. ChildTypeOK'
  BY <1>0, <1>a DEF ChildTypeOK, CallPoints
<1>2. ppc'[u] = "fork"
  BY <1>0, <1>a DEF ChildTypeOK
<1>3. RunInv(u)'
  BY <1>0, <1>a, <1>2 DEF RunInv, ProcHeld, EndsHeld, FlowHeld, Capped
<1>4. ASSUME NEW r \in Runners, r # u PROVE SameRun(r) /\ SameEnds(r)
  BY <1>0, <1>a, <1>4, QuietSpares DEF SameRun, ChildTypeOK
<1> QED BY <1>1, <1>3, <1>4, StepKeeps

LEMMA ForkKeeps ==
  ASSUME LimitHolds, ChildInv, NEW u \in Runners, Fork(u) PROVE ChildInv'
<1>0. ChildTypeOK /\ RunInv(u)
  BY DEF ChildInv
<1>a. /\ ppc[u] = "fork" /\ helper' = helper /\ held' = held /\ sent' = sent /\ kept' = kept
  BY DEF Fork, capture
<1>1. CASE /\ wr' = Inherited(wr, u, Outputs) /\ rd' = Inherited(rd, u, {"in"})
           /\ ew' = [p \in Runners |-> IF Caller \in ew[p] THEN ew[p] \union {Child(u)} ELSE ew[p]]
           /\ proc' = [proc EXCEPT ![u] = "born"]
           /\ GoesTo(u, "parent") /\ UNCHANGED out
  <2>1. wr' \in PipeEnds /\ rd' \in PipeEnds
    BY <1>0, <1>1, InheritedFacts DEF ChildTypeOK
  <2>e. ASSUME NEW p \in Runners, NEW s \in Streams
        PROVE  /\ wr'[p][s] = IF Caller \in wr[p][s] /\ (p # u \/ s \in Outputs) THEN wr[p][s] \union {Child(u)} ELSE wr[p][s]
               /\ rd'[p][s] = IF Caller \in rd[p][s] /\ (p # u \/ s \in {"in"}) THEN rd[p][s] \union {Child(u)} ELSE rd[p][s]
    <3>1. wr \in PipeEnds /\ rd \in PipeEnds
      BY <1>0 DEF ChildTypeOK
    <3> QED BY <1>1, <3>1 DEF Inherited
  <2>2. ew' \in [Runners -> SUBSET Procs]
    BY <1>0, <1>1 DEF ChildTypeOK, Procs
  <2>3. ChildTypeOK'
    BY <1>0, <1>1, <1>a, <2>1, <2>2 DEF GoesTo, ChildTypeOK, CallPoints, ProcStates
  <2>4. ppc'[u] = "parent" /\ proc'[u] = "born" /\ out' = out
    BY <1>0, <1>1 DEF ChildTypeOK, GoesTo
  <2>5. \A s \in Outputs : Caller \in wr[u][s] /\ Caller \in rd[u][s]
    BY <1>0, <1>a DEF RunInv, EndsHeld
  <2>6. \A s \in Outputs : Child(u) \in wr'[u][s] /\ Caller \in rd'[u][s]
    <3>1. ASSUME NEW s \in Outputs PROVE Child(u) \in wr'[u][s] /\ Caller \in rd'[u][s]
      <4>1. s \in Streams /\ s \notin {"in"}
        BY <3>1, StreamFacts
      <4> QED BY <2>5, <2>e, <3>1, <4>1
    <3> QED BY <3>1
  <2>7. RunInv(u)'
    BY <1>0, <1>a, <2>4, <2>6, StreamFacts DEF RunInv, ProcHeld, EndsHeld, FlowHeld, Capped
  <2>8. ASSUME NEW r \in Runners, r # u PROVE SameRun(r) /\ SameEnds(r)
    <3>1. SameRun(r)
      BY <1>0, <1>1, <1>a, <2>8 DEF SameRun, GoesTo, ChildTypeOK
    <3>2. SameEnds(r)
      <4>1. Caller # Child(u)
        BY ProcsDiffer
      <4>2. Caller \in ew'[r] <=> Caller \in ew[r]
        BY <1>0, <1>1, <4>1 DEF ChildTypeOK
      <4>3. ASSUME NEW s \in Streams
            PROVE  /\ Caller \in wr'[r][s] <=> Caller \in wr[r][s]
                   /\ Caller \in rd'[r][s] <=> Caller \in rd[r][s]
                   /\ Child(r) \in wr[r][s] => Child(r) \in wr'[r][s]
                   /\ wr[r][s] = {} => wr'[r][s] = {}
        BY <2>e, <2>8, <4>1
      <4> QED BY <4>2, <4>3 DEF SameEnds
    <3> QED BY <3>1, <3>2
  <2> QED BY <2>3, <2>7, <2>8, StepKeeps
<1>2. CASE /\ Returns(u, "error")
           /\ wr' = Drop(wr, u, Streams) /\ rd' = Drop(rd, u, Streams)
           /\ ew' = [ew EXCEPT ![u] = @ \ {Caller}] /\ UNCHANGED proc
  <2>0. Streams \in SUBSET Streams
    OBVIOUS
  <2>1. /\ wr' \in PipeEnds /\ rd' \in PipeEnds
    BY <1>0, <1>2, <2>0, DropFacts DEF ChildTypeOK
  <2>2. \A s \in Streams : Caller \notin wr'[u][s] /\ Caller \notin rd'[u][s]
    BY <1>0, <1>2 DEF ChildTypeOK, Drop, PipeEnds
  <2>3. Caller \notin ew'[u] /\ ew' \in [Runners -> SUBSET Procs]
    BY <1>0, <1>2 DEF ChildTypeOK
  <2>4. ChildTypeOK'
    BY <1>0, <1>2, <1>a, <2>1, <2>3 DEF Returns, ChildTypeOK, CallPoints
  <2>5. ppc'[u] = "done" /\ out'[u] = "error" /\ proc'[u] = "none"
    BY <1>0, <1>2, <1>a DEF ChildTypeOK, Returns, RunInv, ProcHeld
  <2>6. RunInv(u)'
    BY <1>0, <1>a, <2>2, <2>3, <2>5 DEF RunInv, ProcHeld, EndsHeld, FlowHeld
  <2>7. ASSUME NEW r \in Runners, r # u PROVE SameRun(r) /\ SameEnds(r)
    <3>1. SameRun(r)
      BY <1>0, <1>2, <1>a, <2>7 DEF SameRun, Returns, ChildTypeOK
    <3>2. ew'[r] = ew[r]
      BY <1>0, <1>2, <2>7 DEF ChildTypeOK
    <3>3. SameEnds(r)
      BY <1>0, <1>2, <2>0, <2>7, <3>2, DropSpares
    <3> QED BY <3>1, <3>3
  <2> QED BY <2>4, <2>6, <2>7, StepKeeps
<1> QED BY <1>1, <1>2 DEF Fork

\* A call that kills what it started and returns.
LEMMA KillReturns ==
  ASSUME ChildInv, NEW u \in Runners, NEW what \in {"error", "timeout", "dropped"},
         what = "timeout" => job[u].budget, Caller \notin ew[u],
         KillAll(u), Returns(u, what), held' = held, sent' = sent, kept' = kept
  PROVE  ChildInv'
<1>0. ChildTypeOK /\ RunInv(u)
  BY DEF ChildInv
<1>1. ChildTypeOK'
  BY <1>0, KilledFacts DEF ChildTypeOK, Returns, CallPoints
<1>2. ppc'[u] = "done" /\ out'[u] = what /\ proc'[u] = "reaped"
  BY <1>0, KilledFacts DEF ChildTypeOK, Returns
<1>3. what = "timeout" => helper'[u] # "run"
  BY <1>0, KilledFacts
<1>4. \A s \in Streams : Caller \notin wr'[u][s] /\ Caller \notin rd'[u][s]
  BY <1>0, KilledFacts
<1>5. Caller \notin ew'[u]
  BY <1>0, KilledFacts
<1>6. RunInv(u)'
  BY <1>0, <1>2, <1>3, <1>4, <1>5 DEF RunInv, ProcHeld, EndsHeld, FlowHeld
<1>7. ASSUME NEW r \in Runners, r # u PROVE SameRun(r) /\ SameEnds(r)
  <2>1. SameEnds(r)
    BY <1>0, <1>7, KillSpares
  <2>2. proc'[r] = proc[r] /\ helper'[r] = helper[r]
    BY <1>0, <1>7, KilledFacts
  <2>3. SameRun(r)
    BY <1>0, <1>7, <2>2 DEF SameRun, Returns, ChildTypeOK
  <2> QED BY <2>1, <2>3
<1> QED BY <1>1, <1>6, <1>7, StepKeeps

\* A call that closes some of its ends and goes on.
LEMMA DropKeeps ==
  ASSUME ChildInv, NEW u \in Runners, NEW S \in SUBSET Streams, NEW T \in SUBSET Streams,
         wr' = Drop(wr, u, S) \/ wr' = wr, rd' = Drop(rd, u, T) \/ rd' = rd,
         NEW to \in CallPoints, ppc' = [ppc EXCEPT ![u] = to], ew' \in [Runners -> SUBSET Procs],
         held' \in Bytes, kept' \in Bytes,
         \A r \in Runners : r # u => ew'[r] = ew[r] /\ held'[r] = held[r] /\ kept'[r] = kept[r],
         proc' = proc, helper' = helper, out' = out, sent' = sent, RunInv(u)'
  PROVE  ChildInv'
<1>0. ChildTypeOK
  BY DEF ChildInv
<1>1. wr' \in PipeEnds /\ rd' \in PipeEnds
  BY <1>0, DropFacts DEF ChildTypeOK
<1>2. ChildTypeOK'
  BY <1>0, <1>1 DEF ChildTypeOK
<1>3. ASSUME NEW r \in Runners, r # u PROVE SameRun(r) /\ SameEnds(r)
  <2>1. SameRun(r)
    BY <1>0, <1>3 DEF SameRun, ChildTypeOK
  <2>2. SameEnds(r)
    BY <1>0, <1>3, DropSpares
  <2> QED BY <2>1, <2>2
<1> QED BY <1>2, <1>3, StepKeeps

LEMMA CloseChildEndsKeeps ==
  ASSUME LimitHolds, ChildInv, NEW u \in Runners, CloseChildEnds(u) PROVE ChildInv'
<1>0. ChildTypeOK /\ RunInv(u)
  BY DEF ChildInv
<1>a. /\ ppc[u] = "parent" /\ ppc' = [ppc EXCEPT ![u] = "opening"]
      /\ wr' = Drop(wr, u, Outputs) /\ rd' = Drop(rd, u, {"in"}) /\ ew' = [ew EXCEPT ![u] = @ \ {Caller}]
      /\ held' = held /\ proc' = proc /\ helper' = helper /\ sent' = sent /\ kept' = kept /\ out' = out
  BY DEF CloseChildEnds, GoesTo, child, capture
<1>1. \A s \in Streams : /\ wr'[u][s] = IF s \in Outputs THEN wr[u][s] \ {Caller} ELSE wr[u][s]
                         /\ rd'[u][s] = IF s \in {"in"} THEN rd[u][s] \ {Caller} ELSE rd[u][s]
  BY <1>0, <1>a DEF Drop, ChildTypeOK, PipeEnds
<1>2. ew' \in [Runners -> SUBSET Procs] /\ ew'[u] = ew[u] \ {Caller} /\ ppc'[u] = "opening"
  BY <1>0, <1>a DEF ChildTypeOK
<1>3. Child(u) # Caller
  BY ProcsDiffer
<1>4. RunInv(u)'
  <2>1. ProcHeld(u)'
    BY <1>0, <1>a, <1>2 DEF RunInv, ProcHeld
  <2>2. \A s \in Outputs : /\ wr'[u][s] = wr[u][s] \ {Caller} /\ rd'[u][s] = rd[u][s]
                           /\ Caller \in rd[u][s]
    <3>1. \A s \in Outputs : Caller \in rd[u][s]
      BY <1>0, <1>a DEF RunInv, EndsHeld
    <3> QED BY <1>1, <3>1, StreamFacts
  <2>3. Caller \notin rd'[u]["in"]
    BY <1>1, StreamFacts
  <2>4. EndsHeld(u)'
    BY <1>2, <2>2, <2>3, StreamFacts DEF EndsHeld
  <2>5. FlowHeld(u)'
    BY <1>0, <1>a, <1>2, <1>3, <2>2 DEF RunInv, FlowHeld, Capped
  <2> QED BY <2>1, <2>4, <2>5 DEF RunInv
<1>5. \A r \in Runners : r # u => ew'[r] = ew[r]
  BY <1>0, <1>a DEF ChildTypeOK
<1>6. Outputs \in SUBSET Streams /\ {"in"} \in SUBSET Streams /\ "opening" \in CallPoints
  BY StreamFacts DEF CallPoints
<1>7. held' \in Bytes /\ kept' \in Bytes
  BY <1>0, <1>a DEF ChildTypeOK
<1> QED BY <1>a, <1>2, <1>4, <1>5, <1>6, <1>7, DropKeeps

\* A child that ends, of itself or killed: it was not reaped before.
LEMMA DeathKeeps ==
  ASSUME LimitHolds, ChildInv, NEW u \in Runners, Alive(u), NEW how \in {"failed", "exited", "killed"},
         proc' = [proc EXCEPT ![u] = how],
         wr' = Gone(wr, {Child(u)}), rd' = Gone(rd, {Child(u)}), ew' = GoneExec({Child(u)}),
         ppc' = ppc, helper' = helper, held' = held, sent' = sent, kept' = kept, out' = out
  PROVE  ChildInv'
<1>0. ChildTypeOK /\ RunInv(u)
  BY DEF ChildInv
<1>1. {Child(u)} \in SUBSET Procs
  BY DEF Procs
<1>2. wr' \in PipeEnds /\ rd' \in PipeEnds
  BY <1>0, <1>1, GoneFacts DEF ChildTypeOK
<1>3. ew' \in [Runners -> SUBSET Procs] /\ ew'[u] = ew[u] \ {Child(u)}
  BY <1>0 DEF ChildTypeOK, GoneExec
<1>4. ChildTypeOK'
  BY <1>0, <1>2, <1>3 DEF ChildTypeOK, ProcStates
<1>5. \A s \in Streams : wr'[u][s] = wr[u][s] \ {Child(u)} /\ rd'[u][s] = rd[u][s] \ {Child(u)}
  BY <1>0, <1>1, GoneFacts DEF ChildTypeOK
<1>6. proc'[u] = how
  BY <1>0 DEF ChildTypeOK
<1>7. Child(u) # Caller
  BY ProcsDiffer
<1>8. RunInv(u)'
  <2>1. ProcHeld(u)'
    BY <1>0, <1>6 DEF RunInv, ProcHeld, Alive
  <2>2. EndsHeld(u)'
    <3>1. Caller \in ew'[u] <=> Caller \in ew[u]
      BY <1>3, <1>7
    <3>2. \A s \in Streams : /\ Caller \in wr'[u][s] <=> Caller \in wr[u][s]
                             /\ Caller \in rd'[u][s] <=> Caller \in rd[u][s]
      BY <1>5, <1>7
    <3> QED BY <1>0, <3>1, <3>2, StreamFacts DEF RunInv, EndsHeld
  <2>3. FlowHeld(u)'
    BY <1>0, <1>5, <1>6, <1>7, StreamFacts DEF RunInv, FlowHeld, Capped
  <2> QED BY <2>1, <2>2, <2>3 DEF RunInv
<1>9. ASSUME NEW r \in Runners, r # u PROVE SameRun(r) /\ SameEnds(r)
  BY <1>0, <1>9, DeathSpares DEF SameRun, ChildTypeOK
<1> QED BY <1>4, <1>8, <1>9, StepKeeps

LEMMA ExecKeeps ==
  ASSUME LimitHolds, ChildInv, NEW u \in Runners, Exec(u) PROVE ChildInv'
<1>0. ChildTypeOK /\ RunInv(u)
  BY DEF ChildInv
<1>a. /\ proc[u] = "born" /\ ppc' = ppc /\ helper' = helper /\ held' = held
      /\ sent' = sent /\ kept' = kept /\ out' = out
  BY DEF Exec, capture
<1>1. CASE ~job[u].ok
  <2>1. /\ proc' = [proc EXCEPT ![u] = "failed"]
        /\ wr' = Gone(wr, {Child(u)}) /\ rd' = Gone(rd, {Child(u)}) /\ ew' = GoneExec({Child(u)})
    BY <1>1 DEF Exec
  <2> QED BY <1>a, <2>1, DeathKeeps DEF Alive
<1>2. CASE job[u].ok
  <2>1. /\ proc' = [proc EXCEPT ![u] = "run"] /\ wr' = wr /\ rd' = rd
        /\ ew' = [r \in Runners |-> IF cloexec[r] THEN ew[r] \ {Child(u)} ELSE ew[r]]
    BY <1>2 DEF Exec
  <2>2. ew' \in [Runners -> SUBSET Procs] /\ \A r \in Runners : Caller \in ew'[r] <=> Caller \in ew[r]
    BY <1>0, <2>1, ProcsDiffer DEF ChildTypeOK
  <2>3. ChildTypeOK'
    BY <1>0, <1>a, <2>1, <2>2 DEF ChildTypeOK, ProcStates
  <2>4. proc'[u] = "run"
    BY <1>0, <2>1 DEF ChildTypeOK
  <2>5. RunInv(u)'
    BY <1>0, <1>a, <2>1, <2>2, <2>4 DEF RunInv, ProcHeld, EndsHeld, FlowHeld, Capped
  <2>6. ASSUME NEW r \in Runners, r # u PROVE SameRun(r) /\ SameEnds(r)
    BY <1>0, <1>a, <2>1, <2>2, <2>6 DEF SameRun, SameEnds, ChildTypeOK
  <2> QED BY <2>3, <2>5, <2>6, StepKeeps
<1> QED BY <1>1, <1>2

LEMMA ExecFailedKeeps ==
  ASSUME LimitHolds, ChildInv, NEW u \in Runners, ExecFailed(u) PROVE ChildInv'
<1> DEFINE what == IF proc[u] = "failed" THEN "error" ELSE "timeout"
<1>1. /\ KillAll(u) /\ Returns(u, what) /\ held' = held /\ sent' = sent /\ kept' = kept
      /\ ppc[u] = "opening" /\ (what = "timeout" => job[u].budget)
  BY DEF ExecFailed, capture
<1>2. Caller \notin ew[u]
  BY <1>1 DEF ChildInv, RunInv, EndsHeld
<1>3. what \in {"error", "timeout", "dropped"}
  OBVIOUS
<1> HIDE DEF what
<1> QED BY <1>1, <1>2, <1>3, KillReturns

LEMMA OpenedKeeps ==
  ASSUME LimitHolds, ChildInv, NEW u \in Runners, Opened(u) PROVE ChildInv'
<1>0. ChildTypeOK /\ RunInv(u)
  BY DEF ChildInv
<1> DEFINE to == IF job[u].call = "run" THEN "poll" ELSE "handle"
<1>a. /\ ppc[u] = "opening" /\ ppc' = [ppc EXCEPT ![u] = to] /\ rd' = rd /\ ew' = ew
      /\ wr' = Drop(wr, u, {"in"}) \/ wr' = wr
      /\ held' = held /\ proc' = proc /\ helper' = helper /\ sent' = sent /\ kept' = kept /\ out' = out
  BY DEF Opened, GoesTo, child, capture
<1>b. to \in {"poll", "handle"}
  OBVIOUS
<1> HIDE DEF to
<1>1. /\ wr'[u]["out"] = wr[u]["out"] /\ wr'[u]["err"] = wr[u]["err"]
  BY <1>0, <1>a, StreamFacts DEF Drop, ChildTypeOK, PipeEnds
<1>2. ppc'[u] = to
  BY <1>0, <1>a DEF ChildTypeOK
<1>4. RunInv(u)'
  BY <1>0, <1>a, <1>b, <1>1, <1>2, StreamFacts DEF RunInv, ProcHeld, EndsHeld, FlowHeld, Capped
<1>6. {"in"} \in SUBSET Streams /\ to \in CallPoints
  BY <1>b, StreamFacts DEF CallPoints
<1>7. held' \in Bytes /\ kept' \in Bytes /\ ew' \in [Runners -> SUBSET Procs]
  BY <1>0, <1>a DEF ChildTypeOK
<1> QED BY <1>a, <1>4, <1>6, <1>7, DropKeeps

\* What only touches standard input: a read of the child, a write of the
\* program, the close of its end.
LEMMA InputKeeps ==
  ASSUME ChildInv, NEW u \in Runners, NEW n \in Nat, wr' = Drop(wr, u, {"in"}) \/ wr' = wr,
         held' = [held EXCEPT ![u]["in"] = n] \/ held' = held,
         rd' = rd, ew' = ew, ppc' = ppc,
         proc' = proc, helper' = helper, out' = out, sent' = sent, kept' = kept
  PROVE  ChildInv'
<1>0. ChildTypeOK /\ RunInv(u)
  BY DEF ChildInv
<1>1. "in" \in Streams /\ {"in"} \in SUBSET Streams
  BY StreamFacts
<1>2. ASSUME NEW s \in Streams
      PROVE  wr'[u][s] = wr[u][s] \/ (s = "in" /\ wr'[u][s] = wr[u][s] \ {Caller})
  BY <1>0 DEF Drop, ChildTypeOK, PipeEnds
<1>3. /\ held' \in Bytes /\ \A s \in Streams : s # "in" => held'[u][s] = held[u][s]
      /\ \A r \in Runners : r # u => held'[r] = held[r]
  <2>1. held \in Bytes
    BY <1>0 DEF ChildTypeOK
  <2>2. CASE held' = held
    BY <2>1, <2>2
  <2>3. CASE held' = [held EXCEPT ![u]["in"] = n]
    BY <1>1, <2>1, <2>3 DEF Bytes
  <2> QED BY <2>2, <2>3
<1>4. RunInv(u)'
  <2>1. ProcHeld(u)'
    BY <1>0 DEF RunInv, ProcHeld
  <2>2. \A s \in Outputs : wr'[u][s] = wr[u][s] /\ held'[u][s] = held[u][s]
    BY <1>2, <1>3, StreamFacts
  <2>3. Caller \in wr'[u]["in"] => Caller \in wr[u]["in"]
    BY <1>1, <1>2
  <2>4. EndsHeld(u)'
    <3>1. wr'[u]["out"] = wr[u]["out"] /\ wr'[u]["err"] = wr[u]["err"]
      BY <2>2, StreamFacts
    <3>2. \A s \in Streams : Caller \in wr'[u][s] => Caller \in wr[u][s]
      BY <1>2
    <3> QED BY <1>0, <2>2, <2>3, <3>1, <3>2, StreamFacts DEF RunInv, EndsHeld
  <2>5. FlowHeld(u)'
    BY <1>0, <2>2 DEF RunInv, FlowHeld, Capped
  <2> QED BY <2>1, <2>4, <2>5 DEF RunInv
<1>5. ppc' = [ppc EXCEPT ![u] = ppc[u]] /\ ppc[u] \in CallPoints
  BY <1>0 DEF ChildTypeOK
<1>6. ew' \in [Runners -> SUBSET Procs] /\ kept' \in Bytes
  BY <1>0 DEF ChildTypeOK
<1> QED BY <1>1, <1>3, <1>4, <1>5, <1>6, DropKeeps

LEMMA ChildReadsKeeps ==
  ASSUME LimitHolds, ChildInv, NEW u \in Runners, ChildReads(u) PROVE ChildInv'
<1>1. /\ wr' = wr /\ rd' = rd /\ ew' = ew /\ ppc' = ppc
      /\ proc' = proc /\ helper' = helper /\ out' = out /\ sent' = sent /\ kept' = kept
  BY DEF ChildReads, capture
<1>2. CASE held[u]["in"] > 0 /\ held' = [held EXCEPT ![u]["in"] = @ - 1]
  <2>1. held[u]["in"] \in Nat
    BY StreamFacts DEF ChildInv, ChildTypeOK, Bytes
  <2>2. held[u]["in"] - 1 \in Nat
    BY <1>2, <2>1
  <2> QED BY <1>1, <1>2, <2>2, InputKeeps
<1>3. CASE held' = held
  <2>1. 0 \in Nat
    OBVIOUS
  <2> QED BY <1>1, <1>3, <2>1, InputKeeps
<1> QED BY <1>2, <1>3 DEF ChildReads

LEMMA PushKeeps ==
  ASSUME LimitHolds, ChildInv, NEW u \in Runners, Push(u) PROVE ChildInv'
<1>1. /\ wr' = Drop(wr, u, {"in"}) \/ wr' = wr
      /\ held' = [held EXCEPT ![u]["in"] = @ + 1] \/ held' = held
      /\ rd' = rd /\ ew' = ew /\ ppc' = ppc
      /\ proc' = proc /\ helper' = helper /\ out' = out /\ sent' = sent /\ kept' = kept
  BY DEF Push, child
<1>2. held[u]["in"] + 1 \in Nat
  BY StreamFacts DEF ChildInv, ChildTypeOK, Bytes
<1> QED BY <1>1, <1>2, InputKeeps

LEMMA HandleWritesKeeps ==
  ASSUME LimitHolds, ChildInv, NEW u \in Runners, HandleWrites(u) PROVE ChildInv'
<1>1. /\ wr' = wr /\ held' = [held EXCEPT ![u]["in"] = @ + 1]
      /\ rd' = rd /\ ew' = ew /\ ppc' = ppc
      /\ proc' = proc /\ helper' = helper /\ out' = out /\ sent' = sent /\ kept' = kept
  BY DEF HandleWrites, child
<1>2. held[u]["in"] + 1 \in Nat
  BY StreamFacts DEF ChildInv, ChildTypeOK, Bytes
<1> QED BY <1>1, <1>2, InputKeeps

LEMMA ChildWritesKeeps ==
  ASSUME LimitHolds, ChildInv, NEW u \in Runners, ChildWrites(u) PROVE ChildInv'
<1>0. ChildTypeOK /\ RunInv(u)
  BY DEF ChildInv
<1> DEFINE s == Op(u)
<1>1. /\ proc[u] = "run" /\ s \in Outputs
      /\ held' = [held EXCEPT ![u][s] = held[u][s] + 1] /\ sent' = [sent EXCEPT ![u][s] = sent[u][s] + 1]
      /\ ppc' = ppc /\ wr' = wr /\ rd' = rd /\ ew' = ew /\ proc' = proc /\ helper' = helper
      /\ kept' = kept /\ out' = out
  BY DEF ChildWrites, capture
<1> HIDE DEF s
<1>2. s \in Streams
  BY <1>1, StreamFacts
<1>3. /\ held[u][s] \in Nat /\ sent[u][s] \in Nat /\ held \in Bytes /\ sent \in Bytes
      /\ held[u][s] + 1 \in Nat /\ sent[u][s] + 1 \in Nat
  BY <1>0, <1>2 DEF ChildTypeOK, Bytes
<1>4. /\ held' \in Bytes /\ sent' \in Bytes
      /\ \A t \in Streams : /\ held'[u][t] = IF t = s THEN held[u][s] + 1 ELSE held[u][t]
                            /\ sent'[u][t] = IF t = s THEN sent[u][s] + 1 ELSE sent[u][t]
      /\ \A r \in Runners : r # u => held'[r] = held[r] /\ sent'[r] = sent[r]
  BY <1>1, <1>2, <1>3 DEF Bytes
<1>5. ChildTypeOK'
  BY <1>0, <1>1, <1>4 DEF ChildTypeOK
<1>6. RunInv(u)'
  <2>1. ProcHeld(u)' /\ EndsHeld(u)'
    BY <1>0, <1>1 DEF RunInv, ProcHeld, EndsHeld
  <2>2. ASSUME NEW t \in Outputs
        PROVE  /\ held'[u][t] <= sent'[u][t] /\ sent'[u][t] - held'[u][t] = sent[u][t] - held[u][t]
               /\ Child(u) \in wr[u][t] /\ out[u] # "output"
    <3>1. held[u][t] \in Nat /\ sent[u][t] \in Nat /\ t \in Streams
      BY <1>0, StreamFacts DEF ChildTypeOK, Bytes
    <3>2. held[u][t] <= sent[u][t] /\ Child(u) \in wr[u][t]
      BY <1>0, <1>1 DEF RunInv, FlowHeld
    <3>3. out[u] # "output"
      BY <1>0, <1>1 DEF RunInv, ProcHeld
    <3> QED BY <1>3, <1>4, <3>1, <3>2, <3>3
  <2>3. FlowHeld(u)'
    BY <1>0, <1>1, <2>2 DEF RunInv, FlowHeld, Capped
  <2> QED BY <2>1, <2>3 DEF RunInv
<1>7. ASSUME NEW r \in Runners, r # u PROVE SameRun(r) /\ SameEnds(r)
  BY <1>0, <1>1, <1>4, <1>7, QuietSpares DEF SameRun
<1> QED BY <1>5, <1>6, <1>7, StepKeeps

LEMMA ChildForksKeeps ==
  ASSUME LimitHolds, ChildInv, NEW u \in Runners, ChildForks(u) PROVE ChildInv'
<1>0. ChildTypeOK /\ RunInv(u)
  BY DEF ChildInv
<1>1. /\ proc[u] = "run" /\ helper' = [helper EXCEPT ![u] = "run"]
      /\ ppc' = ppc /\ ew' = ew /\ proc' = proc /\ held' = held /\ sent' = sent /\ kept' = kept /\ out' = out
  BY DEF ChildForks, capture
<1>2. ASSUME NEW r \in Runners, NEW s \in Streams
      PROVE  /\ wr'[r][s] = IF Child(u) \in wr[r][s] THEN wr[r][s] \union {Helper(u)} ELSE wr[r][s]
             /\ rd'[r][s] = IF Child(u) \in rd[r][s] THEN rd[r][s] \union {Helper(u)} ELSE rd[r][s]
  BY DEF ChildForks
<1>3. wr' \in PipeEnds /\ rd' \in PipeEnds
  <2>1. Helper(u) \in Procs
    BY DEF Procs
  <2> QED BY <1>0, <2>1 DEF ChildForks, ChildTypeOK, PipeEnds
<1>4. ChildTypeOK'
  BY <1>0, <1>1, <1>3 DEF ChildTypeOK
<1>5. Caller # Helper(u)
  BY ProcsDiffer
<1>6. ASSUME NEW r \in Runners PROVE SameEnds(r)
  BY <1>1, <1>2, <1>5 DEF SameEnds
<1>7. RunInv(u)'
  <2>1. ProcHeld(u)'
    BY <1>0, <1>1 DEF RunInv, ProcHeld
  <2>2. EndsHeld(u)'
    BY <1>0, <1>1, <1>6, StreamFacts DEF RunInv, SameEnds, EndsHeld
  <2>3. FlowHeld(u)'
    BY <1>0, <1>1, <1>6, StreamFacts DEF RunInv, SameEnds, FlowHeld, Capped
  <2> QED BY <2>1, <2>2, <2>3 DEF RunInv
<1>8. ASSUME NEW r \in Runners, r # u PROVE SameRun(r) /\ SameEnds(r)
  BY <1>0, <1>1, <1>6, <1>8 DEF SameRun, ChildTypeOK
<1> QED BY <1>4, <1>7, <1>8, StepKeeps

LEMMA ChildExitsKeeps ==
  ASSUME LimitHolds, ChildInv, NEW u \in Runners, ChildExits(u) PROVE ChildInv'
<1>1. /\ proc[u] = "run" /\ proc' = [proc EXCEPT ![u] = "exited"]
      /\ wr' = Gone(wr, {Child(u)}) /\ rd' = Gone(rd, {Child(u)}) /\ ew' = GoneExec({Child(u)})
      /\ ppc' = ppc /\ helper' = helper /\ held' = held /\ sent' = sent /\ kept' = kept /\ out' = out
  BY DEF ChildExits, capture
<1> QED BY <1>1, DeathKeeps DEF Alive

LEMMA SignalKeeps ==
  ASSUME LimitHolds, ChildInv, NEW u \in Runners, Signal(u) PROVE ChildInv'
<1>1. /\ Alive(u) /\ proc' = [proc EXCEPT ![u] = "killed"]
      /\ wr' = Gone(wr, {Child(u)}) /\ rd' = Gone(rd, {Child(u)}) /\ ew' = GoneExec({Child(u)})
      /\ ppc' = ppc /\ helper' = helper /\ held' = held /\ sent' = sent /\ kept' = kept /\ out' = out
  BY DEF Signal, capture
<1> QED BY <1>1, DeathKeeps

LEMMA DrainPipeKeeps ==
  ASSUME LimitHolds, ChildInv, NEW u \in Runners, NEW s \in Outputs, DrainPipe(u, s) PROVE ChildInv'
<1>0. ChildTypeOK /\ RunInv(u)
  BY DEF ChildInv
<1>a. /\ ppc[u] \in {"poll", "feed", "join"} /\ Caller \in rd[u][s] /\ s \in Streams
      /\ ppc' = ppc /\ wr' = wr /\ ew' = ew /\ proc' = proc /\ helper' = helper /\ sent' = sent /\ out' = out
  BY StreamFacts DEF DrainPipe, Drains, child
<1>b. ppc' = [ppc EXCEPT ![u] = ppc[u]] /\ ppc[u] \in CallPoints /\ ew' \in [Runners -> SUBSET Procs]
  BY <1>0, <1>a DEF ChildTypeOK
<1>c. {s} \in SUBSET Streams
  BY <1>a
<1>1. CASE /\ held[u][s] > 0 /\ held' = [held EXCEPT ![u][s] = @ - 1]
           /\ kept' = [kept EXCEPT ![u][s] = IF @ < MaxOutput THEN @ + 1 ELSE @] /\ rd' = rd
  <2> DEFINE more == IF kept[u][s] < MaxOutput THEN kept[u][s] + 1 ELSE kept[u][s]
             left == held[u][s] - 1
  <2>1. /\ held \in Bytes /\ kept \in Bytes /\ sent \in Bytes
        /\ held[u][s] \in Nat /\ kept[u][s] \in Nat /\ sent[u][s] \in Nat
    BY <1>0, <1>a DEF ChildTypeOK, Bytes
  <2>2. left \in Nat /\ more \in Nat /\ held[u][s] = left + 1
    BY <1>1, <2>1
  <2>3. held[u][s] <= sent[u][s] /\ kept[u][s] = Capped(sent[u][s] - held[u][s])
    BY <1>0, <1>a DEF RunInv, FlowHeld
  <2>4. more = Capped(sent[u][s] - left) /\ left <= sent[u][s]
    <3> DEFINE n == sent[u][s] - held[u][s]
    <3>1. n \in Nat /\ sent[u][s] - left = n + 1
      BY <2>1, <2>3
    <3>2. kept[u][s] = Capped(n)
      BY <2>3
    <3> HIDE DEF n
    <3>3. more = Capped(n + 1)
      BY <3>1, <3>2, CappedNext
    <3> QED BY <2>1, <2>2, <2>3, <3>1, <3>3
  <2>5. held' = [held EXCEPT ![u][s] = left] /\ kept' = [kept EXCEPT ![u][s] = more]
    BY <1>1
  <2> HIDE DEF more, left
  <2>6. /\ held' \in Bytes /\ kept' \in Bytes
        /\ \A t \in Streams : /\ held'[u][t] = IF t = s THEN left ELSE held[u][t]
                              /\ kept'[u][t] = IF t = s THEN more ELSE kept[u][t]
        /\ \A r \in Runners : r # u => held'[r] = held[r] /\ kept'[r] = kept[r]
    BY <1>a, <2>1, <2>2, <2>5 DEF Bytes
  <2>7. RunInv(u)'
    <3>1. ProcHeld(u)' /\ EndsHeld(u)'
      BY <1>0, <1>1, <1>a DEF RunInv, ProcHeld, EndsHeld
    <3>2. out'[u] # "output"
      BY <1>0, <1>a DEF RunInv, ProcHeld
    <3>3. ASSUME NEW t \in Outputs, t = s
          PROVE  /\ held'[u][t] <= sent'[u][t] /\ kept'[u][t] = Capped(sent'[u][t] - held'[u][t])
                 /\ Caller \in rd'[u][t]
      BY <1>1, <1>a, <2>4, <2>6, <3>3
    <3>4. ASSUME NEW t \in Outputs, t # s
          PROVE  held'[u][t] = held[u][t] /\ kept'[u][t] = kept[u][t]
      BY <2>6, <3>4, StreamFacts
    <3>5. FlowHeld(u)'
      BY <1>0, <1>1, <1>a, <3>2, <3>3, <3>4 DEF RunInv, FlowHeld, Capped
    <3> QED BY <3>1, <3>5 DEF RunInv
  <2> QED BY <1>1, <1>a, <1>b, <1>c, <2>6, <2>7, DropKeeps
<1>2. CASE held[u][s] = 0 /\ wr[u][s] = {} /\ rd' = Drop(rd, u, {s}) /\ held' = held /\ kept' = kept
  <2>1. \A t \in Streams : rd'[u][t] = IF t \in {s} THEN rd[u][t] \ {Caller} ELSE rd[u][t]
    BY <1>0, <1>2 DEF Drop, ChildTypeOK, PipeEnds
  <2>2. RunInv(u)'
    <3>1. ProcHeld(u)'
      BY <1>0, <1>2, <1>a DEF RunInv, ProcHeld
    <3>2. rd'[u]["in"] = rd[u]["in"] /\ \A t \in Outputs : Caller \in rd'[u][t] => Caller \in rd[u][t]
      BY <2>1, StreamFacts
    <3>3. EndsHeld(u)'
      BY <1>0, <1>a, <3>2, StreamFacts DEF RunInv, EndsHeld
    <3>4. ASSUME NEW t \in Outputs, Caller \notin rd'[u][t]
          PROVE  held[u][t] = 0 /\ wr[u][t] = {}
      <4>1. CASE t = s
        BY <1>2, <4>1
      <4>2. CASE t # s
        <5>1. Caller \notin rd[u][t]
          BY <2>1, <3>4, <4>2, StreamFacts
        <5> QED BY <1>0, <1>a, <5>1 DEF RunInv, FlowHeld
      <4> QED BY <4>1, <4>2
    <3>5. FlowHeld(u)'
      BY <1>0, <1>2, <1>a, <3>4 DEF RunInv, FlowHeld, Capped
    <3> QED BY <3>1, <3>3, <3>5 DEF RunInv
  <2>3. held' \in Bytes /\ kept' \in Bytes
    BY <1>0, <1>2 DEF ChildTypeOK
  <2> QED BY <1>2, <1>a, <1>b, <1>c, <2>2, <2>3, DropKeeps
<1> QED BY <1>1, <1>2 DEF DrainPipe

LEMMA LoopEndsKeeps ==
  ASSUME LimitHolds, ChildInv, NEW u \in Runners, LoopEnds(u) PROVE ChildInv'
<1>0. ChildTypeOK /\ RunInv(u)
  BY DEF ChildInv
<1>a. /\ wr' = wr /\ rd' = rd /\ ew' = ew /\ held' = held /\ proc' = proc /\ helper' = helper
      /\ sent' = sent /\ kept' = kept /\ out' = out
  BY DEF LoopEnds, pipes, child, capture
<1>1. PICK to \in {"reap", "join"} :
         /\ ppc' = [ppc EXCEPT ![u] = to] /\ ppc[u] \in {"poll", "feed", "join"}
         /\ Caller \notin wr[u]["in"] \/ ppc[u] = "join"
         /\ to = "reap" => Drained(u)
  BY DEF LoopEnds, GoesTo
<1>2. ppc'[u] = to
  BY <1>0, <1>1 DEF ChildTypeOK
<1>3. Caller \notin wr[u]["in"]
  BY <1>0, <1>1 DEF RunInv, EndsHeld
<1>4. RunInv(u)'
  BY <1>0, <1>a, <1>1, <1>2, <1>3 DEF RunInv, ProcHeld, EndsHeld, FlowHeld, Capped, Drained
<1>5. held' \in Bytes /\ kept' \in Bytes /\ ew' \in [Runners -> SUBSET Procs] /\ to \in CallPoints
  BY <1>0, <1>a, <1>1 DEF ChildTypeOK, CallPoints
<1>6. Streams \in SUBSET Streams
  OBVIOUS
<1> QED BY <1>a, <1>1, <1>4, <1>5, <1>6, DropKeeps

\* A child that is found dead and reaped, by the call or on a handle.
LEMMA ReapKeeps ==
  ASSUME LimitHolds, ChildInv, NEW u \in Runners, Reap(u) PROVE ChildInv'
<1>0. ChildTypeOK /\ RunInv(u)
  BY DEF ChildInv
<1>a. /\ ppc[u] = "reap" /\ proc' = [proc EXCEPT ![u] = "reaped"]
      /\ ppc' = [ppc EXCEPT ![u] = "done"] /\ out' = [out EXCEPT ![u] = "output"]
      /\ wr' = wr /\ rd' = rd /\ ew' = ew /\ held' = held /\ helper' = helper /\ sent' = sent /\ kept' = kept
  BY DEF Reap, Returns, pipes, capture
<1>1. ChildTypeOK'
  BY <1>0, <1>a DEF ChildTypeOK, CallPoints, ProcStates
<1>2. ppc'[u] = "done" /\ proc'[u] = "reaped" /\ out'[u] = "output"
  BY <1>0, <1>a DEF ChildTypeOK
<1>3. \A s \in Outputs : Caller \notin wr[u][s] /\ Caller \notin rd[u][s]
  BY <1>0, <1>a DEF RunInv, EndsHeld, Outputs
<1>4. Caller \notin wr[u]["in"] /\ Caller \notin rd[u]["in"] /\ Caller \notin ew[u]
  BY <1>0, <1>a DEF RunInv, EndsHeld
<1>5. \A s \in Outputs : held[u][s] = 0
  BY <1>0, <1>3, <1>a DEF RunInv, FlowHeld
<1>6. RunInv(u)'
  <2>1. ProcHeld(u)'
    BY <1>2 DEF ProcHeld
  <2>2. EndsHeld(u)'
    BY <1>2, <1>3, <1>4, <1>a, StreamFacts DEF EndsHeld, Streams, Outputs
  <2>3. \A s \in Outputs : sent[u][s] - held[u][s] = sent[u][s]
    BY <1>0, <1>5, StreamFacts DEF ChildTypeOK, Bytes
  <2>4. \A s \in Outputs : kept[u][s] = Capped(sent[u][s]) /\ held[u][s] <= sent[u][s]
    BY <1>0, <1>a, <2>3 DEF RunInv, FlowHeld
  <2>5. FlowHeld(u)'
    BY <1>2, <1>a, <2>4 DEF FlowHeld, Capped
  <2> QED BY <2>1, <2>2, <2>5 DEF RunInv
<1>7. ASSUME NEW r \in Runners, r # u PROVE SameRun(r) /\ SameEnds(r)
  BY <1>0, <1>a, <1>7, QuietSpares DEF SameRun, ChildTypeOK
<1> QED BY <1>1, <1>6, <1>7, StepKeeps

LEMMA WaitedKeeps ==
  ASSUME LimitHolds, ChildInv, NEW u \in Runners, Waited(u) PROVE ChildInv'
<1>0. ChildTypeOK /\ RunInv(u)
  BY DEF ChildInv
<1>a. /\ ppc[u] = "handle" /\ proc' = [proc EXCEPT ![u] = "reaped"] /\ ppc' = ppc /\ out' = out
      /\ wr' = wr /\ rd' = rd /\ ew' = ew /\ held' = held /\ helper' = helper /\ sent' = sent /\ kept' = kept
  BY DEF Waited, pipes, capture
<1>1. ChildTypeOK'
  BY <1>0, <1>a DEF ChildTypeOK, ProcStates
<1>2. proc'[u] = "reaped"
  BY <1>0, <1>a DEF ChildTypeOK
<1>3. RunInv(u)'
  BY <1>0, <1>2, <1>a DEF RunInv, ProcHeld, EndsHeld, FlowHeld, Capped
<1>4. ASSUME NEW r \in Runners, r # u PROVE SameRun(r) /\ SameEnds(r)
  BY <1>0, <1>a, <1>4, QuietSpares DEF SameRun, ChildTypeOK
<1> QED BY <1>1, <1>3, <1>4, StepKeeps

\* The calls that stop what they started.
LEMMA StoppingKeeps ==
  ASSUME LimitHolds, ChildInv, NEW u \in Runners,
         TimedOut(u) \/ (WinThreads(u) /\ Returns(u, "error")) \/ (DropHandle(u) /\ DropReaps(u))
  PROVE  ChildInv'
<1>1. CASE TimedOut(u)
  <2>1. /\ KillAll(u) /\ Returns(u, "timeout") /\ held' = held /\ sent' = sent /\ kept' = kept
        /\ ppc[u] \in {"poll", "feed", "join", "reap"} /\ job[u].budget
    BY <1>1 DEF TimedOut, capture
  <2>2. Caller \notin ew[u]
    BY <2>1 DEF ChildInv, RunInv, EndsHeld
  <2> QED BY <2>1, <2>2, KillReturns
<1>2. CASE WinThreads(u) /\ Returns(u, "error")
  <2>1. KillAll(u) /\ held' = held /\ sent' = sent /\ kept' = kept /\ ppc[u] = "threads"
    <3>1. ppc'[u] = "done"
      BY <1>2 DEF Returns, ChildInv, ChildTypeOK
    <3>2. ~GoesTo(u, "feed")
      BY <3>1 DEF GoesTo, ChildInv, ChildTypeOK
    <3> QED BY <1>2, <3>2 DEF WinThreads, capture
  <2>2. Caller \notin ew[u]
    BY <2>1 DEF ChildInv, RunInv, EndsHeld
  <2> QED BY <1>2, <2>1, <2>2, KillReturns
<1>3. CASE DropHandle(u) /\ DropReaps(u)
  <2>1. KillAll(u) /\ Returns(u, "dropped") /\ held' = held /\ sent' = sent /\ kept' = kept /\ ppc[u] = "handle"
    BY <1>3 DEF DropHandle, capture
  <2>2. Caller \notin ew[u]
    BY <2>1 DEF ChildInv, RunInv, EndsHeld
  <2> QED BY <2>1, <2>2, KillReturns
<1> QED BY <1>1, <1>2, <1>3

LEMMA WinThreadsKeeps ==
  ASSUME LimitHolds, ChildInv, NEW u \in Runners, WinThreads(u) PROVE ChildInv'
<1>0. ChildTypeOK /\ RunInv(u)
  BY DEF ChildInv
<1>1. CASE Returns(u, "error")
  BY <1>1, StoppingKeeps
<1>2. CASE GoesTo(u, "feed")
  <2>b. ppc'[u] = "feed"
    BY <1>0, <1>2 DEF ChildTypeOK, GoesTo
  <2>c. ~Returns(u, "error")
    BY <1>0, <2>b DEF Returns, ChildTypeOK
  <2>a. /\ ppc[u] = "threads" /\ ppc' = [ppc EXCEPT ![u] = "feed"]
        /\ wr' = Drop(wr, u, {"in"}) \/ wr' = wr
        /\ held' = held /\ sent' = sent /\ kept' = kept
        /\ rd' = rd /\ ew' = ew /\ proc' = proc /\ helper' = helper /\ out' = out
    BY <2>c DEF WinThreads, GoesTo, capture
  <2>1. wr'[u]["out"] = wr[u]["out"] /\ wr'[u]["err"] = wr[u]["err"]
    BY <1>0, <2>a, StreamFacts DEF Drop, ChildTypeOK, PipeEnds
  <2>2. RunInv(u)'
    BY <1>0, <2>a, <2>b, <2>1, StreamFacts DEF RunInv, ProcHeld, EndsHeld, FlowHeld, Capped
  <2>3. held' \in Bytes /\ kept' \in Bytes /\ ew' \in [Runners -> SUBSET Procs]
    BY <1>0, <2>a DEF ChildTypeOK
  <2>4. {"in"} \in SUBSET Streams /\ "feed" \in CallPoints
    BY StreamFacts DEF CallPoints
  <2> QED BY <2>a, <2>2, <2>3, <2>4, DropKeeps
<1> QED BY <1>1, <1>2 DEF WinThreads

LEMMA DropHandleKeeps ==
  ASSUME LimitHolds, ChildInv, NEW u \in Runners, DropHandle(u) PROVE ChildInv'
<1>0. ChildTypeOK /\ RunInv(u)
  BY DEF ChildInv
<1>1. CASE DropReaps(u)
  BY <1>1, StoppingKeeps
<1>2. CASE ~DropReaps(u)
  <2>a. /\ ppc[u] = "handle" /\ proc[u] = "none" /\ ppc' = [ppc EXCEPT ![u] = "done"]
        /\ out' = [out EXCEPT ![u] = "dropped"]
        /\ wr' = Drop(wr, u, Streams) /\ rd' = Drop(rd, u, Streams) /\ ew' = ew
        /\ held' = held /\ sent' = sent /\ kept' = kept /\ proc' = proc /\ helper' = helper
    BY <1>2 DEF DropHandle, DropReaps, Returns, capture
  <2>1. ppc'[u] = "done" /\ out'[u] = "dropped"
    BY <1>0, <2>a DEF ChildTypeOK
  <2>2. \A s \in Streams : Caller \notin wr'[u][s] /\ Caller \notin rd'[u][s]
    BY <1>0, <2>a DEF Drop, ChildTypeOK, PipeEnds
  <2>3. RunInv(u)'
    BY <1>0, <2>a, <2>1, <2>2 DEF RunInv, ProcHeld, EndsHeld, FlowHeld
  <2>4. Streams \in SUBSET Streams
    OBVIOUS
  <2>5. wr' \in PipeEnds /\ rd' \in PipeEnds
    BY <1>0, <2>a, <2>4, DropFacts DEF ChildTypeOK
  <2>6. ChildTypeOK'
    BY <1>0, <2>a, <2>5 DEF ChildTypeOK, CallPoints
  <2>7. ASSUME NEW r \in Runners, r # u PROVE SameRun(r) /\ SameEnds(r)
    <3>1. SameRun(r)
      BY <1>0, <2>a, <2>7 DEF SameRun, ChildTypeOK
    <3>2. SameEnds(r)
      BY <1>0, <2>a, <2>4, <2>7, DropSpares
    <3> QED BY <3>1, <3>2
  <2> QED BY <2>3, <2>6, <2>7, StepKeeps
<1> QED BY <1>1, <1>2

LEMMA CloseStreamKeeps ==
  ASSUME LimitHolds, ChildInv, NEW u \in Runners, NEW s \in Streams, CloseStream(u, s) PROVE ChildInv'
<1>0. ChildTypeOK /\ RunInv(u)
  BY DEF ChildInv
<1> DEFINE S == {s} \intersect {"in"}
           T == {s} \intersect Outputs
<1>a. /\ ppc[u] = "handle" /\ wr' = Drop(wr, u, S) /\ rd' = Drop(rd, u, T) /\ ppc' = ppc /\ ew' = ew
      /\ held' = held /\ sent' = sent /\ kept' = kept /\ proc' = proc /\ helper' = helper /\ out' = out
  BY DEF CloseStream, child, capture
<1>b. S \in SUBSET Streams /\ T \in SUBSET Streams /\ S \subseteq {"in"}
  OBVIOUS
<1> HIDE DEF S, T
<1>1. ASSUME NEW t \in Streams
      PROVE  /\ wr'[u][t] = IF t \in S THEN wr[u][t] \ {Caller} ELSE wr[u][t]
             /\ Caller \in wr'[u][t] => Caller \in wr[u][t]
             /\ Caller \in rd'[u][t] => Caller \in rd[u][t]
  BY <1>0, <1>a DEF Drop, ChildTypeOK, PipeEnds
<1>2. RunInv(u)'
  <2>1. ProcHeld(u)'
    BY <1>0, <1>a DEF RunInv, ProcHeld
  <2>2. EndsHeld(u)'
    BY <1>0, <1>a, <1>1, StreamFacts DEF RunInv, EndsHeld
  <2>3. \A t \in Outputs : wr'[u][t] = wr[u][t]
    BY <1>b, <1>1, StreamFacts
  <2>4. FlowHeld(u)'
    BY <1>0, <1>a, <2>3 DEF RunInv, FlowHeld, Capped
  <2> QED BY <2>1, <2>2, <2>4 DEF RunInv
<1>3. /\ ppc' = [ppc EXCEPT ![u] = ppc[u]] /\ ppc[u] \in CallPoints /\ ew' \in [Runners -> SUBSET Procs]
      /\ held' \in Bytes /\ kept' \in Bytes
  BY <1>0, <1>a DEF ChildTypeOK
<1> QED BY <1>a, <1>b, <1>2, <1>3, DropKeeps

LEMMA HandleReadsKeeps ==
  ASSUME LimitHolds, ChildInv, NEW u \in Runners, NEW s \in Outputs, HandleReads(u, s) PROVE ChildInv'
<1>0. ChildTypeOK /\ RunInv(u)
  BY DEF ChildInv
<1>a. /\ ppc[u] = "handle" /\ s \in Streams /\ held[u][s] > 0
      /\ held' = [held EXCEPT ![u][s] = held[u][s] - 1] /\ kept' = [kept EXCEPT ![u][s] = kept[u][s] + 1]
      /\ ppc' = ppc /\ wr' = wr /\ rd' = rd /\ ew' = ew /\ proc' = proc /\ helper' = helper /\ sent' = sent
      /\ out' = out
  BY StreamFacts DEF HandleReads, child
<1>1. /\ held \in Bytes /\ kept \in Bytes /\ held[u][s] \in Nat /\ kept[u][s] \in Nat
      /\ held[u][s] - 1 \in Nat /\ kept[u][s] + 1 \in Nat
  BY <1>0, <1>a DEF ChildTypeOK, Bytes
<1>2. /\ held' \in Bytes /\ kept' \in Bytes
      /\ \A t \in Streams : held'[u][t] = IF t = s THEN held[u][s] - 1 ELSE held[u][t]
      /\ \A r \in Runners : r # u => held'[r] = held[r] /\ kept'[r] = kept[r]
  BY <1>a, <1>1 DEF Bytes
<1>3. RunInv(u)'
  <2>1. ProcHeld(u)' /\ EndsHeld(u)' /\ out[u] # "output"
    BY <1>0, <1>a DEF RunInv, ProcHeld, EndsHeld
  <2>2. ASSUME NEW t \in Outputs PROVE held'[u][t] <= sent[u][t]
    <3>1. t \in Streams /\ held[u][t] \in Nat /\ sent[u][t] \in Nat
      BY <1>0, StreamFacts DEF ChildTypeOK, Bytes
    <3>2. held[u][t] <= sent[u][t]
      BY <1>0 DEF RunInv, FlowHeld
    <3> QED BY <1>1, <1>2, <3>1, <3>2
  <2>3. FlowHeld(u)'
    BY <1>0, <1>a, <2>1, <2>2 DEF RunInv, FlowHeld
  <2> QED BY <2>1, <2>3 DEF RunInv
<1>4. /\ ppc' = [ppc EXCEPT ![u] = ppc[u]] /\ ppc[u] \in CallPoints /\ ew' \in [Runners -> SUBSET Procs]
      /\ Streams \in SUBSET Streams
  BY <1>0, <1>a DEF ChildTypeOK
<1> QED BY <1>a, <1>2, <1>3, <1>4, DropKeeps

LEMMA WinSpawnKeeps ==
  ASSUME LimitHolds, ChildInv, NEW u \in Runners, WinSpawn(u) PROVE ChildInv'
<1>0. ChildTypeOK /\ RunInv(u)
  BY DEF ChildInv
<1>a. /\ ppc[u] = "call" /\ ew' = ew /\ held' = held /\ helper' = helper /\ sent' = sent /\ kept' = kept
  BY DEF WinSpawn, capture
<1>1. CASE ~job[u].ok
  <2>1. /\ ppc' = [ppc EXCEPT ![u] = "done"] /\ out' = [out EXCEPT ![u] = "error"]
        /\ wr' = wr /\ rd' = rd /\ proc' = proc
    BY <1>1 DEF WinSpawn, Returns
  <2>2. ChildTypeOK'
    BY <1>0, <1>a, <2>1 DEF ChildTypeOK, CallPoints
  <2>3. RunInv(u)'
    BY <1>0, <1>a, <2>1 DEF ChildTypeOK, RunInv, ProcHeld, EndsHeld, FlowHeld
  <2>4. ASSUME NEW r \in Runners, r # u PROVE SameRun(r) /\ SameEnds(r)
    BY <1>0, <1>a, <2>1, <2>4, QuietSpares DEF SameRun, ChildTypeOK
  <2> QED BY <2>2, <2>3, <2>4, StepKeeps
<1>2. CASE job[u].ok
  <2> DEFINE to == IF job[u].call = "run" THEN "threads" ELSE "handle"
             w == [s \in Streams |-> IF s = "in" THEN {Caller} ELSE {Child(u)}]
             d == [s \in Streams |-> IF s = "in" THEN {Child(u)} ELSE {Caller}]
  <2>a. /\ wr' = [wr EXCEPT ![u] = w] /\ rd' = [rd EXCEPT ![u] = d]
        /\ proc' = [proc EXCEPT ![u] = "run"] /\ out' = out /\ ppc' = [ppc EXCEPT ![u] = to]
    BY <1>2 DEF WinSpawn, GoesTo
  <2>b. to \in {"threads", "handle"}
    OBVIOUS
  <2>c. /\ w \in [Streams -> SUBSET Procs] /\ d \in [Streams -> SUBSET Procs]
        /\ w["in"] = {Caller} /\ d["in"] = {Child(u)}
        /\ \A s \in Outputs : w[s] = {Child(u)} /\ d[s] = {Caller}
    BY StreamFacts DEF Procs
  <2> HIDE DEF to, w, d
  <2>1. ChildTypeOK'
    BY <1>0, <1>a, <2>a, <2>b, <2>c DEF ChildTypeOK, CallPoints, ProcStates, PipeEnds
  <2>2. ppc'[u] = to /\ proc'[u] = "run" /\ wr'[u] = w /\ rd'[u] = d
    BY <1>0, <2>a DEF ChildTypeOK, PipeEnds
  <2>3. Caller # Child(u)
    BY ProcsDiffer
  <2>4. RunInv(u)'
    <3>1. ProcHeld(u)'
      BY <1>0, <1>a, <2>a, <2>b, <2>2 DEF RunInv, ProcHeld
    <3>2. EndsHeld(u)'
      BY <1>0, <1>a, <2>b, <2>c, <2>2, <2>3, StreamFacts DEF RunInv, EndsHeld
    <3>3. FlowHeld(u)'
      BY <1>0, <1>a, <2>a, <2>b, <2>c, <2>2 DEF RunInv, ProcHeld, FlowHeld, Capped
    <3> QED BY <3>1, <3>2, <3>3 DEF RunInv
  <2>5. ASSUME NEW r \in Runners, r # u PROVE SameRun(r) /\ SameEnds(r)
    BY <1>0, <1>a, <2>a, <2>5 DEF SameRun, SameEnds, ChildTypeOK, PipeEnds
  <2> QED BY <2>1, <2>4, <2>5, StepKeeps
<1> QED BY <1>1, <1>2

LEMMA DeadlineKeeps ==
  ASSUME ChildInv, UNCHANGED <<ppc, wr, rd, ew, held, proc, helper, sent, kept, out>>
  PROVE  ChildInv'
BY DEF ChildInv, ChildTypeOK, RunInv, ProcHeld, EndsHeld, FlowHeld, Capped

LEMMA ChildInvStep ==
  ASSUME LimitHolds, ChildInv, [ChildNext]_childVars
  PROVE  ChildInv'
<1>1. ASSUME NEW r \in Runners, CallStep(r) PROVE ChildInv'
  BY <1>1, MakePipesKeeps, SetCloexecKeeps, ForkKeeps, CloseChildEndsKeeps, ExecFailedKeeps, OpenedKeeps,
     PushKeeps, LoopEndsKeeps, ReapKeeps, StoppingKeeps, WinSpawnKeeps, WinThreadsKeeps, DropHandleKeeps
  DEF CallStep
<1>2. ASSUME NEW r \in Runners, ChildStep(r) PROVE ChildInv'
  BY <1>2, ExecKeeps, ChildReadsKeeps, ChildWritesKeeps, ChildForksKeeps, ChildExitsKeeps DEF ChildStep
<1>3. ASSUME NEW r \in Runners, Deadline(r) \/ Waited(r) \/ HandleWrites(r) \/ Signal(r) PROVE ChildInv'
  <2>1. CASE Deadline(r)
    BY <2>1, DeadlineKeeps DEF Deadline, pipes, child, capture
  <2> QED BY <1>3, <2>1, WaitedKeeps, HandleWritesKeeps, SignalKeeps
<1>4. ASSUME NEW r \in Runners, NEW s \in Streams, CloseStream(r, s) PROVE ChildInv'
  BY <1>4, CloseStreamKeeps
<1>5. ASSUME NEW r \in Runners, NEW s \in Outputs, DrainPipe(r, s) \/ HandleReads(r, s) PROVE ChildInv'
  BY <1>5, DrainPipeKeeps, HandleReadsKeeps
<1>6. CASE UNCHANGED childVars
  BY <1>6, DeadlineKeeps DEF childVars
<1> QED BY <1>1, <1>2, <1>3, <1>4, <1>5, <1>6 DEF ChildNext

LEMMA ChildInvClean ==
  ASSUME ChildInv PROVE RunsClean
<1>1. ASSUME NEW r \in Runners, ppc[r] = "done"
      PROVE  /\ proc[r] \in {"none", "reaped"}
             /\ Caller \notin ew[r] \union UNION {wr[r][s] \union rd[r][s] : s \in Streams}
  BY <1>1 DEF ChildInv, RunInv, ProcHeld, EndsHeld
<1>2. ASSUME NEW r \in Runners, out[r] = "output", NEW s \in Outputs
      PROVE  kept[r][s] = Capped(sent[r][s])
  BY <1>2 DEF ChildInv, RunInv, FlowHeld
<1>3. ASSUME NEW r \in Runners, out[r] = "timeout" PROVE helper[r] # "run"
  BY <1>3 DEF ChildInv, RunInv, ProcHeld
<1> QED BY <1>1, <1>2, <1>3 DEF RunsClean, NothingLeftBehind, OutputComplete, TimeoutStopsGroup

\* A call that returned left no running child, no zombie and no descriptor of
\* its own; a run that reports output reports all of it, up to the limit; one
\* that timed out leaves no helper (beans_proc_run, beans_proc_start), for any
\* number of calls at once, any programs, any size of a pipe and any limit.
THEOREM RunsCleanCorrect ==
  ASSUME LimitHolds
  PROVE  ChildSpec => []RunsClean
<1>1. ChildInit => ChildInv
  BY ChildStarts
<1>2. ChildInv /\ [ChildNext]_childVars => ChildInv'
  BY ChildInvStep
<1>3. ChildInv => RunsClean
  BY ChildInvClean
<1> QED BY <1>1, <1>2, <1>3, PTL DEF ChildSpec
=============================================================================
