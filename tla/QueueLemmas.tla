----------------------------- MODULE QueueLemmas ----------------------------
(***************************************************************************)
(* What the runtime's queues and wait lines keep when they hold each entry *)
(* at most once: a push, a pop, a removal from the middle, a splice.       *)
(***************************************************************************)
EXTENDS Integers, Sequences, FiniteSets, SequencesExt, TLAPS, SequenceTheorems, FiniteSetTheorems,
        WellFoundedInduction

\* A push at the tail of a line that does not hold the fiber (ready_push,
\* fiber_line_push).
LEMMA PushLemma ==
    ASSUME NEW S, NEW s \in Seq(S), NEW x \in S, IsInjective(s), x \notin Range(s)
    PROVE  /\ Append(s, x) \in Seq(S)
           /\ IsInjective(Append(s, x))
           /\ Range(Append(s, x)) = Range(s) \union {x}
<1>1. /\ Append(s, x) \in Seq(S) /\ Len(s) \in Nat
      /\ DOMAIN s = 1..Len(s) /\ DOMAIN Append(s, x) = 1..(Len(s) + 1)
      /\ \A i \in 1..Len(s) : Append(s, x)[i] = s[i]
      /\ Append(s, x)[Len(s) + 1] = x
  BY AppendProperties, LenProperties
<1>2. IsInjective(Append(s, x))
  BY <1>1 DEF IsInjective, Range
<1>3. Range(Append(s, x)) = Range(s) \union {x}
  <2>1. Range(Append(s, x)) \subseteq Range(s) \union {x}
    BY <1>1 DEF Range
  <2>2. Range(s) \subseteq Range(Append(s, x))
    BY <1>1 DEF Range
  <2>3. x \in Range(Append(s, x))
    BY <1>1 DEF Range
  <2> QED BY <2>1, <2>2, <2>3
<1> QED BY <1>1, <1>2, <1>3

\* The head of a line that holds each fiber once leaves it (ready_pop,
\* fiber_line_pop).
LEMMA PopLemma ==
    ASSUME NEW S, NEW s \in Seq(S), s # <<>>, IsInjective(s)
    PROVE  /\ Head(s) \in S /\ Head(s) \in Range(s)
           /\ Tail(s) \in Seq(S)
           /\ IsInjective(Tail(s))
           /\ Range(Tail(s)) = Range(s) \ {Head(s)}
<1>1. /\ Len(s) \in Nat \ {0} /\ DOMAIN s = 1..Len(s)
      /\ Tail(s) \in Seq(S) /\ DOMAIN Tail(s) = 1..(Len(s) - 1)
      /\ \A i \in 1..(Len(s) - 1) : Tail(s)[i] = s[i + 1]
      /\ Head(s) = s[1]
  BY HeadTailProperties, LenProperties, EmptySeq
<1>2. Head(s) \in S /\ Head(s) \in Range(s)
  BY <1>1, ElementOfSeq DEF Range
<1>3. IsInjective(Tail(s)) /\ Range(Tail(s)) \subseteq Range(s) \ {Head(s)}
  BY <1>1 DEF IsInjective, Range
<1>4. ASSUME NEW x \in Range(s), x # Head(s) PROVE x \in Range(Tail(s))
  <2>1. PICK i \in 1..Len(s) : x = s[i]
    BY <1>1 DEF Range
  <2>2. i - 1 \in 1..(Len(s) - 1) /\ Tail(s)[i - 1] = x
    BY <1>1, <1>4, <2>1
  <2> QED BY <1>1, <2>2 DEF Range
<1> QED BY <1>1, <1>2, <1>3, <1>4

\* A waiter leaves its line, wherever it stands (fiber_line_remove, the unlink of
\* beans_atomic_wait).
LEMMA RemoveLemma ==
    ASSUME NEW S, NEW s \in Seq(S), NEW x \in S, IsInjective(s)
    PROVE  /\ RemoveFirst(s, x) \in Seq(S)
           /\ IsInjective(RemoveFirst(s, x))
           /\ Range(RemoveFirst(s, x)) = Range(s) \ {x}
<1>0. Len(s) \in Nat /\ DOMAIN s = 1..Len(s)
  BY LenProperties
<1>1. CASE x \notin Range(s)
  <2>1. RemoveFirst(s, x) = s
     BY <1>0, <1>1 DEF RemoveFirst, Range
  <2> QED BY <2>1, <1>1
<1>2. ASSUME NEW i \in 1..Len(s), s[i] = x PROVE RemoveFirst(s, x) = RemoveAt(s, i)
  <2>1. {j \in 1..Len(s) : s[j] = x} = {i}
    BY <1>2 DEF IsInjective
  <2>2. Min({j \in 1..Len(s) : s[j] = x}) = i
    BY <2>1, <1>2 DEF Min
  <2> QED BY <2>1, <2>2, <1>2 DEF RemoveFirst, SelectInSeq
<1>3. ASSUME NEW i \in 1..Len(s), s[i] = x
      PROVE  /\ RemoveAt(s, i) \in Seq(S)
             /\ IsInjective(RemoveAt(s, i))
             /\ Range(RemoveAt(s, i)) = Range(s) \ {x}
  <2> DEFINE front == SubSeq(s, 1, i - 1)
             rest == SubSeq(s, i + 1, Len(s))
             r == RemoveAt(s, i)
  <2>1. /\ front \in Seq(S) /\ Len(front) = i - 1
        /\ \A j \in 1..(i - 1) : front[j] = s[j]
    BY <1>0, <1>3
  <2>2. /\ rest \in Seq(S) /\ Len(rest) = Len(s) - i
        /\ \A j \in 1..(Len(s) - i) : rest[j] = s[i + 1 + j - 1]
    <3>1. i + 1 \in 1..(Len(s) + 1)
      BY <1>0, <1>3
    <3>2. CASE i = Len(s)
      BY <1>0, <1>3, <3>1, <3>2
    <3>3. CASE i < Len(s)
      <4>1. i + 1 \in 1..Len(s) /\ i + 1 <= Len(s)
        BY <1>0, <3>3
      <4> QED BY <1>0, <1>3, <4>1, SubSeqProperties
    <3>4. \A n \in Nat : \A k \in 1..n : k = n \/ k < n
      OBVIOUS
    <3>5. i = Len(s) \/ i < Len(s)
      BY <1>0, <3>4, Zenon
    <3> QED BY <3>2, <3>3, <3>5
  <2>3. r = front \o rest
    BY DEF RemoveAt
  <2> HIDE DEF front, rest, r
  <2>4. /\ r \in Seq(S) /\ Len(r) = Len(s) - 1
        /\ DOMAIN r = 1..(Len(s) - 1)
        /\ \A j \in 1..(i - 1) : r[j] = s[j]
        /\ \A j \in i..(Len(s) - 1) : r[j] = s[j + 1]
    <3>1. /\ r \in Seq(S) /\ Len(r) = Len(front) + Len(rest)
          /\ \A j \in 1..(Len(front) + Len(rest)) :
               r[j] = IF j <= Len(front) THEN front[j] ELSE rest[j - Len(front)]
      BY <2>1, <2>2, <2>3, ConcatProperties
    <3>2. Len(r) = Len(s) - 1 /\ DOMAIN r = 1..(Len(s) - 1)
      BY <1>0, <1>3, <2>1, <2>2, <3>1, LenProperties
    <3>3. ASSUME NEW j \in i..(Len(s) - 1) PROVE r[j] = s[j + 1]
      <4>1. j - (i - 1) \in 1..(Len(s) - i) /\ j \in 1..(Len(s) - 1) /\ ~(j <= i - 1)
        BY <1>0, <1>3, <3>3
      <4>2. r[j] = rest[j - (i - 1)]
        <5>1. Len(front) + Len(rest) = Len(s) - 1
          BY <1>0, <2>1, <2>2
        <5>2. r[j] = IF j <= i - 1 THEN front[j] ELSE rest[j - (i - 1)]
          BY <2>1, <3>1, <4>1, <5>1
        <5> QED BY <4>1, <5>2
      <4>3. rest[j - (i - 1)] = s[i + 1 + (j - (i - 1)) - 1]
        BY <2>2, <4>1
      <4>4. i + 1 + (j - (i - 1)) - 1 = j + 1
        BY <1>0, <1>3, <3>3
      <4> QED BY <4>2, <4>3, <4>4
    <3>4. ASSUME NEW j \in 1..(i - 1) PROVE r[j] = s[j]
      <4>1. Len(front) + Len(rest) = Len(s) - 1 /\ j \in 1..(Len(s) - 1) /\ j <= i - 1
        BY <1>0, <2>1, <2>2, <3>4
      <4>2. r[j] = front[j]
        BY <2>1, <3>1, <4>1
      <4> QED BY <2>1, <3>4, <4>2
    <3> QED BY <3>1, <3>2, <3>3, <3>4
  <2>5. \A j, k \in DOMAIN s : s[j] = s[k] => j = k
    BY DEF IsInjective
  <2>6. ASSUME NEW j \in DOMAIN r, NEW k \in DOMAIN r, r[j] = r[k] PROVE j = k
    <3>1. r[j] = IF j < i THEN s[j] ELSE s[j + 1]
      BY <1>0, <1>3, <2>4
    <3>2. r[k] = IF k < i THEN s[k] ELSE s[k + 1]
      BY <1>0, <1>3, <2>4
    <3>3. DEFINE at(n) == IF n < i THEN n ELSE n + 1
    <3>4. at(j) \in DOMAIN s /\ at(k) \in DOMAIN s
      BY <1>0, <1>3, <2>4
    <3>5. s[at(j)] = s[at(k)]
      BY <2>6, <3>1, <3>2
    <3>6. at(j) = at(k)
      BY <2>5, <3>4, <3>5
    <3> QED BY <1>0, <1>3, <2>4, <3>6
  <2>7. IsInjective(r)
    BY <2>6 DEF IsInjective
  <2>8. ASSUME NEW j \in DOMAIN r PROVE r[j] \in Range(s) \ {x}
    BY <1>0, <1>3, <2>4, <2>5 DEF Range
  <2>9. ASSUME NEW y \in Range(s), y # x PROVE y \in Range(r)
    <3>1. PICK k \in 1..Len(s) : s[k] = y
      BY <1>0 DEF Range
    <3>2. CASE k < i
      BY <1>0, <3>1, <3>2, <2>4, <1>3 DEF Range
    <3>3. CASE k > i
      <4>1. k - 1 \in 1..(Len(s) - 1) /\ r[k - 1] = y
        BY <1>0, <3>1, <3>3, <2>4, <1>3
      <4> QED BY <4>1, <2>4 DEF Range
    <3> QED BY <3>1, <3>2, <3>3, <1>3, <2>9
  <2>10. Range(r) = Range(s) \ {x}
    <3>1. Range(r) \subseteq Range(s) \ {x}
      BY <2>8 DEF Range
    <3> QED BY <3>1, <2>9
  <2> QED BY <2>4, <2>7, <2>10 DEF r
<1>4. CASE x \in Range(s)
  <2>1. PICK i \in 1..Len(s) : s[i] = x
    BY <1>0, <1>4 DEF Range
  <2>2. RemoveFirst(s, x) = RemoveAt(s, i)
    BY <1>2, <2>1
  <2> QED BY <1>3, <2>1, <2>2
<1> QED BY <1>1, <1>4

\* A line that holds each fiber once holds it at one place or at none.
LEMMA PlacesLemma ==
    ASSUME NEW S, NEW s \in Seq(S), IsInjective(s), NEW x
    PROVE  Cardinality({i \in DOMAIN s : s[i] = x}) = IF x \in Range(s) THEN 1 ELSE 0
<1>1. CASE x \in Range(s)
  <2>1. PICK i \in DOMAIN s : s[i] = x
    BY <1>1 DEF Range
  <2>2. {j \in DOMAIN s : s[j] = x} = {i}
    BY <2>1 DEF IsInjective
  <2> QED BY <1>1, <2>2, FS_Singleton
<1>2. CASE x \notin Range(s)
  <2>1. {j \in DOMAIN s : s[j] = x} = {}
    BY <1>2 DEF Range
  <2> QED BY <1>2, <2>1, FS_EmptySet
<1> QED BY <1>1, <1>2

\* Two queues with no fiber in common are spliced (inbox_drain).
LEMMA SpliceLemma ==
    ASSUME NEW S, NEW s \in Seq(S), NEW u \in Seq(S), IsInjective(s), IsInjective(u),
           Range(s) \intersect Range(u) = {}
    PROVE  /\ s \o u \in Seq(S)
           /\ IsInjective(s \o u)
           /\ Range(s \o u) = Range(s) \union Range(u)
<1>1. /\ s \o u \in Seq(S) /\ Len(s \o u) = Len(s) + Len(u)
      /\ Len(s) \in Nat /\ Len(u) \in Nat
      /\ DOMAIN s = 1..Len(s) /\ DOMAIN u = 1..Len(u)
      /\ DOMAIN (s \o u) = 1..(Len(s) + Len(u))
      /\ \A i \in 1..Len(s) : (s \o u)[i] = s[i]
      /\ \A i \in (Len(s) + 1)..(Len(s) + Len(u)) : (s \o u)[i] = u[i - Len(s)]
  BY ConcatProperties, LenProperties
<1>2. Range(s \o u) = Range(s) \union Range(u)
  BY RangeConcatenation
<1>3. ASSUME NEW a \in DOMAIN (s \o u), NEW b \in DOMAIN (s \o u),
             (s \o u)[a] = (s \o u)[b]
      PROVE  a = b
  <2>1. CASE a \in 1..Len(s) /\ b \in 1..Len(s)
    BY <1>1, <1>3, <2>1 DEF IsInjective
  <2>2. CASE a \notin 1..Len(s) /\ b \notin 1..Len(s)
    <3>1. a - Len(s) \in 1..Len(u) /\ b - Len(s) \in 1..Len(u)
      BY <1>1, <1>3, <2>2
    <3>2. u[a - Len(s)] = u[b - Len(s)]
      BY <1>1, <1>3, <2>2
    <3>3. a - Len(s) = b - Len(s)
      BY <1>1, <3>1, <3>2 DEF IsInjective
    <3> QED BY <1>1, <1>3, <3>3
  <2>3. ASSUME NEW i \in 1..Len(s), NEW j \in DOMAIN (s \o u), j \notin 1..Len(s)
        PROVE  (s \o u)[i] # (s \o u)[j]
    <3>1. j - Len(s) \in 1..Len(u) /\ (s \o u)[j] = u[j - Len(s)]
      BY <1>1, <2>3
    <3>2. (s \o u)[i] \in Range(s) /\ (s \o u)[j] \in Range(u)
      BY <1>1, <3>1 DEF Range
    <3> QED BY <3>2
  <2> QED BY <1>1, <1>3, <2>1, <2>2, <2>3
<1> QED BY <1>1, <1>2, <1>3 DEF IsInjective

\* The empty queue, and the queue of one fiber.
LEMMA ShortLemma ==
    ASSUME NEW S, NEW x \in S
    PROVE  /\ <<>> \in Seq(S) /\ IsInjective(<<>>) /\ Range(<<>>) = {}
           /\ <<x>> \in Seq(S) /\ IsInjective(<<x>>) /\ Range(<<x>>) = {x}
<1>1. DOMAIN <<>> = {} /\ <<>> \in Seq(S)
  BY EmptySeq
<1>2. DOMAIN <<x>> = {1} /\ <<x>>[1] = x /\ <<x>> \in Seq(S)
  OBVIOUS
<1>3. IsInjective(<<>>) /\ Range(<<>>) = {}
  BY <1>1 DEF IsInjective, Range
<1>4. IsInjective(<<x>>) /\ Range(<<x>>) = {x}
  BY <1>2, Zenon DEF IsInjective, Range
<1> QED BY <1>1, <1>2, <1>3, <1>4

\* A walk along a list that stops at the first place that fits finds one.
LEMMA LeastLemma ==
    ASSUME NEW T \in SUBSET Nat, T # {}
    PROVE  \E x \in T : \A y \in T : x <= y
<1> DEFINE R == OpToRel(<, Nat)
<1>1. IsWellFoundedOn(R, Nat)
  BY NatLessThanWellFounded, Zenon
<1>2. \A x, y \in Nat : <<y, x>> \in R <=> y < x
  BY Zenon DEF OpToRel
<1> HIDE DEF R
<1>3. PICK x \in T : \A y \in T : <<y, x>> \notin R
  BY <1>1, WFMin
<1>4. \A y \in T : ~(y < x)
  BY <1>2, <1>3
<1> QED BY <1>4

=============================================================================
