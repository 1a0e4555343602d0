------------------------------ MODULE ListSort ------------------------------
(* A Beans list as the runtime keeps it: a block of slots and a length, the  *)
(* operations that move elements, and the three that call the program back   *)
(* in the middle: sort_by with its comparator, sort_by_key with its key      *)
(* function, and clear with the deinit of what it drops.  A callback may     *)
(* read, change the list, or panic; a contained panic unwinds the C frame.   *)
EXTENDS Integers, Sequences, SequencesExt, FiniteSetsExt

CONSTANTS Elems, NoElem, \* elements; each stands for one object
          Key,           \* [Elems -> Int], what the comparator compares
          FirstCap,      \* slots of a new list
          MaxLen,        \* elements the program puts in one list
          MaxStore,      \* times the slots move
          Base,          \* values of one radix digit
          Crossover      \* the radix path is for lists this many times longer

VARIABLES narrow,  \* elements of four bytes: not owned, sorted in a wide copy
          mem,     \* the slots
          len,     \* elements
          store,   \* which block of slots it is
          refs,    \* [Elems -> Nat]: references to each object
          job,     \* the operation that calls back
          last,    \* how the last one ended: [how, before, left]
          torn     \* what a callback has done that the operation it interrupts does
                   \* not allow for: "no", "written" an element in place, "pushed" into
                   \* a list being cleared, "restored" over what it had changed.
                   \* Only the rest of that operation is explored

vars == <<narrow, mem, len, store, refs, job, last, torn>>
NoJob == [op |-> "none"]
NotYet == [how |-> "none", before |-> <<>>, left |-> <<>>]
Items == SubSeq(mem, 1, len)
Idle == job = NoJob /\ torn = "no"
Fresh == {e \in Elems : refs[e] = 0}

Init ==
    /\ narrow \in BOOLEAN
    /\ mem = [k \in 1..FirstCap |-> NoElem] /\ len = 0 /\ store = 0
    /\ refs = [e \in Elems |-> 0] /\ job = NoJob /\ last = NotYet /\ torn = "no"

----------------------------------------------------------------------------
\* What the operations do to the slots.  m is <<mem, len, store>>.
Now == [mem |-> mem, len |-> len, store |-> store]
\* list_backing_grow: a full list gets twice the slots, somewhere else.
Grown(l) == IF l.len < Len(l.mem) THEN l
            ELSE [l EXCEPT !.mem = @ \o [k \in 1..Len(@) |-> NoElem], !.store = @ + 1]
\* memmove, then the store.
InsertIn(l, k, e) ==
    [l EXCEPT !.mem = [p \in DOMAIN @ |->
                         IF p < k \/ p > l.len + 1 THEN @[p] ELSE IF p = k THEN e ELSE @[p - 1]],
              !.len = @ + 1]
Inserted(l, k, e) == InsertIn(Grown(l), k, e)
Removed(l, k) ==
    [l EXCEPT !.mem = [p \in DOMAIN @ |-> IF p < k \/ p >= l.len THEN @[p] ELSE @[p + 1]], !.len = @ - 1]
Reversed(l) ==
    [l EXCEPT !.mem = [p \in DOMAIN @ |-> IF p > l.len THEN @[p] ELSE @[(l.len + 1) - p]]]
Becomes(l) == mem' = l.mem /\ len' = l.len /\ store' = l.store

Takes(e) == refs' = [refs EXCEPT ![e] = @ + 1]
Drops(e) == refs' = [refs EXCEPT ![e] = @ - 1]
MayGrow == store < MaxStore \/ len < Len(mem)

Insert(k, e) ==
    /\ Idle /\ k <= len + 1 /\ len < MaxLen /\ MayGrow
    /\ Becomes(Inserted(Now, k, e)) /\ Takes(e) /\ last' = NotYet
    /\ UNCHANGED <<narrow, torn, job>>
Take(k) ==
    /\ Idle /\ k <= len /\ Becomes(Removed(Now, k)) /\ Drops(mem[k]) /\ last' = NotYet
    /\ UNCHANGED <<narrow, torn, job>>
ReverseAll ==
    /\ Idle /\ len > 1 /\ Becomes(Reversed(Now)) /\ last' = NotYet
    /\ UNCHANGED <<narrow, torn, refs, job>>

----------------------------------------------------------------------------
\* The blocks of the bottom-up merge in the order they are merged: width w,
\* first element lo; a block with nothing on its right is skipped.
Widths == {1, 2, 4}
BlockBefore(p, q) == p[1] < q[1] \/ (p[1] = q[1] /\ p[2] < q[2])
Blocks(n) == SetToSortSeq({p \in Widths \X (0..n) : p[2] % (2 * p[1]) = 0 /\ p[2] + p[1] < n}, BlockBefore)
Least(x, y) == IF x < y THEN x ELSE y
Mid(p, n) == Least(p[2] + p[1], n)
Hi(p, n) == Least(p[2] + (2 * p[1]), n)

\* What list_merge_sort permutes: the list's own slots, or the wide copy.
Array == IF job.wide = <<>> THEN mem ELSE job.wide
Block == Blocks(job.n)[job.b]
StartSort(thunk, law) ==
    /\ Idle /\ len > 1
    /\ job' = [op |-> "sort", thunk |-> thunk, law |-> law, n |-> len,
               wide |-> IF narrow THEN Items ELSE <<>>, saved |-> Items, armed |-> thunk,
               pin |-> <<len, store>>, b |-> 1, i |-> 0, j |-> 1, out |-> <<>>]
    /\ last' = NotYet /\ UNCHANGED <<narrow, torn, mem, len, store, refs>>

\* The left one, unless the right one is strictly less.
TakeLeft(x, y) == ~(Key[y] < Key[x])
Answers == IF job.law THEN {TakeLeft(Array[job.i + 1], Array[job.j + 1])} ELSE BOOLEAN

\* Each finished block of a widened sort is written to the list as well.
Mirrored(merged) == [p \in DOMAIN mem |-> IF p <= Len(merged) THEN merged[p] ELSE mem[p]]
\* The block with the rest of its two halves, in place of the old one.
Merged(i, j, out) ==
    SubSeq(Array, 1, Block[2]) \o out \o SubSeq(Array, i + 1, Mid(Block, job.n))
       \o SubSeq(Array, j + 1, Hi(Block, job.n)) \o SubSeq(Array, Hi(Block, job.n) + 1, job.n)
Commit(merged) ==
    /\ mem' = Mirrored(merged)
    /\ IF job.b = Len(Blocks(job.n))
       THEN job' = NoJob /\ last' = [how |-> IF job.law THEN "sorted" ELSE "any", before |-> job.saved, left |-> <<>>]
       ELSE /\ job' = [job EXCEPT !.b = @ + 1, !.out = <<>>,
                                  !.wide = IF @ = <<>> THEN @ ELSE merged,
                                  !.i = Blocks(job.n)[job.b + 1][2],
                                  !.j = Mid(Blocks(job.n)[job.b + 1], job.n)]
            /\ last' = last
Step(i, j, out) ==
    IF i < Mid(Block, job.n) /\ j < Hi(Block, job.n)
    THEN job' = [job EXCEPT !.i = i, !.j = j, !.out = out] /\ UNCHANGED <<mem, last>>
    ELSE Commit(Merged(i, j, out))

\* The comparator only looks, and the merge takes one element.
Compare ==
    /\ job.op = "sort"
    /\ \E left \in Answers :
          IF left THEN Step(job.i + 1, job.j, Append(job.out, Array[job.i + 1]))
          ELSE Step(job.i, job.j + 1, Append(job.out, Array[job.j + 1]))
    /\ UNCHANGED <<narrow, torn, len, store, refs>>

\* rt_restore_fire on the unwind: the slots as they were before the call.
RestoredIn(m) == [p \in DOMAIN m |-> IF p <= Len(job.saved) THEN job.saved[p] ELSE m[p]]
\* A callback panics and has changed nothing.
Panics ==
    /\ job.op \in {"sort", "keys"} /\ job.thunk
    /\ mem' = IF job.armed THEN RestoredIn(mem) ELSE mem
    /\ job' = NoJob /\ last' = [how |-> "panicked", before |-> job.saved, left |-> <<>>]
    /\ UNCHANGED <<narrow, torn, len, store, refs>>

\* What a callback can turn the list into.
Changes ==
    (IF len < MaxLen /\ MayGrow THEN {Inserted(Now, len + 1, e) : e \in Fresh} ELSE {})
      \cup {Removed(Now, k) : k \in 1..len} \cup {[Now EXCEPT !.len = 0]}
\* References after the change: what came in and what went.
Counted(l) == [e \in Elems |-> refs[e] + (Cardinality({p \in 1..l.len : l.mem[p] = e})
                                          - Cardinality({p \in 1..len : mem[p] = e}))]
\* rt_sort_check: the length or the block of slots is another one.
Detected(l) == <<l.len, l.store>> # job.pin
Changed(l) == [how |-> "changed", before |-> job.saved, left |-> SubSeq(l.mem, 1, l.len)]
\* The sort refuses: the snapshot is stood down and the list stays as it is now.
CallbackChanges ==
    /\ job.op \in {"sort", "keys"} /\ job.thunk
    /\ \E l \in Changes :
          /\ refs' = Counted(l)
          /\ Becomes(IF Detected(l) THEN l ELSE [l EXCEPT !.mem = RestoredIn(@)])
          /\ job' = NoJob /\ last' = Changed(l)
    /\ UNCHANGED <<narrow, torn>>
\* The callback changes the list and then panics, or is unwound by a cancel:
\* rt_sort_check does not run, and the snapshot is written to the slots the sort
\* began with.  They are the list's own, or, when it has grown, those of a block
\* that has been freed, unless it could grow where it was.
ChangesAndPanics ==
    /\ job.op \in {"sort", "keys"} /\ job.thunk
    /\ \E l \in Changes, own \in BOOLEAN :
          /\ l.store = store => own
          /\ refs' = Counted(l)
          /\ Becomes(IF job.armed /\ own THEN [l EXCEPT !.mem = RestoredIn(@)] ELSE l)
          /\ last' = IF job.armed /\ own THEN NotYet ELSE Changed(l)
    /\ job' = NoJob /\ torn' = IF job.armed THEN "restored" ELSE torn
    /\ UNCHANGED narrow
\* l[i] = v: the new one is stored and the old one released; nothing moves.
CallbackWrites ==
    /\ torn = "no" /\ job.op = "sort" /\ job.thunk
    /\ \E k \in 1..len, e \in Fresh :
          /\ mem' = [mem EXCEPT ![k] = e]
          /\ refs' = [refs EXCEPT ![e] = @ + 1, ![mem[k]] = @ - 1]
    /\ job' = [job EXCEPT !.law = FALSE] /\ torn' = "written"
    /\ UNCHANGED <<narrow, len, store, last>>

----------------------------------------------------------------------------
\* sort_by_key: every key first, then the permutation.
StartKeys ==
    /\ Idle /\ len > 0
    /\ job' = [op |-> "keys", thunk |-> TRUE, law |-> TRUE, n |-> len,
               wide |-> IF narrow THEN Items ELSE <<>>, saved |-> Items, armed |-> FALSE,
               pin |-> <<len, store>>, b |-> 1, i |-> 0, j |-> 1, out |-> <<>>]
    /\ last' = NotYet /\ UNCHANGED <<narrow, torn, mem, len, store, refs>>
KeyCall ==
    /\ job.op = "keys" /\ job.i < job.n
    /\ job' = [job EXCEPT !.i = @ + 1]
    /\ UNCHANGED <<narrow, torn, mem, len, store, refs, last>>

KeysOf(s) == {Key[s[p]] : p \in DOMAIN s}
Span(s) == Max(KeysOf(s)) - Min(KeysOf(s))
\* 16-bit digits of what a key is above the least: one, two or four of them.
Passes(s) == IF Span(s) < Base THEN 1 ELSE IF Span(s) < Base * Base THEN 2 ELSE 4
Digit(s, e, pass) == ((Key[e] - Min(KeysOf(s))) \div Base ^ (pass - 1)) % Base
\* One pass: counted, then placed in order, so that equal digits stay in order.
Pass(s, pass) == FlattenSeq([d \in 1..Base |-> SelectSeq(s, LAMBDA e : Digit(s, e, pass) = d - 1)])
Radix(s) == CASE Passes(s) = 1 -> Pass(s, 1)
              [] Passes(s) = 2 -> Pass(Pass(s, 1), 2)
              [] OTHER -> Pass(Pass(Pass(Pass(s, 1), 2), 3), 4)
Short(s) == Passes(s) * Crossover > Len(s)
Source == IF job.wide = <<>> THEN Items ELSE job.wide
KeysDone ==
    /\ job.op = "keys" /\ job.i = job.n
    /\ IF job.n > 1 /\ Short(Source)
       THEN job' = [job EXCEPT !.op = "sort", !.thunk = FALSE, !.i = 0] /\ UNCHANGED <<mem, last>>
       ELSE /\ mem' = Mirrored(IF job.n > 1 THEN Radix(Source) ELSE Source)
            /\ job' = NoJob /\ last' = [how |-> "sorted", before |-> job.saved, left |-> <<>>]
    /\ UNCHANGED <<narrow, torn, len, store, refs>>
\* sort on integers: the radix path whatever the length.
SortInts ==
    /\ Idle /\ len > 1 /\ mem' = Mirrored(Radix(Items))
    /\ last' = [how |-> "sorted", before |-> Items, left |-> <<>>]
    /\ UNCHANGED <<narrow, torn, len, store, refs, job>>

----------------------------------------------------------------------------
\* clear: the length goes first, then the elements, the last one first.
StartClear ==
    /\ Idle /\ len > 0 /\ len' = 0
    /\ IF narrow THEN refs' = [e \in Elems |-> 0] /\ job' = NoJob
       ELSE refs' = refs /\ job' = [op |-> "clear", n |-> len, next |-> len, unwinding |-> FALSE]
    /\ last' = NotYet /\ UNCHANGED <<narrow, torn, mem, store>>
\* rt_list_clear_unwound goes on below the element whose deinit panicked.
ClearOne(panics) ==
    /\ job.op = "clear" /\ job.next > len /\ (panics => ~job.unwinding)
    /\ Drops(mem[job.next])
    /\ job' = [job EXCEPT !.next = @ - 1, !.unwinding = @ \/ panics]
    /\ UNCHANGED <<narrow, torn, mem, len, store, last>>
\* The deinit of a dropped element puts something into the list again.
DeinitPushes ==
    /\ job.op = "clear" /\ job.next < job.n /\ torn = "no" /\ MayGrow
    /\ \E e \in Fresh : Becomes(Inserted(Now, len + 1, e)) /\ Takes(e)
    /\ torn' = "pushed" /\ UNCHANGED <<narrow, job, last>>
\* The walk stops at a slot that the list owns again.
ClearEnds ==
    /\ job.op = "clear" /\ job.next <= len
    /\ job' = NoJob /\ UNCHANGED <<narrow, torn, mem, len, store, refs, last>>

Next ==
    \/ \E k \in 1..MaxLen, e \in Fresh : Insert(k, e)
    \/ \E k \in 1..MaxLen : Take(k)
    \/ ReverseAll \/ SortInts \/ StartKeys \/ StartClear
    \/ \E thunk \in BOOLEAN, law \in BOOLEAN : (thunk \/ law) /\ StartSort(thunk, law)
    \/ Compare \/ Panics \/ CallbackChanges \/ ChangesAndPanics \/ CallbackWrites \/ KeyCall \/ KeysDone
    \/ \E panics \in BOOLEAN : ClearOne(panics)
    \/ DeinitPushes \/ ClearEnds
Spec == Init /\ [][Next]_vars

----------------------------------------------------------------------------
\* What a stable sort by Key has to give: nobody is before an element with a
\* lesser key, and equal keys keep their order.
Position(s, e) == CHOOSE p \in DOMAIN s : s[p] = e
StableOf(s, t) ==
    /\ Len(s) = Len(t) /\ {s[p] : p \in DOMAIN s} = {t[p] : p \in DOMAIN t}
    /\ \A p, q \in DOMAIN t : p < q =>
          \/ Key[t[p]] < Key[t[q]]
          \/ Key[t[p]] = Key[t[q]] /\ Position(s, t[p]) < Position(s, t[q])
\* Every sort of a lawful order, by merging or by radix, in place or in a
\* wide copy, leaves the stable sort of what the list was.
SortsStably == last.how = "sorted" => StableOf(last.before, Items)

\* A comparator or key function that has changed nothing and panics leaves the
\* list exactly as it was before the call.
PanicLeavesAsWas == last.how = "panicked" => Items = last.before

\* A callback that changed the list finds it as it left it when the sort
\* refuses, and when a key function panics.
ChangeStands == last.how = "changed" => Items = last.left

\* How often the list holds an element.
Holds(e) == Cardinality({p \in 1..len : mem[p] = e})
\* A list that owns its elements holds each as often as it is referenced: no
\* operation, interrupted or not, loses an element or keeps a dead one.  A
\* deinit that pushes into the list being cleared can cost it the elements whose
\* slots it takes, which nobody releases any more, but leaves no dead one in it.
\* A comparator that writes in place, or changes the list and then panics, leaves
\* both: what the merge, or the restore, writes back has been released.
OwnsItems ==
    (~narrow /\ job.op # "clear") =>
        /\ torn = "no" => \A e \in Elems : refs[e] = Holds(e)
        /\ torn = "pushed" => \A e \in Elems : refs[e] >= Holds(e)

\* A comparator that reads the list, and has not written to it, sees the blocks
\* merged so far, also when the sort is in a wide copy.
MirrorShown == (job.op = "sort" /\ job.thunk /\ job.wide # <<>> /\ torn = "no") => Items = job.wide

\* A sort is a stable permutation, or, when its comparator panics, or changes
\* the list and returns, leaves the list owning what it owned (list_merge_sort,
\* rt_sort_check, beans_list_clear).
ListExact == SortsStably /\ PanicLeavesAsWas /\ ChangeStands /\ OwnsItems
    /\ MirrorShown
=============================================================================
