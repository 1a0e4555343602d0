------------------------------ MODULE WeakRefs ------------------------------
(***************************************************************************)
(* Zeroing weak references (src/runtime/beans_rt.c): a side table, open    *)
(* addressing with linear probing, maps a weakly referenced object to a    *)
(* control block that handles share.  A death zeroes the block before the  *)
(* deinit body runs; a read races the final release and must not revive    *)
(* the object.  Objects are never reused, so a block is named by its       *)
(* object.                                                                 *)
(***************************************************************************)
EXTENDS Naturals, FiniteSets

CONSTANTS
    Referents, None,
    Hash,       \* Referents -> Nat, the mixed address
    FirstCap,   \* 64 in the code
    MaxRefs,    \* bound on the counted references of one object
    MaxHandles  \* bound on its weak handles

VARIABLES
    strong,   \* strong references the program holds
    life,     \* "live", "dying" (count zero, not yet invalidated), "gone"
    handles,  \* weak handles, per object
    value,    \* ctrl->value is still set
    weak,     \* ctrl->weak; 0 before the block exists and after it is freed
    weak_entries, weak_cap \* the table, a function on 0..weak_cap-1

\* The table's size is a power of two from 64 on; what the proofs need of that
\* is that there is room for an empty slot.
ASSUME WeakConstants ==
    /\ Hash \in [Referents -> Nat] /\ None \notin Referents
    /\ FirstCap \in Nat /\ FirstCap >= 4

weakVars == <<strong, life, handles, value, weak, weak_entries, weak_cap>>

WeakInit ==
    /\ strong = [o \in Referents |-> 1] /\ life = [o \in Referents |-> "live"]
    /\ handles = [o \in Referents |-> 0] /\ value = [o \in Referents |-> FALSE]
    /\ weak = [o \in Referents |-> 0] /\ weak_entries = [s \in {} |-> None] /\ weak_cap = 0

Home(o, c) == Hash[o] % c

\* The first slot of the probe from o's home that is empty or holds o.
Probe(t, c, o) ==
    LET at(k) == (Home(o, c) + k) % c
        k == CHOOSE k \in 0..c-1 : /\ t[at(k)] \in {None, o}
                                   /\ \A j \in 0..k-1 : t[at(j)] \notin {None, o}
    IN  at(k)

Entered(t) == {t[s] : s \in DOMAIN t} \ {None}
Slots(c) == [s \in 0..c-1 |-> None]

Insert(t, c, o) == [t EXCEPT ![Probe(t, c, o)] = o]

\* weak_table_grow: entries move in slot order.
Grow(t, c, d) ==
    LET upto[n \in 0..c] ==
            IF n = 0 THEN Slots(d)
            ELSE IF t[n-1] = None THEN upto[n-1]
            ELSE Insert(upto[n-1], d, t[n-1])
    IN  upto[c]

\* weak_table_remove: clear the slot and re-place the rest of the cluster.
Cleared(t, at) == [t EXCEPT ![at] = None]
Replaced(was, c, s) ==
    IF ~was.going \/ was.t[s] = None THEN [t |-> was.t, going |-> FALSE]
    ELSE [t |-> Insert(Cleared(was.t, s), c, was.t[s]), going |-> TRUE]
WeakRemove(t, c, at) ==
    LET after[n \in 0..c-1] ==
            IF n = 0 THEN [t |-> Cleared(t, at), going |-> TRUE]
            ELSE Replaced(after[n-1], c, (at + n) % c)
    IN  after[c-1].t

\* beans_object_weak_new: find or create the block, growing first when the
\* table is three quarters full, and take a hold for the new handle.
WeakNew(o) ==
    /\ life[o] = "live" /\ strong[o] > 0 /\ handles[o] < MaxHandles
    /\ LET full == weak_cap = 0 \/ Cardinality(Entered(weak_entries)) * 4 >= weak_cap * 3
           c == IF ~full THEN weak_cap ELSE IF weak_cap = 0 THEN FirstCap ELSE weak_cap * 2
           t == IF full THEN Grow(weak_entries, weak_cap, c) ELSE weak_entries
           at == Probe(t, c, o)
       IN  /\ weak_cap' = c
           /\ weak_entries' = [t EXCEPT ![at] = o]
           /\ weak' = [weak EXCEPT ![o] = IF t[at] = o THEN @ + 1 ELSE 2]
           /\ value' = [value EXCEPT ![o] = TRUE]
    /\ handles' = [handles EXCEPT ![o] = @ + 1]
    /\ UNCHANGED <<strong, life>>

\* Mutant: the retain does not look at the count.
TryRetainAlways(o) == TRUE
TryRetain(o) == strong[o] > 0

\* beans_object_weak_get, one critical section of weak_mu.
WeakGet(o) ==
    /\ handles[o] > 0 /\ value[o] /\ TryRetain(o) /\ strong[o] < MaxRefs
    /\ strong' = [strong EXCEPT ![o] = @ + 1]
    /\ UNCHANGED <<life, handles, value, weak, weak_entries, weak_cap>>

\* A strong reference is released; the last one starts the death.
Release(o) ==
    /\ strong[o] > 0
    /\ strong' = [strong EXCEPT ![o] = @ - 1]
    /\ life' = [life EXCEPT ![o] = IF strong[o] = 1 THEN "dying" ELSE @]
    /\ UNCHANGED <<handles, value, weak, weak_entries, weak_cap>>

Zeroed(o) == [value EXCEPT ![o] = FALSE]

\* rt_weak_invalidate, before the deinit body and the free.
Invalidate(o) ==
    /\ life[o] = "dying"
    /\ life' = [life EXCEPT ![o] = "gone"]
    /\ IF weak_cap # 0 /\ weak_entries[Probe(weak_entries, weak_cap, o)] = o
       THEN /\ weak_entries' = WeakRemove(weak_entries, weak_cap, Probe(weak_entries, weak_cap, o))
            /\ value' = Zeroed(o)
            /\ weak' = [weak EXCEPT ![o] = @ - 1]
       ELSE UNCHANGED <<weak_entries, value, weak>>
    /\ UNCHANGED <<strong, handles, weak_cap>>

\* shared_shell_drop on a weak handle; the last hold frees the block.
DropHandle(o) ==
    /\ handles[o] > 0
    /\ handles' = [handles EXCEPT ![o] = @ - 1]
    /\ weak' = [weak EXCEPT ![o] = @ - 1]
    /\ UNCHANGED <<strong, life, value, weak_entries, weak_cap>>

WeakNext == \E o \in Referents : \/ WeakNew(o) \/ WeakGet(o) \/ Release(o)
                                \/ Invalidate(o) \/ DropHandle(o)

WeakSpec == WeakInit /\ [][WeakNext]_weakVars

----------------------------------------------------------------------------
\* The probe finds every entry, whatever was removed, re-placed or rehashed
\* before, and no object has two.
EveryEntryFound ==
    \A o \in Entered(weak_entries) :
        /\ weak_entries[Probe(weak_entries, weak_cap, o)] = o
        /\ Cardinality({s \in DOMAIN weak_entries : weak_entries[s] = o}) = 1

\* A handle to a dead object reads "gone": its block was zeroed before the
\* object's memory went, so no read can reach freed memory.
DeadReadsGone == \A o \in Referents : life[o] = "gone" => ~value[o] /\ o \notin Entered(weak_entries)

\* A block outlives every handle and the table's own hold, and not longer.
BlockHoldsExact ==
    \A o \in Referents :
        weak[o] = handles[o] + (IF o \in Entered(weak_entries) THEN 1 ELSE 0)

\* The weak table finds every weakly referenced object across growth and
\* removal, handles of dead objects read as gone, and blocks live as long as
\* their handles (weak_slot_for, weak_table_remove).
WeakTableExact == EveryEntryFound /\ DeadReadsGone /\ BlockHoldsExact

StaysGone == \A o \in Referents : life[o] # "live" => strong'[o] = 0

\* A read never revives an object whose last reference was released.
NoResurrection == [][StaysGone]_weakVars

\* The weak table is exact and no read revives an object whose count reached
\* zero (weak_slot_for, weak_table_remove, rt_try_retain).
WeakExact == []WeakTableExact /\ NoResurrection
=============================================================================
