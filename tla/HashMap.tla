------------------------------ MODULE HashMap ------------------------------
(***************************************************************************)
(* The maps of the runtime (BMap, src/runtime/beans_rt.c): a flat array of *)
(* entries and, once it outgrows a linear scan, an open-addressed index of *)
(* positions with tombstones.  A Map moves its last entry into a removed   *)
(* one's place, an OrderedMap leaves a hole.                               *)
(*                                                                         *)
(* The map owns one reference per stored key and value; calls hand theirs  *)
(* over.  A clear releases entry by entry after it emptied the map, and a  *)
(* deinit that such a release runs may come back and insert (Reentrant).   *)
(***************************************************************************)
EXTENDS Naturals, FiniteSets, Sequences, SequencesExt

CONSTANTS
    Keys, Values,
    Pairs,            \* the entries the program stores
    Hash, Frag,       \* the low bits and the fragment of a key's hash
    LinearMax,        \* MAP_LINEAR_MAX
    FirstIcap,        \* slots of the smallest index
    FirstCap, Word,   \* entries of a new map; bits of a word of deadbits
    Kinds,            \* pairs: is the map ordered, are its values integers
    Reserves,         \* arguments of reserve
    Reentrant         \* deinits insert into the map being cleared

VARIABLES
    ordered, ints,    \* kind of map: ordered; values are plain integers
    ents,             \* data[0..used): entries, or Hole
    cap, words,       \* room in data; words of deadbits, 0 when there is none
    idx, tombs,       \* the index, <<>> when there is none; its tombstones
    it,               \* the iterator of one for loop
    clr,              \* the teardown of a clear
    ref,              \* what the map should hold, in insertion order
    kown, vown        \* references the map holds: handed in and not released

vars == <<ordered, ints, ents, cap, words, idx, tombs, it, clr, ref, kown, vown>>

Hole == [k |-> "hole", v |-> 0]
Nowhere == [on |-> FALSE, cursor |-> 0, stale |-> FALSE, seen |-> <<>>]
NoClear == [on |-> FALSE, next |-> 0, key |-> 0, old |-> <<>>]
Words(n) == (n + Word - 1) \div Word
Live == SelectSeq(ents, LAMBDA e : e # Hole)
len == Len(Live)
KeysOf(s) == {s[i].k : i \in DOMAIN s}

Init ==
    /\ \E kind \in Kinds : ordered = kind[1] /\ ints = kind[2]
    /\ ents = <<>> /\ cap = FirstCap /\ words = 0 /\ idx = <<>> /\ tombs = 0
    /\ it = Nowhere /\ clr = NoClear /\ ref = <<>>
    /\ kown = [k \in Keys |-> 0] /\ vown = [v \in Values |-> 0]

(***************************************************************************)
(* The index: slot s holds 0 (never used), 1 (tombstone) or position + 1   *)
(* of an entry, with the fragment of its hash.                             *)
(***************************************************************************)
Empty == [st |-> 0, frag |-> 0]
Tomb == [st |-> 1, frag |-> 0]
Word32(p, k) == [st |-> p + 1, frag |-> Frag[k]]
At(k, j, icap) == ((Hash[k] + j) % icap) + 1
First(P(_), n) == CHOOSE j \in 0..n : (j = n \/ P(j)) /\ \A i \in 0..(j - 1) : ~P(i)

\* slot_eq on a live entry, after the fragment matched.
Hit(slot, k) == slot.st >= 2 /\ slot.frag = Frag[k] /\ ents[slot.st - 1].k = k

\* map_find: the position (0 when absent) and the slot of the hit or of the
\* insertion: the first tombstone on the way, else the empty slot.
Scan(k) == First(LAMBDA i : ents[i + 1].k = k, Len(ents))
Stop(k) == First(LAMBDA j : idx[At(k, j, Len(idx))].st = 0 \/ Hit(idx[At(k, j, Len(idx))], k), Len(idx))
FirstTomb(k, n) == First(LAMBDA j : idx[At(k, j, Len(idx))].st = 1, n)
Probed(k, j) ==
    IF j < Len(idx) /\ idx[At(k, j, Len(idx))].st >= 2
    THEN [pos |-> idx[At(k, j, Len(idx))].st - 1, slot |-> At(k, j, Len(idx))]
    ELSE [pos |-> 0, slot |-> At(k, FirstTomb(k, j), Len(idx))]
Find(k) ==
    IF idx = <<>>
    THEN [pos |-> IF Scan(k) = Len(ents) THEN 0 ELSE Scan(k) + 1, slot |-> 0]
    ELSE Probed(k, Stop(k))

\* map_reindex_to: holes compacted, an index for `wanted` entries.
Doubled(c, n) == c * 2 ^ n
IdxCap(wanted) == Doubled(FirstIcap, CHOOSE n \in 0..6 :
    /\ wanted * 3 < Doubled(FirstIcap, n) * 2
    /\ \A i \in 0..(n - 1) : wanted * 3 >= Doubled(FirstIcap, i) * 2)
Placed(table, e, p) ==
    [table EXCEPT ![At(e.k, First(LAMBDA j : table[At(e.k, j, Len(table))].st = 0, Len(table)), Len(table))]
        = Word32(p, e.k)]
IndexOf(s, wanted) ==
    FoldLeftDomain(LAMBDA table, p : Placed(table, s[p], p), [i \in 1..IdxCap(wanted) |-> Empty], s)
ReindexTo(s, reserve) ==
    /\ ents' = SelectSeq(s, LAMBDA e : e # Hole)
    /\ words' = 0 /\ tombs' = 0
    /\ \E live \in {SelectSeq(s, LAMBDA e : e # Hole)} :
          idx' = IndexOf(live, IF Len(live) > reserve THEN Len(live) ELSE reserve)

\* map_bump_version, as the iterator under way sees it.
BumpVersion == it' = [it EXCEPT !.stale = it.on]
KeepVersion == UNCHANGED it

(***************************************************************************)
(* Storing.                                                                *)
(***************************************************************************)
\* Too full to place one more: tombstones count.
Crowded(used) == (used + tombs) * 3 >= Len(idx) * 2

WordsFor(n) == IF words > 0 THEN Words(n) ELSE 0

\* map_insert_miss(_typed): room, the entry, then the index.
InsertMiss(k, v, slot) ==
    /\ cap' = IF Len(ents) = cap THEN cap * 2 ELSE cap
    /\ BumpVersion
    /\ \E s \in {Append(ents, [k |-> k, v |-> v])} :
          IF IF idx = <<>> THEN len + 1 > LinearMax ELSE Crowded(Len(s))
          THEN ReindexTo(s, 0)
          ELSE /\ ents' = s
               /\ words' = WordsFor(cap')
               /\ IF idx = <<>> THEN UNCHANGED <<idx, tombs>>
                  ELSE /\ idx' = [idx EXCEPT ![slot] = Word32(Len(s), k)]
                       /\ tombs' = IF idx[slot].st = 1 THEN tombs - 1 ELSE tombs
    /\ ref' = Append(ref, [k |-> k, v |-> v])

Own(k, v) == kown' = [kown EXCEPT ![k] = @ + 1] /\ vown' = IF ints THEN vown ELSE [vown EXCEPT ![v] = @ + 1]
Replaced(old, v) == IF ints THEN vown ELSE [[vown EXCEPT ![v] = @ + 1] EXCEPT ![old] = @ - 1]
SetAt(s, p, v) == [s EXCEPT ![p].v = v]
RefAt(k) == CHOOSE i \in DOMAIN ref : ref[i].k = k

\* The program calls while no clear is under way, or from a deinit it runs.
Calls == ~clr.on \/ (Reentrant /\ ~ints /\ clr.key > 0)

\* beans_map_set: a hit drops the duplicate key, stores, and releases the old
\* value last.
SetHit(k, v, p) ==
    /\ ents' = SetAt(ents, p, v) /\ ref' = SetAt(ref, RefAt(k), v)
    /\ vown' = Replaced(ents[p].v, v)
    /\ KeepVersion /\ UNCHANGED <<cap, words, idx, tombs, kown>>

Set(k, v) ==
    /\ Calls
    /\ \E f \in {Find(k)} :
          \/ f.pos > 0 /\ SetHit(k, v, f.pos)
          \/ f.pos = 0 /\ InsertMiss(k, v, f.slot) /\ Own(k, v)
    /\ UNCHANGED <<ordered, ints, clr>>

\* beans_map_add: the value of a hit is added to, a miss stores the delta.
Add(k, d) ==
    /\ ~clr.on /\ ints
    /\ \E f \in {Find(k)} :
          \/ f.pos > 0 /\ SetHit(k, (ents[f.pos].v + d) % Cardinality(Values), f.pos)
          \/ f.pos = 0 /\ InsertMiss(k, d, f.slot) /\ Own(k, d)
    /\ UNCHANGED <<ordered, ints, clr>>

\* beans_map_insert: a hit declines, and releases what it was handed.
Insert(k, v) ==
    /\ ~clr.on
    /\ \E f \in {Find(k)} :
          /\ f.pos = 0
          /\ InsertMiss(k, v, f.slot) /\ Own(k, v)
    /\ UNCHANGED <<ordered, ints, clr>>

(***************************************************************************)
(* Removing.                                                               *)
(***************************************************************************)
\* The swapped entry's slot learns its new position.
Moved(table, last, p) ==
    [s \in DOMAIN table |-> IF table[s].st = last + 1 THEN [table[s] EXCEPT !.st = p + 1] ELSE table[s]]

\* Mutant: the slot of a removed entry becomes a never used one.
UnindexedEmpty(slot) == [idx EXCEPT ![slot] = Empty]
Unindexed(slot) == [idx EXCEPT ![slot] = Tomb]

\* map_unlink_entry: a small map closes up, a Map swaps, an OrderedMap leaves
\* a hole.
SwapRemoved(p) == IF p = Len(ents) THEN Front(ents) ELSE [Front(ents) EXCEPT ![p] = Last(ents)]
UnlinkSmall(p) ==
    /\ idx = <<>>
    /\ ents' = IF ordered THEN RemoveAt(ents, p) ELSE SwapRemoved(p)
    /\ UNCHANGED <<words, idx, tombs>>

Swaps == ~ordered
UnlinkSwap(p, slot) ==
    /\ idx # <<>> /\ Swaps
    /\ IF tombs + 1 > len - 1 THEN ReindexTo(SwapRemoved(p), 0)
       ELSE /\ ents' = SwapRemoved(p) /\ tombs' = tombs + 1
            /\ idx' = Moved(Unindexed(slot), Len(ents), p)
            /\ UNCHANGED words
UnlinkHole(p, slot) ==
    /\ idx # <<>> /\ ~Swaps
    /\ IF Len(ents) > (len - 1) * 2 THEN ReindexTo([ents EXCEPT ![p] = Hole], 0)
       ELSE /\ ents' = [ents EXCEPT ![p] = Hole] /\ tombs' = tombs + 1
            /\ idx' = Unindexed(slot)
            /\ words' = IF words > 0 THEN words ELSE Words(cap)

RemovalBumps == BumpVersion

\* beans_map_remove: version, unlink, then the key and the value.
MapRemove(k) ==
    /\ ~clr.on
    /\ \E f \in {Find(k)} :
          /\ f.pos > 0
          /\ UnlinkSmall(f.pos) \/ UnlinkSwap(f.pos, f.slot) \/ UnlinkHole(f.pos, f.slot)
          /\ vown' = IF ints THEN vown ELSE [vown EXCEPT ![ents[f.pos].v] = @ - 1]
    /\ RemovalBumps
    /\ ref' = SelectSeq(ref, LAMBDA e : e.k # k)
    /\ kown' = [kown EXCEPT ![k] = @ - 1]
    /\ UNCHANGED <<ordered, ints, cap, clr>>

\* beans_map_reserve: room for n entries, and an index sized for them.
Grown(n) == Doubled(cap, CHOOSE i \in 0..6 : Doubled(cap, i) >= n /\ \A j \in 0..(i - 1) : Doubled(cap, j) < n)
Reserve(n) ==
    /\ ~clr.on
    /\ BumpVersion
    /\ cap' = IF n > cap THEN Grown(n) ELSE cap
    /\ ReindexTo(ents, n)
    /\ UNCHANGED <<ordered, ints, clr, ref, kown, vown>>

\* beans_map_clone: the program goes on with the copy and drops the original.
Clone ==
    /\ ~clr.on /\ ents # <<>>
    /\ cap' = IF len > FirstCap THEN len ELSE FirstCap
    /\ IF len > LinearMax THEN ReindexTo(ents, 0)
       ELSE ents' = Live /\ words' = 0 /\ idx' = <<>> /\ tombs' = 0
    /\ it' = Nowhere
    /\ UNCHANGED <<ordered, ints, clr, ref, kown, vown>>

(***************************************************************************)
(* beans_map_clear empties the map, then releases the old entries from the *)
(* back, value before key, out of the same buffer.                         *)
(***************************************************************************)
Clear ==
    /\ ~clr.on
    /\ it' = [it EXCEPT !.stale = it.on /\ (it.stale \/ len # 0)]
    /\ ents' = <<>> /\ words' = 0 /\ idx' = <<>> /\ tombs' = 0 /\ ref' = <<>>
    /\ clr' = [on |-> Len(ents) > 0, next |-> Len(ents), key |-> 0, old |-> ents]
    /\ UNCHANGED <<ordered, ints, cap, kown, vown>>

\* data[i]: an entry that was inserted meanwhile, else the old one.
DataAt(i) == IF i <= Len(ents) THEN ents[i] ELSE clr.old[i]
Drop(f, x) == IF x \in DOMAIN f THEN [f EXCEPT ![x] = @ - 1] ELSE f

\* rt_map_clear_from: release the value of the next entry.
ClearFrom == clr.next > 0
ClearValue ==
    /\ clr.on /\ clr.key = 0
    /\ IF ClearFrom /\ clr.next > Len(ents)
       THEN /\ vown' = IF ints \/ clr.old[clr.next] = Hole THEN vown
                       ELSE Drop(vown, clr.old[clr.next].v)
            /\ clr' = [clr EXCEPT !.next = @ - 1, !.key = clr.next]
       ELSE /\ clr' = NoClear /\ UNCHANGED vown
    /\ UNCHANGED <<ordered, ints, ents, cap, words, idx, tombs, it, ref, kown>>

\* Then its key, also when the value's deinit panicked (rt_map_clear_unwound).
ClearKey ==
    /\ clr.on /\ clr.key > 0
    /\ kown' = Drop(kown, DataAt(clr.key).k)
    /\ clr' = [clr EXCEPT !.key = 0]
    /\ UNCHANGED <<ordered, ints, ents, cap, words, idx, tombs, it, ref, vown>>

(***************************************************************************)
(* for k, v in m.                                                          *)
(***************************************************************************)
IterBegin ==
    /\ ~clr.on /\ ~it.on
    /\ it' = [Nowhere EXCEPT !.on = TRUE]
    /\ UNCHANGED <<ordered, ints, ents, cap, words, idx, tombs, clr, ref, kown, vown>>

\* beans_map_iter_next: panics on another version, skips holes.
NextLive(c) == First(LAMBDA j : ents[c + j + 1] # Hole, Len(ents) - c) + c
IterNext ==
    /\ ~clr.on /\ it.on
    /\ IF it.stale \/ NextLive(it.cursor) = Len(ents) THEN it' = Nowhere
       ELSE it' = [it EXCEPT !.cursor = NextLive(it.cursor) + 1,
                             !.seen = Append(@, ents[NextLive(it.cursor) + 1].k)]
    /\ UNCHANGED <<ordered, ints, ents, cap, words, idx, tombs, clr, ref, kown, vown>>

Next ==
    \/ \E p \in Pairs : Set(p[1], p[2]) \/ Add(p[1], p[2]) \/ Insert(p[1], p[2])
    \/ \E k \in Keys : MapRemove(k)
    \/ \E n \in Reserves : Reserve(n)
    \/ Clone \/ Clear \/ ClearValue \/ ClearKey \/ IterBegin \/ IterNext

Spec == Init /\ [][Next]_vars

----------------------------------------------------------------------------
\* After any sequence of calls every key the map should hold is found, with
\* its value, every other key is not, and every probe meets an empty slot.
FindsWhatItHolds ==
    /\ \A k \in Keys : \E f \in {Find(k)} :
          IF f.pos = 0 THEN k \notin KeysOf(ref)
          ELSE \E i \in DOMAIN ref : ref[i] = ents[f.pos] /\ ref[i].k = k
    /\ idx # <<>> => \E s \in DOMAIN idx : idx[s].st = 0

\* An OrderedMap keeps insertion order through holes, growth and compaction.
OrderKept == ordered => Live = ref

\* A loop that is not stopped by a version panic sees each entry once: what
\* it has seen and what lies ahead of it is exactly what the map holds.
LoopSeesEachOnce ==
    it.on /\ ~it.stale =>
        LET ahead == [i \in 1..(Len(ents) - it.cursor) |-> ents[it.cursor + i]]
            rest == SelectSeq(ahead, LAMBDA e : e # Hole)
        IN /\ Range(it.seen) \union KeysOf(rest) = KeysOf(ref)
           /\ Len(it.seen) + Len(rest) = Len(ref)

\* The hole bitmap reaches every entry the array has room for.
HolesInBounds == /\ Len(ents) <= cap
                 /\ words > 0 => words * Word >= cap
                 /\ words = 0 => \A i \in DOMAIN ents : ents[i] # Hole

\* Outside a clear the map holds one reference for each key and each value it
\* stores, and none for anything else.
OwnsWhatItHolds ==
    ~clr.on => /\ \A k \in Keys : kown[k] = (IF k \in KeysOf(ref) THEN 1 ELSE 0)
               /\ ~ints => \A v \in Values : vown[v] = Cardinality({i \in DOMAIN ref : ref[i].v = v})

\* Index, holes and entries move together: a map finds and owns exactly what
\* was stored, in order where it promises one, and a loop that removes sees
\* each entry once (map_find, map_remove_found, beans_map_clear).
MapExact == FindsWhatItHolds /\ OrderKept /\ LoopSeesEachOnce /\ HolesInBounds
    /\ OwnsWhatItHolds
=============================================================================
