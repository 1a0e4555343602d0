--------------------------- MODULE CycleCollector ---------------------------
(***************************************************************************)
(* Reference counts and the trial-deletion cycle collector of              *)
(* src/runtime/beans_rt.c, as one mutator thread drives them: releases     *)
(* cascade, survivors are parked as possible roots, and a collection (the  *)
(* quiescent global one or the thread's own) marks gray, scans, and either *)
(* frees the white set or runs its deinit bodies first.                    *)
(*                                                                         *)
(* `work' is the C stack and the runtime's explicit stacks in one: its     *)
(* head runs next, and user code runs only when it is empty.  The two root *)
(* buffers are sets (their order only decides which candidates a bounded   *)
(* walk takes first), the thresholds that decide when a collection starts  *)
(* and whether it walks are a choice of the environment.                   *)
(***************************************************************************)
EXTENDS Integers, Sequences, FiniteSets, SequencesExt

CONSTANTS
    Nothing,    \* no object
    Obj,        \* objects; each may hold one reference to each other
    Fin,        \* the ones whose class declares deinit (RC_FIN)
    Budget,     \* CC_WORKER_WALK_BUDGET
    SelfTouch,  \* may a deinit body clear a reference back to its own object?
    MaxEdges,   \* bound on the references the program starts from
    MaxOps      \* bound on links, loads and publications

VARIABLES
    mem,     \* "live", "husk" (dead shell a root buffer still names), "freed"
    edges,   \* owned references between objects
    held,    \* objects a local variable of the program references
    rc,      \* RC_COUNT
    fin,     \* objects with RC_FIN set
    ran,     \* deinit bodies run, per object
    color, buf, shared,
    groots, lroots, \* cc_roots and this thread's cc_worker_roots
    batching,       \* cc_worker_root_batching
    work, st, aux,  \* runtime stacks
    walk,    \* roots of the walk in progress
    local,   \* the walk is cc_worker_collect's
    saw,     \* saw_shared
    dead,    \* the white set, in the order it was found
    met,     \* history: a walk met a candidate that was not one of its roots
    ops

vars == <<mem, edges, held, rc, fin, ran, color, buf, shared, groots, lroots,
          batching, work, st, aux, walk, local, saw, dead, met, ops>>
heap == <<edges, held, ops, batching, shared>>
roots == <<buf, groots, lroots>>
pass == <<st, aux, walk, local, saw, dead>>

InTo(o) == {p \in Obj : o \in edges[p]}

\* Everything reachable from the objects in S.
Reach(S) ==
    LET step[n \in 0..Cardinality(Obj)] ==
            IF n = 0 THEN S
            ELSE step[n-1] \cup UNION {edges[p] : p \in step[n-1]}
    IN  step[Cardinality(Obj)]

\* The element a stack hands out next.  Every labelling of a graph is an
\* initial state, so a fixed choice still meets every order.
Pop(S) == CHOOSE o \in S : TRUE

Item(op, o, nrc) == [op |-> op, obj |-> o, nrc |-> nrc]
Releases(q) == [i \in DOMAIN q |-> Item("release", q[i], 0)]

Init ==
    /\ edges \in [Obj -> SUBSET Obj] /\ held = Obj
    /\ Cardinality({e \in Obj \X Obj : e[2] \in edges[e[1]]}) <= MaxEdges
    /\ rc = [o \in Obj |-> 1 + Cardinality(InTo(o))]
    /\ mem = [o \in Obj |-> "live"] /\ fin = Fin /\ ran = [o \in Obj |-> 0]
    /\ color = [o \in Obj |-> "black"] /\ buf = {} /\ shared = {}
    /\ groots = {} /\ lroots = {} /\ batching \in BOOLEAN
    /\ work = <<>> /\ st = {} /\ aux = {} /\ walk = {} /\ dead = <<>>
    /\ local = FALSE /\ saw = FALSE /\ met = FALSE /\ ops = 0

(***************************************************************************)
(* The program.                                                            *)
(***************************************************************************)
Idle == work = <<>>
Spend == ops < MaxOps /\ ops' = ops + 1

SharedGraph(o) == Reach({o})

\* p.field = c, with the publication barrier of a shared owner.
Link(p, c) ==
    /\ Idle /\ Spend /\ {p, c} \subseteq held /\ c \notin edges[p]
    /\ edges' = [edges EXCEPT ![p] = @ \cup {c}]
    /\ rc' = [rc EXCEPT ![c] = @ + 1]
    /\ shared' = IF p \in shared THEN shared \cup SharedGraph(c) ELSE shared
    /\ UNCHANGED <<mem, held, fin, ran, color, buf, groots, lroots, batching,
                   work, pass, met>>

Load(p, c) ==
    /\ Idle /\ Spend /\ p \in held /\ c \in edges[p] \ held
    /\ held' = held \cup {c}
    /\ rc' = [rc EXCEPT ![c] = @ + 1]
    /\ UNCHANGED <<mem, edges, fin, ran, color, buf, shared, groots, lroots,
                   batching, work, pass, met>>

\* The object is captured by a thread or stored where one can read it.
Publish(o) ==
    /\ Idle /\ Spend /\ o \in held \ shared
    /\ shared' = shared \cup SharedGraph(o)
    /\ UNCHANGED <<mem, edges, held, rc, fin, ran, color, buf, groots, lroots,
                   batching, work, pass, met>>

Drop(o) ==
    /\ Idle /\ o \in held
    /\ held' = held \ {o}
    /\ work' = <<Item("release", o, 0)>>
    /\ UNCHANGED <<mem, edges, rc, fin, ran, color, roots, shared, batching,
                   pass, met, ops>>

Unlink(p, c) ==
    /\ Idle /\ p \in held /\ c \in edges[p]
    /\ edges' = [edges EXCEPT ![p] = @ \ {c}]
    /\ work' = <<Item("release", c, 0)>>
    /\ UNCHANGED <<mem, held, rc, fin, ran, color, roots, shared, batching,
                   pass, met, ops>>

(***************************************************************************)
(* beans_release and the death it may start.                               *)
(***************************************************************************)
Running(op) == work # <<>> /\ Head(work).op = op
Rest == Tail(work)

\* cc_possible_root for a set of objects: those not yet parked enter the
\* owner's buffer, or the global one when another thread may reach them.
Park(S) ==
    LET mine == {o \in S \ buf : batching /\ o \notin shared}
    IN  /\ color' = [o \in Obj |-> IF o \in S THEN "purple" ELSE color[o]]
        /\ buf' = buf \cup S
        /\ lroots' = lroots \cup mine
        /\ groots' = groots \cup ((S \ buf) \ mine)

Shell(o) == IF o \in buf THEN "husk" ELSE "freed"

\* rt_finish_death: the children join the cascade, the shell goes back or
\* stays as a husk for the buffer that names it.
FinishDeath(o) ==
    /\ work' = Releases(SetToSeq(edges[o])) \o Rest
    /\ edges' = [edges EXCEPT ![o] = {}]
    /\ mem' = [mem EXCEPT ![o] = Shell(o)]
    /\ color' = [color EXCEPT ![o] = "black"]

FinCleared(o) == fin \ {o}

\* A deinit body: user code that may clear one field of its own object or,
\* when SelfTouch, a neighbour's reference back to it.
Body(o, after) ==
    \E p \in {o} \cup (IF SelfTouch THEN edges[o] ELSE {}) :
    \E c \in {Nothing} \cup (IF p = o THEN edges[o] \ {o} ELSE edges[p] \cap {o}) :
        /\ edges' = [edges EXCEPT ![p] = @ \ {c}]
        /\ work' = (IF c = Nothing THEN <<>> ELSE <<Item("release", c, 0)>>)
                   \o <<after>> \o Rest
        /\ fin' = FinCleared(o)
        /\ ran' = [ran EXCEPT ![o] = @ + 1]

Release ==
    /\ Running("release")
    /\ LET o == Head(work).obj IN
       \/ /\ rc[o] > 1
          /\ rc' = [rc EXCEPT ![o] = @ - 1]
          /\ Park({o}) /\ work' = Rest
          /\ UNCHANGED <<mem, edges, fin, ran>>
       \/ /\ rc[o] = 1 /\ o \notin fin
          /\ rc' = [rc EXCEPT ![o] = 0]
          /\ FinishDeath(o)
          /\ UNCHANGED <<roots, fin, ran>>
       \/ /\ rc[o] = 1 /\ o \in fin
          /\ rc' = [rc EXCEPT ![o] = 1]   \* the body runs at nrc + 1
          /\ Body(o, Item("end", o, 0))
          /\ UNCHANGED <<mem, color, roots>>
    /\ UNCHANGED <<held, shared, batching, pass, met, ops>>

\* The body of a dying object has returned: beans_do_deinit puts the count
\* back and the death goes on.
DeinitEnd ==
    /\ Running("end")
    /\ rc' = [rc EXCEPT ![Head(work).obj] = Head(work).nrc]
    /\ FinishDeath(Head(work).obj)
    /\ UNCHANGED <<held, fin, ran, roots, shared, batching, pass, met, ops>>

(***************************************************************************)
(* A collection: cc_collect, or cc_worker_collect for the thread's own     *)
(* candidates, where shared objects are a boundary.                        *)
(***************************************************************************)
Mine(S) == IF local THEN S \ shared ELSE S

Candidate(o) == color[o] = "purple" /\ rc[o] > 0

Unparked(S) == buf \ S

\* The filter: dead shells go, live purple candidates stay, the rest leave
\* the buffer; then the walk starts, if the thresholds say so.
Collect(l) ==
    /\ Idle /\ (l => batching)
    /\ LET B == IF l THEN lroots ELSE groots
           give == IF l THEN B \cap shared ELSE {}
           keep == {o \in B \ give : Candidate(o)}
           out == (B \ give) \ keep
       IN /\ B # {}
          /\ buf' = Unparked(out)
          /\ mem' = [o \in Obj |-> IF o \in out /\ rc[o] = 0 THEN "freed" ELSE mem[o]]
          /\ lroots' = IF l THEN keep ELSE lroots
          /\ groots' = IF l THEN groots \cup give ELSE keep
          /\ \/ walk' = {} /\ st' = {} /\ work' = <<>>
             \/ /\ keep # {} /\ walk' \in SUBSET keep /\ st' = walk'
                /\ IF l /\ Cardinality(keep) > Budget
                   THEN Cardinality(walk') = Budget ELSE walk' = keep
                /\ work' = <<Item("gray", Nothing, 0)>>
    /\ local' = l /\ saw' = FALSE /\ aux' = {} /\ dead' = <<>>
    /\ UNCHANGED <<edges, held, rc, fin, ran, color, shared, batching, met, ops>>

\* Mutant: an object reached twice is decremented through twice.
AlreadyGrayNever(p) == FALSE /\ p \in st
AlreadyGray(p) == color[p] = "gray"

\* cc_mark_gray: one trial decrement per internal edge.
Gray ==
    /\ Running("gray") /\ st # {}
    /\ LET p == Pop(st) IN
       /\ IF AlreadyGray(p)
          THEN st' = st \ {p} /\ UNCHANGED <<color, rc, saw>>
          ELSE /\ color' = [color EXCEPT ![p] = "gray"]
               /\ rc' = [o \in Obj |-> IF o \in Mine(edges[p]) THEN rc[o] - 1 ELSE rc[o]]
               /\ saw' = (saw \/ Mine(edges[p]) # edges[p])
               /\ st' = (st \ {p}) \cup Mine(edges[p])
    /\ UNCHANGED <<mem, heap, fin, ran, roots, work, aux, walk, local, dead, met>>

\* After marking: a local walk that met shared state is undone, any other
\* goes on to scan, the local one having cleared its roots' CC_BUF first.
GrayEnd ==
    /\ Running("gray") /\ st = {}
    /\ work' = <<Item(IF saw THEN "undo" ELSE "scan", Nothing, 0)>>
    /\ st' = walk
    /\ buf' = IF local /\ ~saw THEN buf \ walk ELSE buf
    /\ met' = (met \/ \E o \in buf \ walk : color[o] = "gray")
    /\ UNCHANGED <<mem, heap, fin, ran, rc, color, groots, lroots, aux, walk,
                   local, saw, dead>>

Restored(S) == {o \in S : color[o] # "black"}

\* cc_scan_black: undo the trial decrements of everything reached.
ScanBlack ==
    /\ Running("scan") \/ Running("undo")
    /\ aux # {}
    /\ LET p == Pop(aux) IN
       /\ LET C == Mine(edges[p]) IN
          /\ rc' = [o \in Obj |-> IF o \in C THEN rc[o] + 1 ELSE rc[o]]
          /\ color' = [o \in Obj |-> IF o \in C THEN "black" ELSE color[o]]
          /\ aux' = (aux \ {p}) \cup Restored(C)
    /\ UNCHANGED <<mem, heap, fin, ran, roots, work, st, walk, local, saw, dead, met>>

UndoRoot ==
    /\ Running("undo") /\ aux = {} /\ st # {}
    /\ LET r == Pop(st) IN
       /\ st' = st \ {r}
       /\ IF color[r] = "gray"
          THEN aux' = {r} /\ color' = [color EXCEPT ![r] = "black"]
          ELSE UNCHANGED <<aux, color>>
    /\ UNCHANGED <<mem, heap, fin, ran, rc, roots, work, walk, local, saw, dead, met>>

PurpleAgain == walk

\* The batch is handed to the global collector, purple again.
UndoEnd ==
    /\ Running("undo") /\ aux = {} /\ st = {}
    /\ color' = [o \in Obj |-> IF o \in PurpleAgain THEN "purple" ELSE color[o]]
    /\ groots' = groots \cup walk /\ lroots' = lroots \ walk
    /\ work' = <<>> /\ walk' = {}
    /\ UNCHANGED <<mem, heap, fin, ran, rc, buf, st, aux, local, saw, dead, met>>

ExternallyReferenced(p) == rc[p] > 0 \/ (local /\ p \in buf)

Scan ==
    /\ Running("scan") /\ aux = {} /\ st # {}
    /\ LET p == Pop(st) IN
       /\ \/ color[p] # "gray" /\ st' = st \ {p} /\ UNCHANGED <<color, aux>>
          \/ /\ color[p] = "gray" /\ ExternallyReferenced(p)
             /\ color' = [color EXCEPT ![p] = "black"]
             /\ aux' = {p} /\ st' = st \ {p}
          \/ /\ color[p] = "gray" /\ ~ExternallyReferenced(p)
             /\ color' = [color EXCEPT ![p] = "white"]
             /\ st' = (st \ {p}) \cup Mine(edges[p]) /\ UNCHANGED aux
    /\ UNCHANGED <<mem, heap, fin, ran, rc, roots, work, walk, local, saw, dead, met>>

ScanEnd ==
    /\ Running("scan") /\ aux = {} /\ st = {}
    /\ work' = <<Item("white", Nothing, 0)>> /\ aux' = walk
    /\ UNCHANGED <<mem, heap, fin, ran, rc, color, roots, st, walk, local, saw, dead, met>>

\* cc_collect_white, root by root; the global pass clears a root's CC_BUF
\* just before walking from it.
WhiteRoot ==
    /\ Running("white") /\ st = {} /\ aux # {}
    /\ LET r == Pop(aux) IN
       /\ aux' = aux \ {r} /\ st' = {r}
       /\ buf' = buf \ {r}
    /\ UNCHANGED <<mem, heap, fin, ran, rc, color, groots, lroots, work, walk,
                   local, saw, dead, met>>

CollectWhite ==
    /\ Running("white") /\ st # {}
    /\ LET p == Pop(st) IN
       /\ IF color[p] = "white" /\ p \notin buf
          THEN /\ color' = [color EXCEPT ![p] = "black"]
               /\ st' = (st \ {p}) \cup Mine(edges[p])
               /\ dead' = Append(dead, p)
          ELSE st' = st \ {p} /\ UNCHANGED <<color, dead>>
    /\ UNCHANGED <<mem, heap, fin, ran, rc, roots, work, aux, walk, local, saw, met>>

Dead == ToSet(dead)

Restore(o) == {p \in Dead : o \in Mine(edges[p])}

\* The walk is over.  With a deinit to run, the white set gets its counts
\* and one hold each back, then bodies, parking and the drops follow
\* (cc_run_cycle_deinits); without one the shells go (cc_free_cycle_shells).
Kill ==
    /\ Running("white") /\ st = {} /\ aux = {}
    /\ groots' = IF local THEN groots ELSE {}
    /\ lroots' = lroots \ (IF local THEN walk ELSE {})
    /\ walk' = {}
    /\ IF Dead \cap fin # {}
       THEN /\ rc' = [o \in Obj |-> rc[o] + Cardinality(Restore(o))
                                     + (IF o \in Dead THEN 1 ELSE 0)]
            /\ work' = [i \in DOMAIN dead |-> Item("body", dead[i], 0)]
                       \o <<Item("park", Nothing, 0)>> \o Releases(dead)
            /\ UNCHANGED <<mem, edges>>
       ELSE /\ mem' = [o \in Obj |-> IF o \in Dead THEN Shell(o) ELSE mem[o]]
            /\ edges' = [o \in Obj |-> IF o \in Dead THEN {} ELSE edges[o]]
            /\ work' = <<>> /\ UNCHANGED rc
    /\ UNCHANGED <<held, shared, batching, ops, fin, ran, color, buf, st, aux,
                   local, saw, dead, met>>

\* beans_do_deinit on a cycle member: the count it reads is put back after
\* the body, whatever the body did to it.
CycleBody ==
    /\ Running("body")
    /\ LET o == Head(work).obj IN
       IF o \in fin
       THEN /\ rc' = [rc EXCEPT ![o] = @ + 1]
            /\ Body(o, Item("ret", o, rc[o]))
       ELSE work' = Rest /\ UNCHANGED <<rc, edges, fin, ran>>
    /\ UNCHANGED <<mem, held, color, roots, shared, batching, pass, met, ops>>

CycleBodyEnd ==
    /\ Running("ret")
    /\ rc' = [rc EXCEPT ![Head(work).obj] = Head(work).nrc]
    /\ work' = Rest
    /\ UNCHANGED <<mem, heap, fin, ran, color, roots, pass, met>>

ParkDead ==
    /\ Running("park")
    /\ Park(Dead) /\ work' = Rest
    /\ UNCHANGED <<mem, heap, rc, fin, ran, pass, met>>

Next ==
    \/ \E p, c \in Obj : Link(p, c) \/ Load(p, c) \/ Unlink(p, c)
    \/ \E o \in Obj : Publish(o) \/ Drop(o)
    \/ Release \/ DeinitEnd
    \/ \E l \in BOOLEAN : Collect(l)
    \/ Gray \/ ScanBlack \/ UndoRoot \/ Scan \/ WhiteRoot \/ CollectWhite
    \/ GrayEnd \/ UndoEnd \/ ScanEnd \/ Kill
    \/ CycleBody \/ CycleBodyEnd \/ ParkDead

Spec == Init /\ [][Next]_vars

----------------------------------------------------------------------------
Live == {o \in Obj : mem[o] = "live"}
Garbage == Live \ Reach(held)

\* Whenever user code runs, every live object's count is the number of local
\* variables and live fields that reference it: trial deletion, however it
\* ends (freed, restored, undone or interrupted by deinit bodies), gives back
\* exactly what it took, as long as every candidate a walk met was its own.
CountsExact ==
    Idle /\ ~met => \A o \in Live :
        rc[o] = Cardinality(InTo(o)) + (IF o \in held THEN 1 ELSE 0)

\* The program, the collector's stacks and the root buffers never name a
\* shell that was given back, and the program never reaches a dead one, with
\* the same exception.
NoDangling ==
    ~met =>
    /\ Reach(held) \subseteq Live
    /\ \A o \in st \cup aux \cup walk \cup groots \cup lroots : mem[o] # "freed"
    /\ \A i \in DOMAIN work : work[i].obj \in Obj => mem[work[i].obj] # "freed"

\* No collection, whichever buffers its candidates sit in, frees an object
\* the program still references: two root buffers never free "opposite halves
\* of one graph".
ReachableIsLive == Reach(held) \subseteq Live

\* CC_BUF says that exactly one buffer owns the shell.
BufHasOneOwner ==
    Idle => /\ buf = groots \cup lroots
            /\ groots \cap lroots = {}

\* A deinit body runs once per object, and no object that declares one
\* loses its shell without it, with the same exception.
DeinitOnce ==
    ~met =>
    \A o \in Obj : /\ ran[o] <= 1
                   /\ mem[o] # "live" /\ o \in Fin => ran[o] = 1

\* An edge out of a shared object leads to a shared object, so the
\* owner-local walk may stop at the first one it meets.
SharedIsClosed == Idle => \A o \in shared \cap Live : edges[o] \subseteq shared

\* With the same exception, every live object the program cannot reach is
\* reachable from a parked purple candidate: a later collection finds it.
NoLostGarbage ==
    Idle /\ ~met =>
        Garbage \subseteq Reach({r \in groots \cup lroots : color[r] = "purple"})

\* Between two steps of the program the counts are those of the graph,
\* nothing dangles, every dead cycle is still a candidate, and each deinit
\* body ran once (beans_release, cc_collect, cc_worker_collect).
CollectionExact == CountsExact /\ NoDangling /\ BufHasOneOwner /\ DeinitOnce
    /\ SharedIsClosed /\ NoLostGarbage
====
