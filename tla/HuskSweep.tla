----------------------------- MODULE HuskSweep -----------------------------
(***************************************************************************)
(* Threads that share one object and drop their references at once, and    *)
(* the husk sweep that runs beside them (beans_release, cc_append_roots,   *)
(* cc_sweep_husks and the worker roots of src/runtime/beans_rt.c).         *)
(*                                                                         *)
(* A release in a threaded process parks the object as a possible root     *)
(* before it decrements, so the object outlives its last decrement until a *)
(* sweep gives the shell back; a sweep and an owner-local trial walk keep  *)
(* out of each other's way through two flags.                              *)
(***************************************************************************)
EXTENDS Naturals, FiniteSets

CONSTANTS
    Threads,
    MaxWalks    \* bound on the owner-local walks that start

VARIABLES
    rc,       \* RC_COUNT of the object
    buf,      \* CC_BUF
    color,    \* "black" or "purple"
    mem,      \* "live", "husk" (dead, a buffer names it) or "freed"
    listed,   \* entries of cc_roots that name the object
    sweeping, walkers, \* cc_sweeping, cc_worker_walkers
    pc,       \* where each thread stands
    back,     \* where it goes on after a sweep
    walks

vars == <<rc, buf, color, mem, listed, sweeping, walkers, pc, back, walks>>
object == <<rc, buf, color, mem, listed>>
flags == <<sweeping, walkers, walks>>

Init ==
    /\ rc = Cardinality(Threads) /\ buf = FALSE /\ color = "black" /\ mem = "live"
    /\ listed = 0 /\ sweeping = FALSE /\ walkers = 0 /\ walks = 0
    /\ pc = [t \in Threads |-> "owner"] /\ back = [t \in Threads |-> "gone"]

Goto(t, to) == pc' = [pc EXCEPT ![t] = to]

(***************************************************************************)
(* beans_release on a shared object.                                       *)
(***************************************************************************)
Load(t) ==
    /\ pc[t] = "owner"
    /\ Goto(t, IF rc > 1 THEN "park" ELSE "dec")
    /\ UNCHANGED <<object, flags, back>>

AlreadyParked == buf

\* cc_possible_root_hot: the thread that sets CC_BUF appends the entry.
Park(t) ==
    /\ pc[t] = "park"
    /\ color' = "purple" /\ buf' = TRUE
    /\ Goto(t, IF AlreadyParked THEN "dec" ELSE "append")
    /\ UNCHANGED <<rc, mem, listed, flags, back>>

\* cc_append_roots; past the threshold it sweeps before it returns.
AppendRoots(t) ==
    /\ pc[t] = "append"
    /\ listed' = listed + 1
    /\ back' = [back EXCEPT ![t] = "dec"]
    /\ \E to \in {"dec", "sweep"} : Goto(t, to)
    /\ UNCHANGED <<rc, buf, color, mem, flags>>

Decrement(t) ==
    /\ pc[t] = "dec"
    /\ rc' = rc - 1
    /\ Goto(t, IF rc = 1 THEN "finish" ELSE "gone")
    /\ UNCHANGED <<buf, color, mem, listed, flags, back>>

\* rt_finish_death: blackening a parked shell is the last touch.
Finish(t) ==
    /\ pc[t] = "finish"
    /\ mem' = IF buf THEN "husk" ELSE "freed"
    /\ color' = "black"
    /\ Goto(t, "gone")
    /\ UNCHANGED <<rc, buf, listed, flags, back>>

(***************************************************************************)
(* cc_sweep_husks.                                                         *)
(***************************************************************************)
SweepBegin(t) ==
    /\ pc[t] = "sweep"
    /\ sweeping' = TRUE
    /\ Goto(t, IF sweeping THEN back[t] ELSE "sweep_check")
    /\ UNCHANGED <<object, walkers, walks, back>>

SweepCheck(t) ==
    /\ pc[t] = "sweep_check"
    /\ IF walkers # 0
       THEN sweeping' = FALSE /\ Goto(t, back[t])
       ELSE UNCHANGED sweeping /\ Goto(t, "sweep_free")
    /\ UNCHANGED <<object, walkers, walks, back>>

IsHusk == buf /\ color = "black" /\ rc = 0

SweepFree(t) ==
    /\ pc[t] = "sweep_free"
    /\ IF listed > 0 /\ IsHusk
       THEN mem' = "freed" /\ buf' = FALSE /\ listed' = listed - 1
       ELSE UNCHANGED <<mem, buf, listed>>
    /\ sweeping' = FALSE
    /\ Goto(t, back[t])
    /\ UNCHANGED <<rc, color, walkers, walks, back>>

(***************************************************************************)
(* The window cc_worker_collect opens around its trial walk.               *)
(***************************************************************************)
WalkBegin(t) ==
    /\ pc[t] = "gone" /\ walks < MaxWalks
    /\ walks' = walks + 1 /\ walkers' = walkers + 1
    /\ Goto(t, "walk_check")
    /\ UNCHANGED <<object, sweeping, back>>

\* Mutant: the walk does not look whether a sweep is under way.
SweepSeenNever == FALSE
SweepSeen == sweeping

WalkCheck(t) ==
    /\ pc[t] = "walk_check"
    /\ IF SweepSeen
       THEN walkers' = walkers - 1 /\ Goto(t, "gone")
       ELSE UNCHANGED walkers /\ Goto(t, "walking")
    /\ UNCHANGED <<object, sweeping, walks, back>>

\* The last walker out attempts the sweep the walks held off.
WalkEnd(t) ==
    /\ pc[t] = "walking"
    /\ walkers' = walkers - 1
    /\ back' = [back EXCEPT ![t] = "gone"]
    /\ Goto(t, IF walkers = 1 THEN "sweep" ELSE "gone")
    /\ UNCHANGED <<object, sweeping, walks>>

Next == \E t \in Threads :
    \/ Load(t) \/ Park(t) \/ AppendRoots(t) \/ Decrement(t) \/ Finish(t)
    \/ SweepBegin(t) \/ SweepCheck(t) \/ SweepFree(t)
    \/ WalkBegin(t) \/ WalkCheck(t) \/ WalkEnd(t)

Spec == Init /\ [][Next]_vars

----------------------------------------------------------------------------
\* No thread still on its way through a release finds the shell given back:
\* the last one to touch it is the one that blackens or frees it.
NoUseAfterFree ==
    \A t \in Threads :
        \/ pc[t] \in {"owner", "park", "append", "dec", "finish"}
        \/ back[t] = "dec" /\ pc[t] \in {"sweep", "sweep_check", "sweep_free"}
        => mem = "live"

\* A husk is named by exactly one entry of the root buffer and a freed shell
\* by none, so it is freed once and not forgotten.
OneEntryPerHusk ==
    /\ mem = "husk" => listed = 1 /\ buf
    /\ mem = "freed" => listed = 0

\* No owner-local walk is under way while a sweep frees shells the walk may
\* still have edges to.
WalkExcludesSweep ==
    ~\E t, u \in Threads : pc[t] = "walking" /\ pc[u] = "sweep_free"

\* No thread touches a shell that the sweep gave back, and no shell is
\* parked or freed twice (beans_release, cc_sweep_husks).
SweepSafe == NoUseAfterFree /\ OneEntryPerHusk /\ WalkExcludesSweep
====
