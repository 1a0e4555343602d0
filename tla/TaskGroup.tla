----------------------------- MODULE TaskGroup -----------------------------
(***************************************************************************)
(* brew and TaskGroup (runtime/beans_rt.c): one owner fiber, the children  *)
(* it brews into a group, and every way an outcome leaves the group: next, *)
(* try_next, wait_all, cancel_all and the synthesized scope join, which    *)
(* the unwinder runs again when a panic or a cancellation interrupts it.   *)
(*                                                                         *)
(* All of it lives on one worker: a child, or the fiber that cancels the   *)
(* owner, runs only while the owner is switched away.                      *)
(***************************************************************************)
EXTENDS Integers, Sequences, FiniteSets, SequencesExt

CONSTANTS Kids,       \* the children the owner may brew
          NoKid,      \* the empty slot of a detached row
          MaxStrays   \* bound: wakes the owner gets from something else

ASSUME KidsAssumption ==
    /\ IsFiniteSet(Kids)
    /\ NoKid \notin Kids
    /\ MaxStrays \in Nat

VARIABLES
    st,         \* the owner fiber: "running", "ready" or "parked"
    opc,        \* where the owner's code stands
    otoken,     \* a wake is latched for the owner
    oflag,      \* cancellation of the owner was requested
    unwind,     \* "NONE", "PANICKED" or "CANCELLED"
    children,   \* the group's list of rows
    delivered, clock,
    waiter,     \* the owner is registered as the group's waiter
    joiner,     \* the child the owner is parked on in beans_fiber_join
    ending,     \* child -> "fresh", "running", "OK", "PANICKED", "CANCELLED"
    stamp, kidJoined, asked,
    outcome,    \* child -> where its outcome went
    got,        \* history: the children next and try_next handed out
    strays

ownerState == <<st, opc, otoken, oflag, unwind>>
groupState == <<children, delivered, clock, waiter>>
rowState == <<ending, stamp, kidJoined, asked, outcome>>
groupVars == <<ownerState, groupState, joiner, rowState, got, strays>>

Endings == {"OK", "PANICKED", "CANCELLED"}

\* Every variable has its type.
GroupTypeOK ==
    /\ st \in {"running", "ready", "parked"}
    /\ opc \in {"body", "next", "try", "drain", "draintry", "waitall", "cancel",
               "scope", "gone", "dead"}
    /\ otoken \in BOOLEAN /\ oflag \in BOOLEAN /\ waiter \in BOOLEAN
    /\ unwind \in {"NONE", "PANICKED", "CANCELLED"}
    /\ children \in Seq(Kids \union {NoKid})
    /\ delivered \in 0..Len(children)
    /\ clock \in 0..Cardinality(Kids)
    /\ joiner \in Kids \union {NoKid}
    /\ ending \in [Kids -> Endings \union {"fresh", "running"}]
    /\ stamp \in [Kids -> 0..clock]
    /\ kidJoined \in [Kids -> BOOLEAN]
    /\ asked \in [Kids -> BOOLEAN]
    /\ outcome \in [Kids -> {"none", "given", "discarded", "dropped", "escalated"}]
    /\ got \in Seq(Kids)
    /\ strays \in 0..MaxStrays

GroupInit ==
    /\ st = "running" /\ opc = "body" /\ otoken = FALSE /\ oflag = FALSE
    /\ unwind = "NONE"
    /\ children = <<>> /\ delivered = 0 /\ clock = 0 /\ waiter = FALSE
    /\ joiner = NoKid
    /\ ending = [k \in Kids |-> "fresh"]
    /\ stamp = [k \in Kids |-> 0]
    /\ kidJoined = [k \in Kids |-> FALSE]
    /\ asked = [k \in Kids |-> FALSE]
    /\ outcome = [k \in Kids |-> "none"]
    /\ got = <<>>
    /\ strays = 0

-----------------------------------------------------------------------------
(* The rows of the group.                                                  *)

Rows == Range(children) \ {NoKid}
Done == {k \in Rows : stamp[k] # 0}

\* taskgroup_pick_done: the smallest completion stamp.
PickDone == CHOOSE k \in Done : \A j \in Done : stamp[k] <= stamp[j]

\* taskgroup_detach, then the join of a row that is done.
RowDetach(k) ==
    LET cleared == [i \in DOMAIN children |-> IF children[i] = k THEN NoKid
                                                                 ELSE children[i]]
        drained == delivered + 1 = Len(children)
    IN  /\ children' = IF drained THEN <<>> ELSE cleared
        /\ delivered' = IF drained THEN 0 ELSE delivered + 1
        /\ kidJoined' = [kidJoined EXCEPT ![k] = TRUE]
        /\ outcome' = [outcome EXCEPT ![k] = "given"]
        /\ got' = Append(got, k)

\* The list is empty again and the group reusable.
Emptied == children' = <<>> /\ delivered' = 0

\* brew_drop_result and the release of the rows of K that still hold an outcome.
Drop(K, how) == outcome' = [k \in Kids |-> IF k \in K /\ outcome[k] = "none"
                                             THEN how ELSE outcome[k]]

\* beans_taskgroup_request_cancel: a joined row has no fiber to cancel.
Asked == [k \in Kids |-> asked[k] \/ (k \in Rows /\ ~kidJoined[k])]

-----------------------------------------------------------------------------
(* The owner's fiber: park, wake, unwind.                                  *)

Observable == oflag /\ unwind = "NONE"

\* The owner is in its code at p, or calls p's operation from the body.
In(p) == st = "running" /\ (opc = "body" \/ opc = p)

\* beans_fiber_exit_cancelled: the pad asks the children to stop before the
\* armed scope join parks.
ExitCancelled ==
    /\ st' = "running" /\ opc' = "scope" /\ unwind' = "CANCELLED"
    /\ asked' = Asked
    /\ waiter' = FALSE /\ joiner' = NoKid
    /\ UNCHANGED <<otoken, oflag, children, delivered, clock, ending, stamp,
                   kidJoined, outcome, got, strays>>

\* beans_fiber_park at p, with the wait registered as w (in the group) or j.
OwnerPark(p, w, j) ==
    \/ Observable /\ ExitCancelled
    \/ /\ ~Observable
       /\ opc' = p
       /\ IF otoken THEN otoken' = FALSE /\ UNCHANGED <<st, waiter, joiner>>
                    ELSE /\ st' = "parked" /\ waiter' = w /\ joiner' = j
                        /\ UNCHANGED otoken
       /\ UNCHANGED <<oflag, unwind, children, delivered, clock, rowState, got, strays>>

\* The worker dispatches the owner: back from a park, the wait is withdrawn.
\* A join looks at the child again before it lets the cancellation win.
OwnerDispatch ==
    /\ st = "ready"
    /\ \/ /\ Observable
          /\ opc \in {"next", "waitall"} \/ (joiner # NoKid /\ ending[joiner] \notin Endings)
          /\ ExitCancelled
       \/ /\ ~(Observable /\ opc \in {"next", "waitall"})
          /\ ~(Observable /\ joiner # NoKid /\ ending[joiner] \notin Endings)
          /\ st' = "running" /\ waiter' = FALSE /\ joiner' = NoKid
          /\ UNCHANGED <<opc, otoken, oflag, unwind, children, delivered, clock, rowState,
                         got, strays>>

\* The owner's own code switches away, or a park of its own is cancelled.
BodyYield ==
    /\ st = "running" /\ opc = "body"
    /\ \/ Observable /\ ExitCancelled
       \/ /\ ~Observable /\ st' = "ready"
          /\ UNCHANGED <<opc, otoken, oflag, unwind, groupState, joiner, rowState, got, strays>>

-----------------------------------------------------------------------------
(* The owner's operations.                                                 *)

\* beans_taskgroup_brew: brew_start, then taskgroup_adopt.
Brew(k) ==
    /\ st = "running" /\ opc = "body"
    /\ ending[k] = "fresh"
    /\ ending' = [ending EXCEPT ![k] = "running"]
    /\ children' = Append(children, k)
    /\ UNCHANGED <<ownerState, delivered, clock, waiter, joiner, stamp, kidJoined, asked,
                   outcome, got, strays>>

\* The call returns to the owner's body.
Return == opc' = "body" /\ UNCHANGED <<st, otoken, oflag, unwind>>

Deliver(k) == RowDetach(k) /\ UNCHANGED <<clock, waiter, joiner, ending, stamp, asked, strays>>

NextDeliver ==
    /\ In("next")
    /\ Done # {}
    /\ Deliver(PickDone) /\ Return

\* With no row left next answers NULL and changes nothing.
NextPark ==
    /\ In("next")
    /\ Done = {} /\ Rows # {}
    /\ OwnerPark("next", TRUE, NoKid)

\* beans_fiber_yield refuses to switch away from a cancelled fiber.
TryYield ==
    IF Observable THEN UNCHANGED <<st, opc>>
                  ELSE st' = "ready" /\ opc' = IF opc = "body" THEN "try" ELSE "draintry"

\* beans_taskgroup_try_next, called once or over and over until nothing is left.
TryNext ==
    /\ st = "running"
    /\ \/ opc \in {"body", "drain"} /\ Done # {} /\ Deliver(PickDone)
          /\ UNCHANGED ownerState
       \/ /\ opc \in {"body", "drain"} /\ Done = {} /\ Rows # {}
          /\ TryYield
          /\ UNCHANGED <<otoken, oflag, unwind, groupState, joiner, rowState, got, strays>>
       \/ /\ opc = "drain" /\ Rows = {} /\ Return
          /\ UNCHANGED <<groupState, joiner, rowState, got, strays>>

\* The second half of try_next, after the yield.
TryAgain ==
    /\ st = "running" /\ opc \in {"try", "draintry"}
    /\ opc' = IF opc = "try" THEN "body" ELSE "drain"
    /\ \/ Done # {} /\ Deliver(PickDone)
       \/ Done = {} /\ UNCHANGED <<groupState, joiner, rowState, got, strays>>
    /\ UNCHANGED <<st, otoken, oflag, unwind>>

StartDrain ==
    /\ st = "running" /\ opc = "body"
    /\ opc' = "drain"
    /\ UNCHANGED <<st, otoken, oflag, unwind, groupState, joiner, rowState, got, strays>>

WaitAllPark ==
    /\ In("waitall")
    /\ Rows # Done
    /\ OwnerPark("waitall", TRUE, NoKid)

\* The failing rows, and the first of them in spawn order.
Failed == {i \in DOMAIN children : children[i] \in Rows /\ ending[children[i]] # "OK"}

\* beans_taskgroup_wait_all_join with everyone done: collect, or hand back the
\* first failure and discard the rest.
WaitAllJoin ==
    /\ In("waitall")
    /\ Rows = Done
    /\ kidJoined' = [k \in Kids |-> kidJoined[k] \/ k \in Rows]
    /\ LET given == IF Failed = {} THEN Rows ELSE {children[Min(Failed)]}
       IN  outcome' = [k \in Kids |-> CASE k \in given -> "given"
                                        [] k \in Rows \ given -> "discarded"
                                        [] OTHER -> outcome[k]]
    /\ Emptied /\ Return
    /\ UNCHANGED <<clock, waiter, joiner, ending, stamp, asked, got, strays>>

\* The first row that still has to be joined.
Unjoined == {i \in DOMAIN children : children[i] \in Rows /\ ~kidJoined[children[i]]}
NextJoin == children[Min(Unjoined)]

JoinRow ==
    /\ kidJoined' = [kidJoined EXCEPT ![NextJoin] = TRUE]
    /\ UNCHANGED <<groupState, joiner, ending, stamp, asked, got, strays>>

\* beans_taskgroup_cancel_all: request, then join everyone in spawn order.
CancelAll ==
    /\ st = "running" /\ opc = "body"
    /\ asked' = Asked
    /\ opc' = "cancel"
    /\ UNCHANGED <<st, otoken, oflag, unwind, groupState, joiner, ending, stamp, kidJoined,
                   outcome, got, strays>>

\* beans_brew_join in cancel_all or in the scope join: the child still runs.
JoinPark ==
    /\ st = "running" /\ opc \in {"cancel", "scope"}
    /\ Unjoined # {}
    /\ ending[NextJoin] \notin Endings
    /\ OwnerPark(opc, FALSE, NextJoin)

CancelJoin ==
    /\ st = "running" /\ opc = "cancel"
    /\ Unjoined # {}
    /\ ending[NextJoin] \in Endings
    /\ JoinRow /\ UNCHANGED <<ownerState, outcome>>

CancelDrop ==
    /\ st = "running" /\ opc = "cancel"
    /\ Unjoined = {}
    /\ Drop(Rows, "discarded") /\ Emptied /\ Return
    /\ UNCHANGED <<clock, waiter, joiner, ending, stamp, kidJoined, asked, got, strays>>

-----------------------------------------------------------------------------
(* Scope exit.                                                             *)

\* The body returns or panics; only a cancellation asks the children to stop.
ScopeExit ==
    /\ st = "running" /\ opc = "body"
    /\ opc' = "scope"
    /\ unwind' \in {"NONE", "PANICKED"}
    /\ UNCHANGED <<st, otoken, oflag, groupState, joiner, rowState, got, strays>>

\* Mutant: the scope join is disarmed before it runs, so nothing retries it.
ScopePanicDisarmed ==
    /\ opc' = IF unwind = "NONE" THEN "gone" ELSE "dead"
    /\ unwind' = "PANICKED"

\* beans_panic out of the scope join: a second panic ends the process, the
\* first unwinds to the frame's pad, whose armed scope join starts over.
ScopePanic ==
    /\ opc' = IF unwind = "NONE" THEN "scope" ELSE "dead"
    /\ unwind' = "PANICKED"

\* beans_taskgroup_scope_join joins the next row; a panic nobody saw escalates.
ScopeJoin ==
    /\ st = "running" /\ opc = "scope"
    /\ Unjoined # {}
    /\ ending[NextJoin] \in Endings
    /\ JoinRow
    /\ IF ending[NextJoin] = "PANICKED"
         THEN ScopePanic /\ outcome' = [outcome EXCEPT ![NextJoin] = "escalated"]
         ELSE UNCHANGED <<opc, unwind, outcome>>
    /\ UNCHANGED <<st, otoken, oflag>>

\* Everyone is joined: drop what is left and release the group.
ScopeDrop ==
    /\ st = "running" /\ opc = "scope"
    /\ Unjoined = {}
    /\ Drop(Rows, "dropped") /\ Emptied
    /\ opc' = "gone"
    /\ UNCHANGED <<st, otoken, oflag, unwind, clock, waiter, joiner, ending, stamp,
                   kidJoined, asked, got, strays>>

-----------------------------------------------------------------------------
(* The other fibers of the worker.                                         *)

Away == st # "running" /\ opc \notin {"gone", "dead"}

\* beans_fiber_resume(owner)
WakeOwner == IF st = "parked" THEN st' = "ready" /\ UNCHANGED otoken
                              ELSE otoken' = TRUE /\ UNCHANGED st

\* Mutant: the hook stamps the row but wakes nobody.
WakeAtEndJoinOnly(k) == IF joiner = k THEN WakeOwner ELSE UNCHANGED <<st, otoken>>

\* taskgroup_child_done, then the join's own wake.
WakeAtEnd(k) == IF waiter \/ joiner = k THEN WakeOwner ELSE UNCHANGED <<st, otoken>>

\* A child's fiber settles: it returned, panicked, or unwound a cancellation.
ChildEnd(k) ==
    /\ Away
    /\ ending[k] = "running"
    /\ ending' \in {[ending EXCEPT ![k] = e] : e \in
                       {"OK", "PANICKED"} \union (IF asked[k] THEN {"CANCELLED"} ELSE {})}
    /\ clock' = clock + 1
    /\ stamp' = [stamp EXCEPT ![k] = clock + 1]
    /\ WakeAtEnd(k)
    /\ waiter' = FALSE
    /\ UNCHANGED <<opc, oflag, unwind, children, delivered, joiner, kidJoined, asked,
                   outcome, got, strays>>

CancelOwner ==
    /\ Away
    /\ ~oflag
    /\ oflag' = TRUE
    /\ WakeOwner
    /\ UNCHANGED <<opc, unwind, groupState, joiner, rowState, got, strays>>

Stray ==
    /\ Away
    /\ strays < MaxStrays
    /\ strays' = strays + 1
    /\ WakeOwner
    /\ UNCHANGED <<opc, oflag, unwind, groupState, joiner, rowState, got>>

\* Steps the owner's code takes by itself once a call has begun.
OwnerStep == \/ OwnerDispatch \/ NextDeliver \/ NextPark
             \/ TryNext \/ TryAgain \/ WaitAllPark \/ WaitAllJoin \/ JoinPark
             \/ CancelJoin \/ CancelDrop \/ ScopeJoin \/ ScopeDrop

GroupNext ==
    \/ OwnerStep
    \/ BodyYield \/ StartDrain \/ CancelAll \/ ScopeExit
    \/ \E k \in Kids : Brew(k) \/ ChildEnd(k)
    \/ CancelOwner \/ Stray

GroupSpec == GroupInit /\ [][GroupNext]_groupVars

\* The owner's code runs on once a call has begun; a child that gets turn after
\* turn comes to an end.
OwnerTurn == (opc # "body" \/ st = "ready") /\ OwnerStep
GroupFairness ==
    /\ WF_groupVars(OwnerTurn)
    /\ SF_groupVars(\E k \in Kids : ChildEnd(k))
GroupFairSpec == GroupSpec /\ GroupFairness

-----------------------------------------------------------------------------
(* Properties.                                                             *)

\* next and try_next hand out outcomes in completion order, over the whole life
\* of the group.
CompletionOrder ==
    \A i, j \in DOMAIN got : i < j => stamp[got[i]] < stamp[got[j]]

\* The group never dies before a child that would still write into its row, and
\* every outcome was delivered, escalated or dropped by then.
GroupOutlivesChildren ==
    opc = "gone" => \A k \in Kids : ending[k] # "fresh" =>
                       ending[k] \in Endings /\ outcome[k] # "none"

\* The owner never sleeps over a child that already ended.
NotAsleepOverDone ==
    st = "parked" => /\ opc = "next" => Done = {}
                     /\ opc = "waitall" => Rows # Done
                     /\ opc \in {"cancel", "scope"} => ending[NextJoin] \notin Endings

\* A panic nobody looked at is never dropped by scope exit without a word: only
\* where a cancellation interrupted the cancel_all that had joined the child.
PanicNotSwallowed ==
    \A k \in Kids : ending[k] = "PANICKED" /\ outcome[k] = "dropped" =>
                       unwind = "CANCELLED" /\ asked[k]

\* Outcomes leave a group in completion order and each once, the group
\* outlives the children that write into it, its owner sleeps over none that
\* ended, and no panic disappears (beans_taskgroup_next,
\* beans_taskgroup_wait_all_join, beans_taskgroup_scope_join).
GroupKeepsChildren == GroupTypeOK /\ CompletionOrder /\ GroupOutlivesChildren
    /\ NotAsleepOverDone /\ PanicNotSwallowed

InCall  == opc \in {"next", "waitall", "cancel", "scope"}
OutOfIt == opc \notin {"next", "waitall", "cancel", "scope"}

\* Every blocking call of the owner comes back or unwinds, and scope exit ends.
OwnerReturns == InCall ~> OutOfIt

Draining == opc = "drain"
Drained  == opc = "body" \/ oflag

\* A loop over try_next drains the group while nobody cancels its fiber.
DrainEndsUncancelled == Draining ~> Drained
=============================================================================
