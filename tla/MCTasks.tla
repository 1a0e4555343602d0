------------------------------ MODULE MCTasks -------------------------------
(* Who waits for whom: the liveness of the fiber scheduler and of channels
   and gates, task groups and thread joins. One behaviour follows one of the
   parts; the others keep their variables at 0, and the thread is not spawned. *)
EXTENDS ThreadJoin, TaskGroup

CONSTANTS Fibers, Root, Interpreted, None, MaxDepth, FiberSet, ThreadSet,
          Values, Cap, Kinds, MaxCalls, MaxTries

VARIABLES
    sel,  \* the part this behaviour is about
    state, pending_wake, cancel_flag, cancel_mask, unwind_status,
    contained_depth, status, fjoiner, owner, forgotten, at, target, pool, all,
    live, ready, inbox, current, settling, disposition, phase, rpc, rtarget,
    fasked, ops, resumes,
    kind, q, head, count, closed, send_line, recv_line, cpc, op, val,
    signalled, ctoken, sent, received, calls, tries, cstrays

partsVars == <<sel, vars, groupVars, state, pending_wake, cancel_flag, cancel_mask, unwind_status,
              contained_depth, status, fjoiner, owner, forgotten, at, target,
              pool, all, live, ready, inbox, current, settling, disposition,
              phase, rpc, rtarget, fasked, ops, resumes,
              kind, q, head, count, closed, send_line, recv_line, cpc, op,
              val, signalled, ctoken, sent, received, calls, tries, cstrays>>

\* Fibers are interchangeable in Channel, and joiners in ThreadJoin: a leads-to about one of them says it of all.
CONSTANTS f1, f2, t1, j1, j2

Fiber == INSTANCE FiberCore WITH joiner <- fjoiner, asked <- fasked, Threads <- {},
                                 MaxResumes <- 0, MaxOps <- 2
Chan == INSTANCE Channel WITH pc <- cpc, token <- ctoken, strays <- cstrays

\* The thread, and the group, of a part that is not selected.
Unspawned == Init /\ ~promoted
NoGroup == GroupInit

PartsInit ==
    \/ /\ sel = "fiber" /\ Fiber!Init /\ Unspawned /\ NoGroup
       /\ kind = 0 /\ q = 0 /\ head = 0 /\ count = 0 /\ closed = 0
       /\ send_line = 0 /\ recv_line = 0 /\ cpc = 0 /\ op = 0 /\ val = 0
       /\ signalled = 0 /\ ctoken = 0 /\ sent = 0 /\ received = 0
       /\ calls = 0 /\ tries = 0 /\ cstrays = 0
    \/ /\ sel = "chan" /\ Chan!Init /\ Unspawned /\ NoGroup
       /\ state = 0 /\ pending_wake = 0 /\ cancel_mask = 0
       /\ unwind_status = 0 /\ contained_depth = 0 /\ status = 0
       /\ fjoiner = 0 /\ owner = 0 /\ forgotten = 0 /\ at = 0
       /\ target = 0 /\ pool = 0 /\ all = 0 /\ live = 0 /\ ready = 0
       /\ inbox = 0 /\ current = 0 /\ settling = 0 /\ disposition = 0
       /\ phase = 0 /\ rpc = 0 /\ rtarget = 0 /\ fasked = 0 /\ ops = 0
       /\ resumes = 0
    \/ /\ sel = "group" /\ GroupInit /\ Unspawned
       /\ state = 0 /\ pending_wake = 0 /\ cancel_flag = 0
       /\ cancel_mask = 0 /\ unwind_status = 0 /\ contained_depth = 0
       /\ status = 0 /\ fjoiner = 0 /\ owner = 0 /\ forgotten = 0
       /\ at = 0 /\ target = 0 /\ pool = 0 /\ all = 0 /\ live = 0
       /\ ready = 0 /\ inbox = 0 /\ current = 0 /\ settling = 0
       /\ disposition = 0 /\ phase = 0 /\ rpc = 0 /\ rtarget = 0
       /\ fasked = 0 /\ ops = 0 /\ resumes = 0 /\ kind = 0 /\ q = 0
       /\ head = 0 /\ count = 0 /\ closed = 0 /\ send_line = 0
       /\ recv_line = 0 /\ cpc = 0 /\ op = 0 /\ val = 0 /\ signalled = 0
       /\ ctoken = 0 /\ sent = 0 /\ received = 0 /\ calls = 0
       /\ tries = 0 /\ cstrays = 0
    \/ /\ sel = "join" /\ Init /\ NoGroup
       /\ state = 0 /\ pending_wake = 0 /\ cancel_flag = 0
       /\ cancel_mask = 0 /\ unwind_status = 0 /\ contained_depth = 0
       /\ status = 0 /\ fjoiner = 0 /\ owner = 0 /\ forgotten = 0
       /\ at = 0 /\ target = 0 /\ pool = 0 /\ all = 0 /\ live = 0
       /\ ready = 0 /\ inbox = 0 /\ current = 0 /\ settling = 0
       /\ disposition = 0 /\ phase = 0 /\ rpc = 0 /\ rtarget = 0
       /\ fasked = 0 /\ ops = 0 /\ resumes = 0 /\ kind = 0 /\ q = 0
       /\ head = 0 /\ count = 0 /\ closed = 0 /\ send_line = 0
       /\ recv_line = 0 /\ cpc = 0 /\ op = 0 /\ val = 0 /\ signalled = 0
       /\ ctoken = 0 /\ sent = 0 /\ received = 0 /\ calls = 0
       /\ tries = 0 /\ cstrays = 0

FiberStep ==
    /\ sel = "fiber" /\ Fiber!Next
    /\ UNCHANGED <<sel, vars, groupVars, kind, q, head, count, closed,
                   send_line, recv_line, cpc, op, val, signalled, ctoken,
                   sent, received, calls, tries, cstrays>>
ChanStep ==
    /\ sel = "chan" /\ Chan!Next
    /\ UNCHANGED <<sel, vars, groupVars, state, pending_wake, cancel_mask,
                   unwind_status, contained_depth, status, fjoiner, owner,
                   forgotten, at, target, pool, all, live, ready, inbox,
                   current, settling, disposition, phase, rpc, rtarget,
                   fasked, ops, resumes>>
GroupStep ==
    /\ sel = "group" /\ GroupNext
    /\ UNCHANGED <<sel, vars, state, pending_wake, cancel_flag, cancel_mask,
                   unwind_status, contained_depth, status, fjoiner, owner,
                   forgotten, at, target, pool, all, live, ready, inbox,
                   current, settling, disposition, phase, rpc, rtarget,
                   fasked, ops, resumes, kind, q, head, count, closed,
                   send_line, recv_line, cpc, op, val, signalled, ctoken,
                   sent, received, calls, tries, cstrays>>
JoinPartStep ==
    /\ sel = "join" /\ Next
    /\ UNCHANGED <<sel, groupVars, state, pending_wake, cancel_flag,
                   cancel_mask, unwind_status, contained_depth, status,
                   fjoiner, owner, forgotten, at, target, pool, all, live,
                   ready, inbox, current, settling, disposition, phase, rpc,
                   rtarget, fasked, ops, resumes, kind, q, head, count,
                   closed, send_line, recv_line, cpc, op, val, signalled,
                   ctoken, sent, received, calls, tries, cstrays>>

PartsNext == FiberStep \/ ChanStep \/ GroupStep \/ JoinPartStep

fiberVars == Fiber!vars
chanVars == Chan!vars
\* The fairness of each part, as its own module states it.
PartsFairness ==
    /\ WF_fiberVars(sel = "fiber" /\ ((\E f \in Fibers : Fiber!FiberStep(f)) \/ Fiber!SchedulerStep))
    /\ WF_chanVars(sel = "chan" /\ Chan!Step(f1))
    /\ WF_chanVars(sel = "chan" /\ Chan!Step(f2))
    /\ WF_chanVars(sel = "chan" /\ Chan!Step(t1))
    /\ WF_groupVars(sel = "group" /\ OwnerTurn)
    /\ SF_groupVars(sel = "group" /\ \E k \in Kids : ChildEnd(k))
    /\ WF_vars(sel = "join" /\ ThreadStep)
    /\ WF_vars(sel = "join" /\ JoinStep(j1))
    /\ WF_vars(sel = "join" /\ JoinStep(j2))

PartsSpec == PartsInit /\ [][PartsNext]_partsVars /\ PartsFairness

\* FiberCore: A ready fiber gets to run: the queue is first in, first out,
\* and a foreign thread that won the CAS posts.
ReadyRuns == 
    \A f \in Fibers : (sel = "fiber" /\ state[f] = "READY")
      ~> (sel = "fiber" /\ (state[f] = "RUNNING" \/ phase = "exited"))

\* FiberCore: A parent in the join of a child that ended comes back with the
\* outcome.
FiberJoinReturns == 
    \A f \in Fibers : (sel = "fiber" /\ at[f] = "join" /\ state[target[f]] = "DONE")
      ~> (sel = "fiber" /\ (at[f] # "join" \/ phase = "exited"))

\* FiberCore: A cancelled fiber observes it: no sequence of parks, joins and
\* stray wakes lets it go on for ever with the cancellation pending.
CancelObserved == 
    \A f \in Fibers : (sel = "fiber" /\ Fiber!Observable(f))
      ~> (sel = "fiber" /\ (~Fiber!Observable(f) \/ state[f] = "DONE" \/ phase = "exited"))

\* Channel: A waiting receiver does not wait for ever beside a buffered
\* value.
ReceiverServed == 
    \A a \in {f1, t1} : (sel = "chan" /\ op[a] = "recv" /\ count # 0)
      ~> (sel = "chan" /\ (op[a] # "recv" \/ count = 0))

\* Channel: Every caller that waits when the channel closes, or the gate
\* opens, returns.
CloseReleases == 
    \A a \in {f1, t1} : (sel = "chan" /\ closed /\ op[a] # "none")
      ~> (sel = "chan" /\ op[a] = "none")

\* Channel: A cancelled fiber comes out of its wait.
CancelReleases == 
    (sel = "chan" /\ cancel_flag[f1] /\ op[f1] # "none")
      ~> (sel = "chan" /\ op[f1] = "none")

\* ThreadJoin: A join returns, or unwinds when it is cancelled.
JoinOfOneReturns == (sel = "join" /\ InJoin(j1)) ~> (sel = "join" /\ OutOfJoin(j1))

\* A fiber that is ready, that joins an ended child, that was cancelled, or
\* that waits at a channel with a value, closed or cancelled, goes on
\* (FiberCore, Channel).
ParkedCallsEnd == ReadyRuns /\ FiberJoinReturns /\ CancelObserved
    /\ ReceiverServed /\ CloseReleases /\ CancelReleases

\* The blocking calls of a group and the drain over try_next end: a group that
\* is not selected stays in its body, where neither has begun (TaskGroup).
GroupCallsEnd == OwnerReturns /\ DrainEndsUncancelled

\* A thread join ends, and a cancel that comes after the thread was done
\* does not cost the result (ThreadJoin).
JoinsEnd == JoinOfOneReturns /\ DoneBeatsCancel

=============================================================================
