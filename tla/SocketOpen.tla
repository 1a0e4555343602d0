----------------------------- MODULE SocketOpen -----------------------------
(* Making sockets: connect, listen (with or without port sharing) and bind   *)
(* walk the addresses the resolver gave, one socket each, until one works.   *)
(* A connect waits on a fiber that may be cancelled in the middle, either by *)
(* unwinding the C frame or, for the interpreter, by a value net_wait        *)
(* returns.                                                                  *)
EXTENDS Integers, Sequences, FiniteSets

CONSTANTS Calls,     \* of "connect", "listen", "bind"
          Lists,     \* how many addresses the resolver may answer with
          Limit,     \* a connect's deadline in ticks; 0 is none
          FdNums     \* descriptor numbers

VARIABLES opening,   \* which call
          left,      \* addresses not tried yet
          open,      \* descriptors open now
          list,      \* the resolver's list is held
          pc,        \* "idle" "next" "try" "wait" "done" "unwound"
          fd,        \* the socket being tried, 0 for none
          flags,     \* "blocking" or "nonblocking", of fd
          last,      \* the error of the last address that failed
          spent,     \* ticks since the call began
          waited,    \* ticks of the wait for this address
          opened     \* [fd, err]

openVars == <<opening, left, open, list, pc, fd, flags, last, spent, waited, opened>>
Errors == {"refused", "limit", "in_use"}
NotOpened == [fd |-> 0, err |-> "none"]

OpenInit ==
    /\ opening \in Calls /\ left \in Lists
    /\ open = {} /\ list = FALSE /\ pc = "idle" /\ fd = 0 /\ flags = "blocking"
    /\ last = "none" /\ spent = 0 /\ waited = 0 /\ opened = NotOpened

\* net_lookup; a name that does not resolve ends the call at once.
Resolve ==
    /\ pc = "idle"
    /\ IF left = 0 THEN pc' = "done" /\ opened' = [fd |-> 0, err |-> "not_found"] /\ list' = list
       ELSE pc' = "next" /\ list' = TRUE /\ opened' = opened
    /\ UNCHANGED <<opening, left, open, fd, flags, last, spent, waited>>

StockError == IF opening = "connect" THEN "refused" ELSE "in_use"
\* The loop's head: no address left means the last error, or a stock one.
Exhausted ==
    /\ pc = "next" /\ left = 0
    /\ pc' = "done" /\ list' = FALSE
    /\ opened' = [fd |-> 0, err |-> IF last = "none" THEN StockError ELSE last]
    /\ UNCHANGED <<opening, left, open, fd, flags, last, spent, waited>>

\* net_socket: a failure goes on to the next address.
OpenSocket ==
    /\ pc = "next" /\ left > 0 /\ left' = left - 1
    /\ \/ \E n \in FdNums \ open :
             /\ fd' = n /\ open' = open \cup {n} /\ pc' = "try" /\ last' = last
             /\ flags' = IF opening = "connect" THEN "nonblocking" ELSE "blocking"
       \/ /\ pc' = "next" /\ last' = "limit" /\ UNCHANGED <<fd, open, flags>>
    /\ waited' = 0
    /\ UNCHANGED <<opening, list, spent, opened>>

\* The frame's cleanup, or the explicit close of listen and bind.
Dropped(n) == open \ {n}
NextAddress(e) ==
    /\ open' = Dropped(fd) /\ fd' = 0 /\ last' = e /\ pc' = "next"
    /\ UNCHANGED <<opening, left, list, flags, spent, waited, opened>>

\* A stream is handed back in the mode socket gave it.
GivenBack == "blocking"
OpenFinish ==
    /\ opened' = [fd |-> fd, err |-> "none"] /\ flags' = GivenBack
    /\ list' = FALSE /\ fd' = 0 /\ pc' = "done"
    /\ UNCHANGED <<opening, left, open, last, spent, waited>>

\* bind and listen, or a connect that is done or refused at once.
TryWorks == pc = "try" /\ OpenFinish
TryFails == pc = "try" /\ \E e \in Errors : NextAddress(e)
\* A connect in flight is waited for with the whole timeout.
TryWaits ==
    /\ pc = "try" /\ opening = "connect" /\ pc' = "wait"
    /\ UNCHANGED <<opening, left, open, list, fd, flags, last, spent, waited, opened>>

OpenTick ==
    /\ pc = "wait" /\ Limit > 0 /\ waited < Limit
    /\ waited' = waited + 1 /\ spent' = spent + 1
    /\ UNCHANGED <<opening, left, open, list, pc, fd, flags, last, opened>>
\* Writable: SO_ERROR says how it went.
WaitWorks == pc = "wait" /\ OpenFinish
WaitFails == pc = "wait" /\ NextAddress("refused")
OpenTimesOut == pc = "wait" /\ Limit > 0 /\ waited = Limit /\ NextAddress("timeout")

\* Cancelled in the interpreter: net_wait says so, and the walk stops.
OpenCancelled ==
    /\ pc = "wait"
    /\ open' = Dropped(fd) /\ fd' = 0 /\ list' = FALSE /\ pc' = "done"
    /\ opened' = [fd |-> 0, err |-> "cancelled"]
    /\ UNCHANGED <<opening, left, flags, last, spent, waited>>

\* Mutant of CleanedUp: what the frame owns is not released.
CleanedUpNot == open
\* Cancelled in native code: the frames are unwound and their cleanups run.
CleanedUp == open \ {fd}
Unwound ==
    /\ pc = "wait"
    /\ open' = CleanedUp /\ fd' = 0 /\ list' = FALSE /\ pc' = "unwound"
    /\ UNCHANGED <<opening, left, flags, last, spent, waited, opened>>

\* The program closes what it got and calls again.
Reopen ==
    /\ pc \in {"done", "unwound"}
    /\ open' = open \ {opened.fd}
    /\ opening' \in Calls /\ left' \in Lists
    /\ list' = FALSE /\ pc' = "idle" /\ fd' = 0 /\ flags' = "blocking"
    /\ last' = "none" /\ spent' = 0 /\ waited' = 0 /\ opened' = NotOpened

OpenNext ==
    \/ Resolve \/ Exhausted \/ OpenSocket \/ TryWorks \/ TryFails \/ TryWaits \/ OpenTick
    \/ WaitWorks \/ WaitFails \/ OpenTimesOut \/ OpenCancelled \/ Unwound \/ Reopen
OpenSpec == OpenInit /\ [][OpenNext]_openVars

----------------------------------------------------------------------------
\* When a call is over, by an answer or by unwinding, the descriptor it
\* returns is the only one it left open, and the resolver's list is freed.
LeavesNothing ==
    pc \in {"done", "unwound"} => /\ open = {opened.fd} \ {0} /\ ~list
\* A call never holds two sockets at once, so that a long list of addresses
\* cannot use up the descriptors.
OneAtATime == Cardinality(open) <= 1
\* The caller asked for a stream: it comes back blocking.
ComesBackBlocking == (pc = "done" /\ opened.fd # 0) => flags = "blocking"

\* Over every list of addresses, failures and a cancellation in the middle,
\* at most the socket that is returned stays open, and it blocks.
OpeningClean == LeavesNothing /\ OneAtATime /\ ComesBackBlocking
=============================================================================
