----------------------------- MODULE WakeToken -----------------------------
(***************************************************************************)
(* What beans_fiber.h promises of park and resume, without the scheduler:  *)
(* each fiber carries one wake token.  A resume unblocks a blocked fiber,  *)
(* or leaves the token with one that is not blocked; a park takes the      *)
(* token, or blocks, and it blocks only when there is none to take.        *)
(***************************************************************************)
CONSTANT Fibers

VARIABLES st,   \* fiber -> "ended", "ready", "run" or "blocked"
          owed  \* fiber -> the token is there

vars == <<st, owed>>

Init ==
    /\ \E r \in Fibers : st = [f \in Fibers |-> IF f = r THEN "run" ELSE "ended"]
    /\ owed = [f \in Fibers |-> FALSE]

\* A new life: no token is inherited.
Begin(f) ==
    /\ st[f] = "ended"
    /\ st' = [st EXCEPT ![f] = "ready"]
    /\ owed' = [owed EXCEPT ![f] = FALSE]

Run(f) ==
    /\ st[f] = "ready"
    /\ st' = [st EXCEPT ![f] = "run"]
    /\ UNCHANGED owed

Wake(f) ==
    \/ /\ st[f] = "blocked"
       /\ st' = [st EXCEPT ![f] = "ready"]
       /\ UNCHANGED owed
    \/ /\ st[f] \in {"ready", "run"}
       /\ owed' = [owed EXCEPT ![f] = TRUE]
       /\ UNCHANGED st

\* A park that takes the token: it returns at once, or goes round the run queue.
Take(f) ==
    /\ st[f] = "run"
    /\ owed[f]
    /\ owed' = [owed EXCEPT ![f] = FALSE]
    /\ st' \in {st, [st EXCEPT ![f] = "ready"]}

Block(f) ==
    /\ st[f] = "run"
    /\ ~owed[f]
    /\ st' = [st EXCEPT ![f] = "blocked"]
    /\ UNCHANGED owed

\* A yield keeps the token.
Yield(f) ==
    /\ st[f] = "run"
    /\ st' = [st EXCEPT ![f] = "ready"]
    /\ UNCHANGED owed

\* A fiber ends and, in the same step, wakes whoever waits for that.
End(f) ==
    /\ st[f] = "run"
    /\ \E W \in SUBSET (Fibers \ {f}) :
         /\ st' = [g \in Fibers |-> CASE g = f -> "ended"
                                      [] g \in W /\ st[g] = "blocked" -> "ready"
                                      [] OTHER -> st[g]]
         /\ owed' = [g \in Fibers |-> owed[g] \/ (g \in W /\ st[g] \in {"ready", "run"})]

Next == \E f \in Fibers :
    Begin(f) \/ Run(f) \/ Wake(f) \/ Take(f) \/ Block(f) \/ Yield(f) \/ End(f)

Spec == Init /\ [][Next]_vars
=============================================================================
