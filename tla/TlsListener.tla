---------------------------- MODULE TlsListener ----------------------------
(***************************************************************************)
(* The Network.framework listener of src/runtime/net/beans_net_tls.c: the  *)
(* framework runs callback blocks one at a time on the listener's serial   *)
(* queue, the program's thread accepts connections, waits for operations   *)
(* with a timeout, and frees streams and the listener, in any order.       *)
(* TlsListener and TlsStream are unique classes, so one program thread     *)
(* makes the calls; a call that waits is a state of `app'.                 *)
(*                                                                         *)
(* External: the framework dispatches a block only while its handler is    *)
(* set, and skips a queued block whose handler has been cleared since.     *)
(* The challenge block is a TLS option and no handler: a handshake that    *)
(* goes on asks for an identity, before it says how it ended, and what it  *)
(* has queued runs whatever is cleared or cancelled in the meantime.       *)
(***************************************************************************)
EXTENDS Integers, Sequences, FiniteSets, SequencesExt

CONSTANTS Conns, NoConn,
          MaxOps,         \* bound on the operations started
          MaxQueue        \* bound on the blocks waiting in the queue

VARIABLES
    q,          \* the serial queue: blocks not yet run
    block,      \* the block that runs, with its program counter, or <<>>
    nw_state, nw_closing, all, ready, \* the fields nw_mutex guards; all is nw_all
    listening,  \* the listener's handlers are set
    handler,    \* connections whose state handler is set
    conn,       \* per connection: "none", "offered", "live" or "freed"
    accepted,   \* streams handed to the program
    magic, nw_refs, destroyed,
    app,        \* where the program's thread is
    op, nops    \* per stream: its operation object; operations started

listenVars == <<q, block, nw_state, nw_closing, all, ready, listening, handler, conn,
                accepted, magic, nw_refs, destroyed, app, op, nops>>
guarded == <<nw_state, nw_closing, all, ready>>
objects == <<conn, accepted, magic, nw_refs, destroyed>>
operations == <<op, nops>>

NoOp == [refs |-> 0, done |-> FALSE, cb |-> FALSE, freed |-> FALSE, result |-> "none"]
\* beans_tls_nw_operation_new: one reference for the caller, one for the block.
NewOp == [refs |-> 2, done |-> FALSE, cb |-> TRUE, freed |-> FALSE, result |-> "waiting"]

\* beans_tls_listener_start: the handlers are set and the listener started,
\* and the caller waits for the first state.
ListenInit ==
    /\ q = <<>> /\ block = <<>> /\ nw_state = 0 /\ nw_closing = FALSE
    /\ all = {} /\ ready = <<>> /\ listening = TRUE /\ handler = {}
    /\ conn = [c \in Conns |-> "none"] /\ accepted = {}
    /\ magic = TRUE /\ nw_refs = 1 /\ destroyed = FALSE
    /\ app = "starting"
    /\ op = [c \in Conns |-> NoOp] /\ nops = 0

(***************************************************************************)
(* The framework (external).                                               *)
(***************************************************************************)
Block(k, c, st) == [k |-> k, c |-> c, st |-> st]
Queued(k, c) == Cardinality({i \in DOMAIN q : q[i].k = k /\ q[i].c = c})
IsOf(b, k, c) == b.k = k /\ b.c = c
\* A block of that kind is queued or runs.
Pending(k, c) == \/ \E b \in ToSet(q) : IsOf(b, k, c)
                 \/ block # <<>> /\ IsOf(block[1], k, c)

FrameworkDispatch ==
    \E b \in [k : {"listener"}, c : {NoConn}, st : {"ready", "failed"}]
        \cup [k : {"new"}, c : Conns, st : {""}]
        \cup [k : {"state"}, c : Conns, st : {"ready", "failed"}]
        \cup [k : {"challenge"}, c : Conns, st : {""}] :
      /\ Len(q) < MaxQueue
      /\ CASE b.k = "listener" -> listening /\ nw_state # -1 /\ Queued("listener", NoConn) = 0
           [] b.k = "new" -> listening /\ conn[b.c] = "none"
           [] b.k = "state" -> /\ b.c \in handler /\ Queued("state", b.c) < 2
                               /\ b.st = "ready" => ~Pending("challenge", b.c)
           [] b.k = "challenge" -> /\ b.c \in handler
                                   /\ ~Pending("challenge", b.c) /\ ~Pending("state", b.c)
      /\ q' = Append(q, b)
      /\ conn' = IF b.k = "new" THEN [conn EXCEPT ![b.c] = "offered"] ELSE conn
      /\ UNCHANGED <<block, guarded, listening, handler, accepted, magic, nw_refs,
                     destroyed, app, operations>>

\* The queue takes its next block; one whose handler is gone is skipped.
FrameworkRun ==
    /\ block = <<>> /\ q # <<>>
    /\ q' = Tail(q)
    /\ LET b == Head(q)
           gone == \/ b.k = "state" /\ b.c \notin handler
                   \/ b.k \in {"listener", "new"} /\ ~listening
       IN block' = IF gone THEN <<>> ELSE <<b, "enter">>
    /\ UNCHANGED <<guarded, listening, handler, objects, app, operations>>

\* The completion of an operation, or of one cancelled with its connection.
FrameworkComplete(c) ==
    /\ op[c].cb
    /\ op' = [op EXCEPT ![c].cb = FALSE, ![c].done = TRUE,
                        ![c].refs = @ - 1, ![c].freed = (op[c].refs = 1)]
    /\ UNCHANGED <<q, block, guarded, listening, handler, objects, app, nops>>

(***************************************************************************)
(* The callback blocks.                                                    *)
(***************************************************************************)
Runs(k, step) == block # <<>> /\ block[1].k = k /\ block[2] = step
\* pthread_cond_broadcast: a waiter looks again.
Broadcast ==
    CASE app = "starting" -> "starting" [] app = "asleep" -> "looking" [] OTHER -> app

ListenerState ==
    /\ Runs("listener", "enter")
    /\ nw_state' = IF block[1].st = "ready" THEN 1 ELSE -1
    /\ app' = Broadcast
    /\ block' = <<>>
    /\ UNCHANGED <<q, nw_closing, all, ready, listening, handler, objects, operations>>

\* The new-connection handler: the wrapper is made, and under the lock it
\* joins nw_all unless the listener is closing.
NewConnection ==
    /\ Runs("new", "enter")
    /\ LET c == block[1].c IN
         IF nw_closing
         THEN /\ conn' = [conn EXCEPT ![c] = "freed"]
              /\ block' = <<>> /\ UNCHANGED all
         ELSE /\ conn' = [conn EXCEPT ![c] = "live"]
              /\ all' = all \cup {c}
              /\ block' = <<block[1], "watch">>
    /\ UNCHANGED <<q, nw_state, nw_closing, ready, listening, handler, accepted, magic,
                   nw_refs, destroyed, app, operations>>

\* nw_connection_set_state_changed_handler and nw_connection_start.
WatchConnection ==
    /\ Runs("new", "watch")
    /\ handler' = handler \cup {block[1].c}
    /\ block' = <<>>
    /\ UNCHANGED <<q, guarded, listening, objects, app, operations>>

\* The challenge block: it walks the session's identities and answers.
ChallengeAnswers ==
    /\ Runs("challenge", "enter")
    /\ block' = <<>>
    /\ UNCHANGED <<q, guarded, listening, handler, objects, app, operations>>

\* A connection's first state of interest clears its handler.
FirstState == handler \ {block[1].c}

ConnectionState ==
    /\ Runs("state", "enter")
    /\ handler' = FirstState
    /\ block' = <<block[1], "lock">>
    /\ UNCHANGED <<q, guarded, listening, objects, app, operations>>

\* Ready connections queue for accept; the others leave nw_all.
ConnectionSettles ==
    /\ Runs("state", "lock")
    /\ app' = Broadcast
    /\ LET c == block[1].c IN
         IF block[1].st = "ready" /\ ~nw_closing
         THEN /\ ready' = Append(ready, c) /\ UNCHANGED all
              /\ block' = <<>>
         ELSE /\ all' = all \ {c} /\ UNCHANGED ready
              /\ block' = <<block[1], "drop">>
    /\ UNCHANGED <<q, nw_state, nw_closing, listening, handler, objects, operations>>

\* beans_tls_nw_drop outside the lock.
DropFailed ==
    /\ Runs("state", "drop")
    /\ conn' = [conn EXCEPT ![block[1].c] = "freed"]
    /\ block' = <<>>
    /\ UNCHANGED <<q, guarded, listening, handler, accepted, magic, nw_refs, destroyed,
                   app, operations>>

\* beans_tls_free's block: every connection still in nw_all is cancelled.
SyncBlock ==
    /\ Runs("sync", "enter")
    /\ handler' = handler \ all
    /\ app' = "synced"
    /\ block' = <<>>
    /\ UNCHANGED <<q, guarded, listening, objects, operations>>

(***************************************************************************)
(* The program's thread.                                                   *)
(***************************************************************************)
\* beans_tls_listener_start ends: the listener is ready, or failed or timed
\* out, and then the caller frees it.
StartReturns ==
    /\ app = "starting"
    /\ \/ nw_state = 1 /\ app' = "idle"
       \/ nw_state # 1 /\ app' = "freeing"
    /\ UNCHANGED <<q, block, guarded, listening, handler, objects, operations>>

\* beans_tls_listener_accept: with a timeout, without, or blocking.
Accept ==
    /\ app = "idle" /\ magic
    /\ app' = "looking"
    /\ UNCHANGED <<q, block, guarded, listening, handler, objects, operations>>

AcceptedRefs == nw_refs + 1

AcceptTakes ==
    /\ app = "looking" /\ ready # <<>>
    /\ LET c == Head(ready) IN
         /\ ready' = Tail(ready) /\ all' = all \ {c}
         /\ accepted' = accepted \cup {c}
    /\ nw_refs' = AcceptedRefs
    /\ app' = "idle"
    /\ UNCHANGED <<q, block, nw_state, nw_closing, listening, handler, conn, magic,
                   destroyed, operations>>

AcceptEmpty ==
    /\ app = "looking" /\ ready = <<>>
    /\ app' = IF nw_state = 1 /\ ~nw_closing THEN "asleep" ELSE "idle"
    /\ UNCHANGED <<q, block, guarded, listening, handler, objects, operations>>

\* The timeout of a non-blocking accept; what is ready by then is taken.
AcceptTimesOut ==
    /\ app = "asleep"
    /\ app' = "expired"
    /\ UNCHANGED <<q, block, guarded, listening, handler, objects, operations>>

AcceptExpired ==
    /\ app = "expired"
    /\ IF ready # <<>>
       THEN app' = "looking"
       ELSE app' = "idle"
    /\ UNCHANGED <<q, block, guarded, listening, handler, objects, operations>>

\* beans_tls_nw_read, beans_tls_nw_write and beans_tls_nw_shutdown start an
\* operation and wait for its block.
StartOp(c) ==
    /\ app = "idle" /\ c \in accepted /\ conn[c] = "live"
    /\ nops < MaxOps /\ op[c].result \in {"none", "done"} /\ ~op[c].cb
    /\ op' = [op EXCEPT ![c] = NewOp] /\ nops' = nops + 1
    /\ UNCHANGED <<q, block, guarded, listening, handler, objects>>
    /\ app' = "waiting"

\* Mutant: the caller that gives up frees the operation itself.
DropOpAll(o) == [o EXCEPT !.refs = 0, !.freed = TRUE]
\* beans_tls_nw_operation_drop.
DropOp(o) == [o EXCEPT !.refs = @ - 1, !.freed = (o.refs = 1)]

OpDone(c) ==
    /\ app = "waiting" /\ op[c].result = "waiting" /\ op[c].done
    /\ op' = [op EXCEPT ![c] = [DropOp(op[c]) EXCEPT !.result = "done"]]
    /\ app' = "idle"
    /\ UNCHANGED <<q, block, guarded, listening, handler, objects, nops>>

\* The timeout cancels the connection and reports; the block comes later.
OpTimesOut(c) ==
    /\ app = "waiting" /\ op[c].result = "waiting" /\ ~op[c].done
    /\ op' = [op EXCEPT ![c] = [DropOp(op[c]) EXCEPT !.result = "timeout"]]
    /\ app' = "idle"
    /\ UNCHANGED <<q, block, guarded, listening, handler, objects, nops>>

\* beans_tls_session_release and beans_tls_session_destroy.
Release(n) == nw_refs' = n - 1 /\ destroyed' = (n = 1)

\* beans_tls_nw_free: the stream is dropped, then its listener released.
NwFree(c) ==
    /\ app \in {"idle", "closed"} /\ c \in accepted /\ conn[c] = "live"
    /\ conn' = [conn EXCEPT ![c] = "freed"]
    /\ Release(nw_refs)
    /\ UNCHANGED <<q, block, guarded, listening, handler, accepted, magic, app, operations>>

\* beans_tls_free on a listener: say so under the lock,
FreeCloses ==
    /\ app \in {"idle", "freeing"} /\ magic
    /\ nw_closing' = TRUE
    /\ app' = "closing"
    /\ UNCHANGED <<q, block, nw_state, all, ready, listening, handler, objects, operations>>

\* clear the listener's handlers and run a block behind what is queued,
FreeCancels ==
    /\ app = "closing"
    /\ listening' = FALSE
    /\ q' = Append(q, Block("sync", NoConn, ""))
    /\ app' = "syncing"
    /\ UNCHANGED <<block, guarded, handler, objects, operations>>

FreeWaits == app = "synced"

NeverAccepted == all

\* then drop every connection nobody accepted and release the listener.
FreeDrops ==
    /\ FreeWaits
    /\ conn' = [c \in Conns |-> IF c \in NeverAccepted THEN "freed" ELSE conn[c]]
    /\ all' = {} /\ ready' = <<>>
    /\ magic' = FALSE
    /\ Release(nw_refs)
    /\ app' = "closed"
    /\ UNCHANGED <<q, block, nw_state, nw_closing, listening, handler, accepted, operations>>

ListenNext ==
    \/ FrameworkDispatch \/ FrameworkRun \/ \E c \in Conns : FrameworkComplete(c)
    \/ ListenerState \/ NewConnection \/ WatchConnection \/ ChallengeAnswers \/ ConnectionState
    \/ ConnectionSettles \/ DropFailed \/ SyncBlock
    \/ StartReturns \/ Accept \/ AcceptTakes \/ AcceptEmpty \/ AcceptTimesOut \/ AcceptExpired
    \/ \E c \in Conns : StartOp(c) \/ OpDone(c) \/ OpTimesOut(c) \/ NwFree(c)
    \/ FreeCloses \/ FreeCancels \/ FreeDrops

\* What goes on by itself: the queue's blocks and the program's own thread.
Completing == \E c \in Conns : FrameworkComplete(c)
BlockStep  == \/ ListenerState \/ NewConnection \/ WatchConnection \/ ChallengeAnswers
              \/ ConnectionState \/ ConnectionSettles \/ DropFailed \/ SyncBlock
AppStep    == AcceptTakes \/ AcceptEmpty \/ AcceptExpired \/ FreeCancels \/ FreeDrops
OpStep     == \E c \in Conns : OpDone(c)

ListenSpec == ListenInit /\ [][ListenNext]_listenVars

(***************************************************************************)
(* Properties.                                                             *)
(***************************************************************************)
\* Every connection the framework delivered belongs to exactly one of nw_all
\* (ready or still shaking hands), the program, and the block that drops it;
\* nothing freed stays listed, so no later call finds it.
OneOwner ==
    /\ all \cap accepted = {}
    /\ ToSet(ready) \subseteq all /\ IsInjective(ready)
    /\ \A c \in all : conn[c] = "live"
    /\ \A c \in Conns : conn[c] = "live" =>
         c \in all \cup accepted \/ (Runs("state", "drop") /\ block[1].c = c)

\* The one block that beans_tls_free does not wait for: a challenge that was
\* queued behind free's own block, of a connection nobody had accepted and that
\* the close has dropped.
LateChallenge ==
    block[1].k = "challenge" /\ block[1].c \notin accepted /\ conn[block[1].c] = "freed"

\* A callback block that runs, and every stream the program still holds, find
\* the listener session and the connection they point to: beans_tls_free waits
\* for its queue, and a stream keeps its listener alive.  The late challenge
\* does not: it reads the identities of a session that may be destroyed.
UsersFindTheirObjects ==
    /\ destroyed => /\ block # <<>> => LateChallenge
                    /\ \A c \in accepted : conn[c] = "freed"
    /\ block # <<>> /\ block[2] \in {"watch", "lock", "drop"} =>
         conn[block[1].c] = "live"

\* The operation object outlives both its waiter and its block, whichever
\* comes first: a timeout racing a late completion frees it once.
OpOutlivesBoth ==
    \A c \in Conns : op[c].cb \/ op[c].result = "waiting" => ~op[c].freed

\* An accept never sleeps over a connection that is ready or a listener that
\* has failed.
NotAsleepOverReady == app = "asleep" => ready = <<>> /\ nw_state = 1

ListenMoves == FrameworkRun \/ Completing \/ BlockStep \/ AppStep \/ OpStep

\* Closing the listener never gets stuck behind its queue.
CloseReturns == app \in {"closing", "syncing", "synced"} => ENABLED ListenMoves

\* Once the listener is closed a connection that was never accepted is gone,
\* whatever was still queued.
CloseDropsAll == app = "closed" => \A c \in Conns : conn[c] = "live" => c \in accepted

\* Every connection, operation and context of the listener has one owner and
\* lives as long as a callback or a caller uses it; nobody sleeps over a
\* ready one and a close drops them all (beans_tls_nw_operation,
\* beans_tls_listener_accept, beans_tls_nw_free).
ConnectionsKept == OneOwner /\ UsersFindTheirObjects /\ OpOutlivesBoth
    /\ NotAsleepOverReady /\ CloseDropsAll
=============================================================================
