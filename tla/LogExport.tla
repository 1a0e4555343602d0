----------------------------- MODULE LogExport -----------------------------
(***************************************************************************)
(* The logging bridge of src/runtime/log/beans_log.cpp: threads write      *)
(* records into a bounded queue, the backend thread moves them into an     *)
(* export sink with an overflow policy, a consumer takes them out, and a   *)
(* shutdown, or the atexit handler, races all of them and the creation of  *)
(* the sink itself.  The queue and the backend thread are the Quill        *)
(* library's, modelled from how the bridge uses them.                      *)
(*                                                                         *)
(* A thread announces an operation by storing its slot's `active' flag and *)
(* then reading `stopping'.  Neither access is sequentially consistent, so *)
(* the store may still sit in the thread's store buffer when the shutdown  *)
(* reads the slot: `pend' is that buffer.                                  *)
(***************************************************************************)
EXTENDS Integers, Sequences

CONSTANTS
    Producers, Stoppers,
    Capacity,       \* of the sink
    QueueCapacity,  \* of the bounded-dropping queue
    MaxRecords      \* bound on the records written

VARIABLES
    policy,    \* of the sink: "newest", "oldest" or "block"
    sink,      \* "none", "making" (the creator holds lifecycle_mutex_), "open", "closed"
    stopping, shut_down,
    lpc,       \* producers and stoppers
    active, pend,
    queue, writing, \* Quill's queue; the record the backend is writing, or none
    export, taken, \* records_ and what the consumer has received
    written, dropped, \* records accepted and records counted as dropped
    is_running, \* Backend::is_running()
    late       \* history: a shutdown read a slot whose store was still buffered

logVars == <<policy, sink, stopping, shut_down, lpc, active, pend, queue, writing,
             export, taken, written, dropped, is_running, late>>
lifeVars == <<policy, sink, stopping, shut_down, is_running, late>>
dataVars == <<queue, writing, export, taken, written, dropped>>

LogInit ==
    /\ policy \in {"newest", "oldest", "block"}
    /\ sink = "none" /\ stopping = FALSE /\ shut_down = FALSE /\ is_running = TRUE
    /\ lpc = [t \in Producers \cup Stoppers |-> "idle"]
    /\ active = [p \in Producers |-> FALSE] /\ pend = [p \in Producers |-> FALSE]
    /\ queue = <<>> /\ writing = <<>> /\ export = <<>> /\ taken = <<>>
    /\ written = 0 /\ dropped = 0 /\ late = FALSE

Goto(t, to) == lpc' = [lpc EXCEPT ![t] = to]

\* beans_log_export_sink: start() and running_lock() refuse once stopping or
\* shut down; the sink is made under the shared lifecycle lock.
MakeSink ==
    /\ sink = "none" /\ ~stopping /\ ~shut_down
    /\ sink' = "making"
    /\ UNCHANGED <<policy, stopping, shut_down, is_running, late, lpc, active, pend,
                   dataVars>>

AddSink ==
    /\ sink = "making"
    /\ sink' = "open"
    /\ UNCHANGED <<policy, stopping, shut_down, is_running, late, lpc, active, pend,
                   dataVars>>

(***************************************************************************)
(* Producers: write_record and flush.                                      *)
(***************************************************************************)
\* running_operation: read stopping, store the slot's flag, read it again.
Begin(p) ==
    /\ lpc[p] = "idle" /\ sink \in {"open", "closed"} /\ ~stopping
    /\ Goto(p, "begun")
    /\ UNCHANGED <<lifeVars, active, pend, dataVars>>

Announce(p) ==
    /\ lpc[p] = "begun"
    /\ pend' = [pend EXCEPT ![p] = TRUE]
    /\ Goto(p, "announced")
    /\ UNCHANGED <<lifeVars, active, dataVars>>

\* The store buffer drains whenever the processor likes.
Drain(p) ==
    /\ pend[p]
    /\ pend' = [pend EXCEPT ![p] = FALSE] /\ active' = [active EXCEPT ![p] = TRUE]
    /\ UNCHANGED <<lifeVars, lpc, dataVars>>

\* Mutant: the flag is announced and stopping is not read again.
RefusedNever == FALSE
Refused == stopping

RecheckStopping(p) ==
    /\ lpc[p] = "announced"
    /\ IF Refused
       THEN Goto(p, "leave")
       ELSE \E op \in {"write", "flush"} : Goto(p, op)
    /\ UNCHANGED <<lifeVars, active, pend, dataVars>>

\* The statement is queued, dropped by a full queue, or filtered by level.
Write(p) ==
    /\ lpc[p] = "write" /\ written < MaxRecords
    /\ \/ /\ Len(queue) < QueueCapacity
          /\ queue' = Append(queue, written + 1) /\ written' = written + 1
          /\ UNCHANGED dropped
       \/ /\ Len(queue) >= QueueCapacity
          /\ written' = written + 1 /\ dropped' = dropped + 1 /\ UNCHANGED queue
       \/ UNCHANGED <<queue, written, dropped>>
    /\ Goto(p, "leave")
    /\ UNCHANGED <<lifeVars, active, pend, writing, export, taken>>

\* flush_log waits until the backend has handled everything queued.
Flush(p) ==
    /\ lpc[p] = "flush" /\ queue = <<>> /\ writing = <<>>
    /\ Goto(p, "leave")
    /\ UNCHANGED <<lifeVars, active, pend, dataVars>>

\* ~Operation: the second store cannot pass the first.
Leave(p) ==
    /\ lpc[p] = "leave" \/ (lpc[p] = "write" /\ written = MaxRecords)
    /\ pend' = [pend EXCEPT ![p] = FALSE] /\ active' = [active EXCEPT ![p] = FALSE]
    /\ Goto(p, "idle")
    /\ UNCHANGED <<lifeVars, dataVars>>

(***************************************************************************)
(* The backend thread and ExportSink::write_log.                           *)
(***************************************************************************)
BackendNext ==
    /\ is_running /\ writing = <<>> /\ queue # <<>>
    /\ writing' = <<Head(queue)>> /\ queue' = Tail(queue)
    /\ UNCHANGED <<lifeVars, lpc, active, pend, export, taken, written, dropped>>

Counted(full) == IF full THEN 1 ELSE 0

WaitsOn(full) == full /\ policy = "block" /\ sink # "closed"

MakeRoom(e) == Tail(e)

WriteLog ==
    /\ writing # <<>>
    /\ LET full == Len(export) >= Capacity
       IN  \/ /\ sink = "closed" /\ ~WaitsOn(full)
              /\ dropped' = dropped + 1 /\ UNCHANGED export
           \/ /\ sink = "open" /\ ~WaitsOn(full)
              /\ dropped' = dropped + Counted(full)
              /\ export' = IF ~full THEN export \o writing
                           ELSE IF policy = "newest" THEN export
                           ELSE MakeRoom(export) \o writing
    /\ writing' = <<>>
    /\ UNCHANGED <<lifeVars, lpc, active, pend, queue, taken, written>>

\* take and take_batch: any number of records from the front, closed or not.
Take ==
    /\ export # <<>>
    /\ \E n \in 1..Len(export) :
           /\ taken' = taken \o SubSeq(export, 1, n)
           /\ export' = SubSeq(export, n + 1, Len(export))
    /\ UNCHANGED <<lifeVars, lpc, active, pend, queue, writing, written, dropped>>

(***************************************************************************)
(* shutdown.                                                               *)
(***************************************************************************)
CloseExports == IF sink = "open" THEN "closed" ELSE sink

Shutdown(s) ==
    /\ lpc[s] = "idle"
    /\ stopping' = TRUE
    /\ sink' = IF stopping THEN sink ELSE CloseExports
    /\ Goto(s, "lock")
    /\ UNCHANGED <<policy, shut_down, is_running, late, active, pend, dataVars>>

CloseLate == CloseExports

LockLifecycle(s) ==
    /\ lpc[s] = "lock" /\ sink # "making"
    /\ \A u \in Stoppers : lpc[u] \notin {"wait", "stop"}
    /\ IF shut_down
       THEN Goto(s, "done") /\ UNCHANGED <<sink, shut_down>>
       ELSE Goto(s, "wait") /\ shut_down' = TRUE /\ sink' = CloseLate
    /\ UNCHANGED <<policy, stopping, is_running, late, active, pend, dataVars>>

WaitForOperations(s) ==
    /\ lpc[s] = "wait" /\ \A p \in Producers : ~active[p]
    /\ late' = (late \/ \E p \in Producers : pend[p])
    /\ Goto(s, "stop")
    /\ UNCHANGED <<policy, sink, stopping, shut_down, is_running, active, pend, dataVars>>

\* Backend::stop returns once the backend thread has emptied its queues.
StopBackend(s) ==
    /\ lpc[s] = "stop" /\ queue = <<>> /\ writing = <<>>
    /\ is_running' = FALSE
    /\ Goto(s, "done")
    /\ UNCHANGED <<policy, sink, stopping, shut_down, late, active, pend, dataVars>>

LogNext ==
    \/ MakeSink \/ AddSink
    \/ \E p \in Producers : \/ Begin(p) \/ Announce(p) \/ Drain(p) \/ RecheckStopping(p)
                            \/ Write(p) \/ Flush(p) \/ Leave(p)
    \/ BackendNext \/ WriteLog \/ Take
    \/ \E s \in Stoppers : \/ Shutdown(s) \/ LockLifecycle(s)
                           \/ WaitForOperations(s) \/ StopBackend(s)

\* What goes on by itself: every thread that has entered an operation.  Nobody
\* has to write, to take or to shut down.
Producing(p) == Announce(p) \/ RecheckStopping(p) \/ Write(p) \/ Flush(p) \/ Leave(p)
Stopping(s)  == LockLifecycle(s) \/ WaitForOperations(s) \/ StopBackend(s)
LogMoves == \/ AddSink \/ BackendNext \/ WriteLog
         \/ \E p \in Producers : Producing(p)
         \/ \E s \in Stoppers : Stopping(s)

LogSpec == LogInit /\ [][LogNext]_logVars

----------------------------------------------------------------------------
\* Every record accepted is queued, in flight, in the sink, with the consumer,
\* or counted as dropped: none vanishes, none is delivered twice.
Accounted ==
    written = Len(queue) + Len(writing) + Len(export) + Len(taken) + dropped

\* Records arrive in the order they were accepted, gaps only where one was
\* dropped, and the sink never holds more than its capacity.
InOrder ==
    /\ \A i, j \in DOMAIN (taken \o export \o writing \o queue) :
           LET r == taken \o export \o writing \o queue IN i < j => r[i] < r[j]
    /\ Len(export) <= Capacity

\* Once the backend has stopped no thread is left inside an operation that
\* would still use it, provided no announcement was read too early.
StoppedIsDrained ==
    ~is_running /\ ~late =>
        queue = <<>> /\ \A p \in Producers : lpc[p] \notin {"write", "flush"}

\* A finished shutdown leaves no sink open, not even one whose creation it
\* overtook: a consumer waiting in take() is told.
ClosedAtEnd ==
    \A s \in Stoppers : lpc[s] = "done" => sink \in {"none", "closed"}

\* A shutdown never gets stuck, although the backend may be blocked on a full
\* sink, a flush may wait for that backend and nobody may take from the sink.
ShutdownReturns ==
    \A s \in Stoppers : lpc[s] \notin {"idle", "done"} => ENABLED LogMoves

\* Every record is exported in order or counted as dropped, and a shutdown
\* that races producers and the opening of sinks drains and closes
\* (shutdown, write_record, close_exports).
RecordsKept == Accounted /\ InOrder /\ StoppedIsDrained /\ ClosedAtEnd
=============================================================================
