# Verification of the Beans runtime

TLA+ specifications, TLC configurations and TLAPS proofs for the Beans runtime
(`runtime/`): the fiber scheduler and its netpoller, channels, task groups and
threads; the poller, signals, child processes, sockets, TLS, HTTP, WebSocket,
JSON and log bridges; files and mappings; reference counts, the cycle
collector, weak references, maps, lists, decimals and `std.reflect`. `PROJECT.json` lists the components, maps every
definition to the lines it models, and lists runs, mutants, findings, hazards
and theorems. Paths below are relative to the repository.

## 1. The system and its parts

Beans is a compiled language. Its compiler is written in Beans (`src/*.b`), its
runtime in C (`runtime/`). The compiler is sequential tree transformation; what
is hard to test is in the runtime, where fibers, OS threads, the kernel, timers
and cancellation meet, where user code runs in the middle of an operation on a
container, and where a stream is cut at any byte.

| Component | State | Operations | Talks to |
|---|---|---|---|
| fiber scheduler | per fiber: `state`, `pending_wake`, `cancel_flag`, unwind status, catch depth, `joiner`, `forgotten`; per worker: run queue, inbox, `live`, table of live fibers, pool | spawn, park, yield, resume, cancel, join, panic, contained call, exit, settle, drain, dispatch | everything that waits calls park; everything that wakes calls resume |
| netpoller, timers, idle wait | `io_armed`, `io_signalled`, `io_waiters`, `in_poll`, timer heap, kernel registrations, kick event | wait_io, sleep, arm, disarm, poll, fire due timers, post and kick, deadlock report | the scheduler calls idle_wait; foreign threads post to the inbox |
| channels and gates | ring buffer, `closed`, lines of waiting fibers, condition variables | send, recv, try_send, try_recv, close, gate wait, gate open | fibers park, threads wait on conditions, one mutex |
| brew and TaskGroup | rows of children, completion stamps, waiter | brew, next, try_next, wait_all, cancel_all, scope join | completion hook called by settle |
| threads | `done`, `joined`, `join_waiter`, result, `cc_threads` | spawn, join, detach, end | resume a joining fiber; hold the global collector off |
| atomic wait and notify | wait buckets, futexes | wait, timed wait, notify | fibers and threads |
| reference counts, cycle collector | counts, colours, root buffers | retain, release, collect, publish, sweep of husks | all threads; runs user deinit bodies |
| weak references | address table, control blocks | handle, read, drop, death | released objects |
| maps and lists | entries, index, tombstones; slots, length, mirror | insert, remove, grow, clear, iterate; sort, push, remove | comparators, key functions and deinit bodies that panic or come back |
| decimals | none | add, multiply, divide, round, compare, hash, parse, print | |
| reflection | tables of types, members and functions with their hash indexes; boxes | register, attach, query, box, call by name or handle, get and set a field | the metadata the compiler emits; user code |
| files and mappings | `fd`, `closed`, mapping and length per handle; the file and its lock belong to the kernel | open, read, write, seek, truncate, lock, map, resize, close, drop | other handles of the same file, worker threads (deferred close) |
| std.poll | registrations, waker table, wake pipe | add, modify, remove, wait, wake, close | kernel, other threads |
| signals | masks, owner counts, sources | open, take, drain, close | the process |
| child processes | pipes, process groups, deadline | run, start, wait, kill, drop | fork and exec, CreateProcess |
| sockets | blocking mode, cached facts about it, deadlines | connect, listen, accept, read, write, gathered send | fibers' poller, plain threads |
| TLS | buffers, handshake state; listener queue | handshake, read, write, close; accept, free; load identity | OpenSSL, SChannel, SecureTransport, Network.framework |
| HTTP/2, HTTP/1, WebSocket | stream tables, slots, spans, messages | feed, pull, respond, reset | nghttp2, llhttp, wslay |
| JSON | schema walks, text buffers | encode, decode | yyjson |
| log | queues, slots, sinks | write, export, take, shutdown | Quill's backend thread |
| tree interpreter, compiler, LLVM emitter, language server, debugger | syntax trees, tables | sequential | |

What is hard: resume runs on any thread while park is half done; a record is
pooled and reused while handles and queues refer to records by pointer; a
cancel is a flag followed by a wake, and can arrive at every point of every
wait; a waiter record lives on the stack of the waiting fiber; the idle wait
chooses between four ways of blocking by counters that other code maintains;
the collector has two root buffers and runs deinit bodies that change the graph
it walks; a fork copies descriptors of calls on other threads; handles and
descriptor numbers are reused; a call through `std.reflect` moves what a box
owned; three backends have to look like one. The list
with line numbers is `hazards` in `PROJECT.json`; its notes say what no
property covers. Section 6 lists where a property had to be restricted because
the code does something else.

What makes each component correct:

- scheduler: a fiber is on at most one list and on one exactly when it is
  READY; no wake is lost; no fiber sleeps on a cancellation or on a child that
  has ended; a pooled record is unreachable; the live count is exact; ready
  fibers run.
- netpoller: the count of io waiters is exact, a registration and a pending
  timer belong to the wait their fiber is in, no post is missed by a blocked
  worker, everything that becomes due is served, the deadlock report is sound
  and complete.
- channels: the buffer is a bounded FIFO; no wake is swallowed; a line names
  exactly the fibers that wait; close and cancel release their waiters.
- groups and threads: outcomes leave a group once, in completion order; a
  group outlives its children; a join returns and takes the result once; no
  panic disappears.
- waits and wakes: a waiter that was picked returns, nobody sleeps through a
  change; a wake is seen by the poller it was made for and by no other.
- memory: counts are exact between user steps, nothing reachable is freed, no
  garbage is forgotten, deinit runs once, weak reads never revive; a container
  owns exactly what it holds, whatever user code does inside.
- bridges: what arrives is what was sent, in order, however it is cut; every
  end is told once; a failed step gives back what it took; backends agree;
  calls end.

## 2. Modules

One module per component; a module is parameterised by its sets and bounds and
has its own `Init`, `Next`, `Spec` and properties.

| Module | Models | Uses |
|---|---|---|
| `FiberCore` | park, resume, yield, cancel, join, spawn, pool, panic, contained calls, settle, drain, dispatch; foreign resumes one atomic access at a time | `WakeToken` |
| `WakeToken` | abstract specification: one wake token per fiber, what `beans_fiber.h` promises | |
| `Netpoller` | wait_io, sleep, plain park; arm, disarm, timers; io_idle_wait, idle_wait, inbox_post's kick, the deadlock report | |
| `Channel` | send, recv, try twins, close, gates, for fibers and threads | `ChannelFifo` |
| `ChannelFifo` | abstract specification: a bounded queue closed once | |
| `TaskGroup` | brew, next, try_next, wait_all, cancel_all, the scope join under panic and cancellation | |
| `ThreadJoin` | thread_main's end against joins by fibers and threads, cancelled joins, detach | |
| `AtomicWait` | atomic wait and notify: parking lot and futex | |
| `PollWake`, `PollEvents` | std.poll: wakers, wake pipe and restarted waits; registrations and events of epoll, kqueue and WSAPoll | |
| `Signals` | std.signal: masks, shared ownership, take, drain, close | |
| `ChildProcess` | run, start, feed, drain, deadline, kill, reap, drop | |
| `LogExport` | producers, drop policy, export sink, backend, shutdown | |
| `TlsSession`, `TlsListener`, `TlsIdentity` | the byte pump between two backends; the callback listener; construction and release of identities and contexts | `TlsIdentity` extends `TlsListener` |
| `CycleCollector` | releases, root buffers, both collections, deinit bodies, publication | |
| `HuskSweep` | concurrent releases, the sweep of dead shells, owner-local walks | |
| `WeakRefs`, `HashMap`, `ListSort` | the weak table; maps; lists and their sorts | |
| `Decimal` | decimal operations on integers; the limb arithmetic under them | |
| `ReflectRegistry`, `ReflectCall` | the tables of `std.reflect`, what the compiler registers and the queries; boxes and checked calls | `ReflectCall` extends `ReflectRegistry` |
| `FileHandles` | files, mappings, shared memory: who owns a descriptor, transfers, locks, resizing | |
| `JsonText`, `JsonTyped` | the direct writer's escaping and digits; the four schema walks | |
| `Http2Wire`, `Http2Send`, `Http1Events`, `WebSocketPump` | the protocol bridges | |
| `SocketIo`, `SocketOpen`, `SocketBytes` | modes and timed waits; connect, listen and bind; what goes over a stream | `SocketIo` extends the other two |
| `MCTasks`, `MCServices`, `MCMemory`, `MCBytes` | several components in one run | the components of that run |
| `FiberCore_proofs`, `Channel_proofs` | inductive invariants, theorems, refinements (section 5) | the component, TLAPS |
| `Netpoller_proofs`, `Joins_proofs`, `Waits_proofs`, `Ownership_proofs`, `Services_proofs` | the same for several components each: the poller and the sockets; threads and groups; atomic waits, signals, wakes and TLS sessions; the sweep, the files and the weak table; the log, TLS objects and children | the components, TLAPS |
| `QueueLemmas` | injective sequences used as queues: push, pop, remove, splice | |

Operators whose comment begins with "Mutant:" are plausible bugs, each the
replacement of the definition that follows it; no specification uses them.

The MC modules put small components side by side. The variable `sel` is chosen
in the initial predicate and names the component this behaviour is about; a
component that is not selected keeps its variables at 0 and takes no step, so the
state space is the sum of the components', not the product. A property of such a
run is `sel = "x" => X!Property`, for a temporal one the component's property on
its own variables; a few join those of two components. A component with theorems
is extended, not instantiated, so that the run checks the very formula the theorem
states: `MCTasks` extends `ThreadJoin` and `TaskGroup`, `MCServices` extends
`AtomicWait`, `Signals`, `PollWake`, `LogExport`, `TlsIdentity`, `ChildProcess` and
`TlsSession`, `MCMemory` extends `HuskSweep` and `WeakRefs`, `MCBytes` extends `FileHandles` and `SocketIo`. Its
variables rest in a state of its own that satisfies its properties (`Unspawned` for
the thread, `NoGroup` for the group, `NoSignals` for the signals, one of the initial
states of the others) while another component is selected, and the composition's
formulas are called `PartsInit`, `PartsNext`, `PartsSpec`. Components that are
extended together have formulas with names of their own (`ChildSpec`, `LogSpec`,
`OpenSpec`, ...).
The components of one run do not interact; where two parts of the runtime do, they are in one module
(`FiberCore` with its foreign threads, `Channel` with fibers and threads,
`ThreadJoin` with fibers and the OS thread, `CycleCollector` with user code).

### FiberCore

The variables have the names of the fields. `at` and `target` say where a
fiber's own code stands: in its code, inside a park, a yield, or a join of
`target`. `owner` is who holds the join handle (the brew handle of the parent);
`phase` is where the worker thread stands: running a fiber, in `settle`, between
settle's exchange and its compare-and-swap (`"publish"`), draining the inbox,
popping the run queue.

Atomicity. Only `state`, `pending_wake`, `cancel_flag` and the inbox are touched
by more than one thread, and in the model cancel comes from the worker's own
fibers. Everything else belongs to the worker thread, so it moves together with
the shared access it precedes. The atomics are the sequentially consistent ones
of C11. `beans_fiber_resume` on a foreign thread is `ResumeCall`, `ResumeLoad`,
`ResumeCas`, `ResumePost`, `ResumeLatch`, `ResumeRecheck`; on the worker's own
thread (`ResumeHere`) it is atomic, because settle cannot be half done while a
fiber or the scheduler of the same thread runs it. `settle` of a park is
`SettlePark` (exchange) then `Publish` (compare-and-swap).

`SettleFinish` is the whole DISPOSE_FINISH: DONE, the live count, the table, the
completion hook (which may resume one fiber, `h`), the joiner, and retirement
of a forgotten record. Spawn takes any pooled record and resets it.

The park's verdict, the masked and the unwinding fiber, and the interpreter's
cancel handler (`Interpreted`) decide `Observable`, as `fiber_cancel_observable`
does. A caught panic is `ContainedLeave`; an unwind that finds no catch frame
ends the fiber.

### Netpoller

Park and resume are atomic here: their own race is `FiberCore`'s subject. What is
split is the handshake of `inbox_post` (push, unlock, read `in_poll`, kick:
`Post`, `Kick`) with `io_idle_wait` (raise `in_poll`, look into the inbox,
block: `EnterPoll`, `Recheck`, `Poll`, `LeavePoll`). The kernel is the set of
enabled one-shot registrations, the set of ready descriptors and the kick
event, modelled from how the code uses epoll and kqueue. The timer heap is the
set of its entries; `sleeper_remove`, which deletes the first entry that names
the fiber in heap-array order, is a choice among the fiber's entries. The clock
advances at any time up to `MaxTime`, so every read of `fiber_now` may differ from
the last one.

### Channel

An action is one critical section of the channel's mutex, or one step of a park
outside it. `fiber_line_wait` is `Wait` (into the line), `Park`, `Unpark`,
`ParkAgain` (spurious) and `LeaveLine` (cancelled, out of the line);
`signalled` is the waiter's flag, which `fiber_line_pop` sets. `Stray` is a
spurious wake of a fiber or of a condition variable. Park and resume behave as
`WakeToken` says; `FiberLostWake.cfg` shows where that promise does not hold for
a resume from another thread.

### TaskGroup, ThreadJoin, AtomicWait

`TaskGroup` has one owner fiber, whose `opc` is where it stands in next,
wait_all, the scope join or its unwound repetition, and children that run while
the owner is switched away. The completion hook is part of `ChildEnd`, as it is
part of settle. `ThreadJoin` splits thread_main's end at each atomic access
(`done`, the exchange of `join_waiter`, the resume, the count `cc_threads`),
because joiners of the worker interleave there. In `AtomicWait` all cells share
one bucket, the worst case for its condition variable; the futex's compare and
sleep is one step, its notify another.

### Services

`PollWake` gives descriptor numbers out again at once, so a stale handle can
meet a new owner of its number; `Timeouts` holds zero, a finite one and the
endless one, and an interrupted wait goes on with what is left. `PollEvents`
runs one program against each backend. `Signals` has two threads, the second
started by the first with its mask; both open sources, possibly of the same
signals, and no source changes its thread (`docs/SEND_SYNC_WORK.md`); `ChildProcess` a pipe as the set of processes that hold each end: a fork
copies what is open at that moment. `LogExport` keeps the store buffer of a
thread that announces itself, since neither access is sequentially consistent.
`TlsSession` lets two backends, each once on either side, meet over a byte stream
cut anywhere; a record is two units, so that it can arrive in halves. A pump may
time out, give up after any round that fed something (`drive_handshake` counts to
100, and a piece may be one byte), and a stream may be dropped at any wait without
a close_notify (`Abandon`, which is also what a cancelled wait comes to). `Cut`
stands for every way the network can end the stream, a reset included.
`TlsListener` runs the framework's blocks one at a time: the new-connection, state
and challenge blocks, the operations' completions, and the one `beans_tls_free`
waits for. `TlsIdentity` turns each of the nine constructors into its list of
steps, each of which may fail.

### Memory

`CycleCollector`'s `work` is the C stack and the explicit stacks of the walks in
one sequence, so that a deinit body finds the graph as the collector left it
between two of its steps. Its reference definitions (what is reachable, what
the counts should be) are stated on the graph alone. `HuskSweep` is the same
code seen by several threads, with one object. `HashMap` keeps the array of
entries, the index with its tombstones and fragments, and the counts of what it
owns. `ListSort` runs comparators as steps of the environment: read, change the
list, panic, change it and panic; deinit bodies panic or push.

`ReflectRegistry` builds the tables from a program's declarations, in the order in
which `llvm_emit_reflect.b` emits the calls, and answers queries through the hash
indexes with their growth; the reference answer is read off the declarations.
`ReflectCall` adds boxes and the checked calls. The instance has three small
programs' worth of classes, interfaces, structs and enums in several orders, under
three hash functions (injective, constant, clustered). `SharesBoxes`, `UsesEmptied`
and `Panics` say whether the program passes one box twice, reads a box it has
passed away, and has callees that panic; the run has them FALSE (section 6).

### Files

`FileHandles` gives every handle one owner thread, since `File` and `MMap` are move
only and not shared (`spec/SYNTAX.md`); what is shared is the file, through several
handles, and descriptor numbers, which are given out again at once. A transfer is
begun with the clamped length, goes on one call of the kernel at a time, and may
fail between any two. The ghosts `was`, `start` and `quiet` remember the file as
it was when the transfer began and whether another handle changed it since.

### Bytes

`Decimal`, `JsonText` and `JsonTyped` are pure: a behaviour picks
the input (operands, or a document built member by member) and does one
operation; the properties compare the result with a reference definition on
integers, code points or documents. Widths are parameters: a coefficient of two
digits overflows where one of 38 does, a half limb of two bits carries where one
of 32 does. The protocol modules cut the wire at any unit.

## 3. Runs

Every cfg sets CHECK_DEADLOCK FALSE: the process may end (exit, deadlock report,
every fiber finished), every caller may be done, and the bounds stop the
operations. Where a stop would be an error, a property says so
(`NotAsleepOverDone`, `WakeNotLost` as parts of their components' properties,
`RunReturns`, `ShutdownReturns`, `CloseReturns`, `HandshakesMeet` as parts of
`WaitsEnd`, and the leads-to properties).

| Run | Instance | Question |
|---|---|---|
| `fiber` | root + 2 fibers (one interpreted), 1 foreign thread, 3 operations, 1 foreign resume, catch depth 1 | Do queues, pool, joins and cancellation keep their invariants, and does the scheduler implement `WakeToken` for wakes of its own thread (`TokenSpec`)? |
| `poll` | 2 fibers, 1 thread, clock to 1, 3 waits, 1 cancel; fair | Is no post missed, does every registration belong to a wait, and is everything due served (`Served`)? Until the first cancel: is the count exact, are timers their waits', is a report right? |
| `chan` | 2 fibers, 2 threads, 4 values, capacity 2, 6 calls, 1 try, 1 stray wake; symmetry | Is no wake swallowed, and does the ring implement `ChannelFifo`? |
| `tasks` | the scheduler without foreign threads, channel and gate of asked capacity 0, a group of 2 children, one thread with 2 joiners; fair | Do those who wait return, in order, with their results? |
| `services` | see below; fair | Do callers that depend on somebody they do not control come back, and is everything released? |
| `memory` | 3 objects with 3 edges, 3 threads, maps of up to four keys around a linear limit of 2, lists of up to 4; 9 registries, 3 hash functions, 3 boxes (symmetric) and 3 calls | Who owns what? Do the tables of `std.reflect` say what was declared? |
| `bytes` | see below | Does each conversion compute its reference definition, and does each stream survive every cut? |
| `fiber_lost_wake` | root + 1 fiber, 1 thread | violation of `NoLostWake` (finding 1) |
| `poll_undercount` | 2 fibers, 1 cancel | violation of `IoWaitersCountArmed` (finding 2) |
| `poll_no_report` | 1 fiber, 1 thread | violation of `DeadlockReported` (finding 3) |
| `gc_reachable` | 3 objects | violation of `ReachableIsLive` (finding 4) |
| `join_stale` | 1 thread, 1 fiber that joins and is cancelled | violation of `ResumesTheLiving` (finding 5) |

A run checks one or a few properties per component. Most are conjunctions of named
parts; the comment above each part states it and names the code it is about.

| Component | Property | Parts |
|---|---|---|
| `FiberCore` | `TypeOK` | |
| | `QueuesSound` | `LinkedOnce`, `ReadyIsQueued`, `LiveCount`, `PublishFindsParking` |
| | `JoinerNotStranded`, `PooledUnreachable` | |
| | `CancelSound` | `CancelNeverSlept`, `CancelledOnlyIfAsked` |
| | `TokenSpec` | refinement of `WakeToken` |
| `Netpoller` | `WaitsAccounted` | `TypeOK`, `ArmedIsWaiting`, `CountedUntilCancel`, `TimersUntilCancel` |
| | `KickNotLost`, `ReportIsDeadlock` | |
| | `Served` (liveness) | `IoServedTo`, `TimerServedTo`, `PostServedTo` |
| `Channel` | `NobodyStranded` | `ReceiverNotStranded`, `SenderNotStranded` |
| | `LinesExact` | `TypeOK`, `LineIsWaiters`, `NotBlockedIfSignalled`, `ClosedHasNoWaiters` |
| | `FifoSpec` | refinement of `ChannelFifo` |
| `FiberCore`, `Channel` | `ParkedCallsEnd` (liveness) | `ReadyRuns`, `FiberJoinReturns`, `CancelObserved`, `ReceiverServed`, `CloseReleases`, `CancelReleases` |
| `TaskGroup` | `GroupKeepsChildren` | `CompletionOrder`, `GroupOutlivesChildren`, `NotAsleepOverDone`, `PanicNotSwallowed`, `GroupTypeOK` |
| | `GroupCallsEnd` (liveness) | `OwnerReturns`, `DrainEndsUncancelled` |
| `ThreadJoin` | `HandleKept` | `HandleAlive`, `JoinerNotStranded`, `ResultTakenOnce`, `ReservationHasOwner`, `CollectorHeldOff` |
| | `JoinsEnd` (liveness, action) | `JoinReturns`, `DoneBeatsCancel` |
| `AtomicWait` | `NobodySleepsThrough` | `NodesAreWaiters`, `PickedIsLetGo`, `NotAsleepThroughChange` |
| `PollWake` | `WakesArrive` | `NoStrayByte`, `WakeNotLost`, `HandlesDiffer` |
| `AtomicWait`, `PollWake`, `LogExport`, `TlsListener`, `ChildProcess`, `TlsSession` | `WaitsEnd` (liveness) | `PickedReturns`, `WaitEnds`; `ShutdownReturns`, `CloseReturns`, `RunReturns`, `HandshakesMeet` |
| `ChildProcess` | `RunsClean` | `NothingLeftBehind`, `OutputComplete`, `TimeoutStopsGroup` |
| `TlsSession` | `PumpFaithful` | `BytesInOrder`, `CleanEndIsComplete`, `TruncationIsReal`, `EstablishedIsAgreed` |
| `TlsListener`, `TlsIdentity` | `TlsObjectsKept` | `ConnectionsKept`: `OneOwner`, `UsersFindTheirObjects`, `OpOutlivesBoth`, `NotAsleepOverReady`, `CloseDropsAll`; `NothingLeaks`: `FailureHoldsNothing`, `FreedHoldsNothing` |
| `LogExport` | `RecordsKept` | `Accounted`, `InOrder`, `StoppedIsDrained`, `ClosedAtEnd` |
| `Signals` | `SignalsKept` | `MasksComeBack`, `OldSignalsAreGone`, `AloneNeverHangs`, `WatchedIsSafe` |
| `CycleCollector` | `CollectionExact` | `CountsExact`, `NoDangling`, `BufHasOneOwner`, `DeinitOnce`, `SharedIsClosed`, `NoLostGarbage` |
| `HuskSweep` | `SweepSafe` | `NoUseAfterFree`, `OneEntryPerHusk`, `WalkExcludesSweep` |
| `WeakRefs` | `WeakExact` (with an action property) | `EveryEntryFound`, `DeadReadsGone`, `BlockHoldsExact`, `NoResurrection` |
| `HashMap` | `ContainersExact` (with `ListSort`) | `FindsWhatItHolds`, `OrderKept`, `LoopSeesEachOnce`, `HolesInBounds`, `OwnsWhatItHolds` |
| `ListSort` | `ContainersExact` | `SortsStably`, `PanicLeavesAsWas`, `ChangeStands`, `OwnsItems`, `MirrorShown` |
| `ReflectRegistry`, `ReflectCall` | `RegistryExact`, `CallsChecked`, `PayloadsOwned` | `RegistryFaithful` compares every query with the declarations |
| `FileHandles` | `FilesRight` | `DescriptorsOwned`, `MappingsOwned`, `TransfersExact` |
| `Decimal` | `DecimalsExact` | `SumsRoundedOnce`, `ProductsRoundedOnce`, `QuotientsRoundedOnce`, `RoundsAsNamed`, `OrderAndHashAgree`, `TextIsExact`; `SumsAndProductsExact`, `ProductFits`, `DifferenceExact`, `DivisionExact` |
| `JsonText` | `JsonFaithful` (with `JsonTyped`) | `SpanIsScalar`, `WritesUtf8Only`, `ReadsBack`, `DigitsAreNumber` |
| `JsonTyped` | `JsonFaithful` | `DecodersAgree`, `NothingDropped`, `RefusalReleasesAll`, `EncodersAgree`, `AppendKeepsBytes`, `RoundTrip` |
| `Http2Wire`, `Http2Send` | `Http2Faithful` | `ScanIsFraming`, `NoFalseAlarm`, `LimitsPerStream`; `WellFramed`, `BodyIntact` |
| `Http1Events` | `StreamsFaithful` (with `WebSocketPump`) | `TraceIsMessage`, `SpansInFeed`, `ErrorIsLast` |
| `WebSocketPump` | `StreamsFaithful` | `NoGap`, `TextIsUtf8`, `PeerTold` |
| `PollEvents` | `ReportsFaithful` | `BackendsAgree`, `EventsAreRegistered`, `WakeSeen`, `HangupTold` |
| `SocketIo`, `SocketOpen`, `SocketBytes` | `SocketsFaithful` | `ModesRight`: `FiberNeverBlocks`, `StreamNeverSaysWouldBlock`, `TryIsImmediate`, `FiberAcceptInTime`; `OpeningClean`: `LeavesNothing`, `OneAtATime`, `ComesBackBlocking`; `TransferExact`: `StreamIntact`, `ReadsAreExact` |

Why the bounds are enough.

- Scheduler: the interesting cases need a parent, a child, and a third fiber to be
  the sibling, the hook's waiter or the second user of a pooled record. Parks,
  yields and joins are not counted as operations; three are spawn, cancel (or
  panic) and respawn from the pool. One foreign resume is enough for each of
  its interleavings with settle; the theorems of section 5 remove these bounds
  for the safety properties.
- Poller: two fibers and three waits give an armed and a sleeping fiber, a fiber
  that waits again with something left over from its first wait, and one that is
  only parked; a deadline is before, at or after the clock. Liveness (`Served`)
  is stated for one fiber, chosen by CHOOSE; fibers are interchangeable in the
  module, so it holds of each.
- Channel: a capacity of two and four values make the ring wrap and leave two
  senders waiting beside a full buffer; two fibers and two threads give a waiter
  of each kind beside a cancelled or departed one, and six calls let the same
  actors first fill the buffer and then wait.
- Groups and joins: two children finish in both orders, before and after the owner
  asks; two joiners compete for one handle.
- `services`: two waiters on two lot cells and a futex cell share one bucket; one
  slot of the waker table and two descriptor numbers make every reuse happen; two
  runners fork while the other has its pipes open; two producers and a queue
  of one or two make every drop policy act; two connections and two queued blocks
  let a free overtake a callback; two sources of one thread or of two share signal
  numbers, and two signals raised are one before a drain looks and one after.
- `memory`: three objects are the least in which a cycle holds a further object
  (finding 4 needs exactly that); a linear limit of 2, an index of 4 slots and a
  word of 2 bits make a map of four entries cross every growth; a list of four
  makes a merge with both halves nontrivial.
  A box of each kind of use and a third to pass beside them fill every call.
- `bytes`: two handles and two numbers make every reuse of a number happen, four
  calls open two handles and let one change the file in the middle of the other's
  transfer. The operands sit at the edges (0, 1, half, all nines, full limb), the
  bytes at the borders of every case of the UTF-8 checks, the strings are one
  longer than a word, bodies one larger than a frame, and every piece length from
  one up is fed.

Symmetry is used in `chan` (fibers, threads, values) and `memory` (boxes), which
check invariants, an action property and the step refinement `FifoSpec`, never
liveness.

## 4. Fairness

- `FiberCore`: weak fairness of the worker thread (the running fiber reaches its
  next switch, the scheduler takes its next step) and of a thread inside
  `beans_fiber_resume`, whose loop and locked post are bounded code. No fairness
  of calls by foreign threads. The worker's fairness is of the thread as a
  whole, so which of its choices a fiber's code makes is not fair: a fiber may
  yield for ever.
- `Netpoller`: weak fairness of the worker's scheduling steps and of a thread
  between its post and its kick. Nothing makes a descriptor ready, the clock
  advance, or a thread post; `TimerServedTo` starts at a deadline that has passed,
  `IoServedTo` at a descriptor that is ready. The kernel returning a ready
  descriptor, a pending kick or an expired timeout is part of the worker's step.
- `Channel`: weak fairness of each caller inside a call: its fiber's worker runs
  it and the mutex is granted in the end. No fairness of new calls, cancels or
  stray wakes.
- `TaskGroup`: weak fairness of the owner's turn and strong fairness of some child
  ending. A child that is ready runs whenever the owner gives way, which may be
  only now and then (a loop over try_next yields between answers), hence strong;
  `OwnerReturns` is about groups whose children end.
- `ThreadJoin`: weak fairness of the OS thread, whose body ends, and of a joiner
  inside a join.
- `AtomicWait`: weak fairness of each waiter and of a writer that owes a notify; none
  of stores.
- `PollWake`: weak fairness of the kernel returning from a wait that is due, of the
  wait's own code, of the clock in a finite wait, and of a thread between looking
  up a waker and writing its byte.
- `ChildProcess`, `LogExport`, `TlsSession`, `TlsListener`: no fairness. Every step
  of these models is bounded by a resource, so they cannot run for ever, and their
  termination is stated of every state, with ENABLED: as long as a call has not
  returned, some step of those the code performs by itself is enabled
  (`ShutdownReturns`, `CloseReturns`, `RunReturns`, `HandshakesMeet` in `WaitsEnd`).

## 5. Proofs

Sixteen components have theorems. `FiberCore_proofs` and `Channel_proofs` are about one
each, `Joins_proofs` about threads and groups, `Waits_proofs` about atomic waits,
signals, wakes and TLS sessions, `Ownership_proofs` about the sweep, the files and the weak
table, `Services_proofs` about the log, the TLS objects and the children, `Netpoller_proofs` about the poller and the
sockets; `QueueLemmas` holds what several need. Every theorem is about the components'
own specifications, for every value of their constants. The bounds (operations, waits, stores) stay in the
guards, as any natural number, so that no theorem depends on their size.

What is assumed of the constants is either the module's `ConstantsAssumption`,
which TLC evaluates in the component's run, or a named hypothesis of the theorem:

| Module | Assumed | Why the code gives it |
|---|---|---|
| `FiberCore` | the root is a fiber, the records are finitely many, `None` is none of them, bounds are naturals | `None` is the null pointer |
| `Channel` | fibers and threads are disjoint and finitely many, `None` is no value, capacity an integer | a caller has a current fiber or it has not |
| `Netpoller` | finitely many fibers, at least one, `None` is neither a fiber nor a time | |
| `ThreadJoin` | `NobodyIsNoCaller`: the null waiter is no caller | `join_waiter` is 0 when empty |
| `TaskGroup` | `KidsAssumption`: the children are finitely many, `NoKid` is none of them, the bound on stray wakes is a natural | `NoKid` is the null row |
| `HuskSweep` | `FiniteThreads` | a process has finitely many threads |
| `WeakRefs` | `WeakConstants`: hash values are naturals, the null is no object, a new table has at least four slots | the mixed address is unsigned; a table starts with 64 slots and doubles |
| `AtomicWait` | `CellsApart`: a cell is a lot cell or a futex cell, not both, nor the null cell | the width of the cell's type decides |
| `LogExport` | `SinkHolds`: a sink holds at least one record; a producer does not stop the log | `ExportSink` refuses a capacity that is not positive; a thread that calls `shutdown` is not inside a write of its own |
| `ChildProcess` | `LimitHolds`: the limit on kept output is a natural | a negative one leaves no room, as zero does (10494) |
| `FileHandles` | `FilesHold`: a mapping grows in steps of at least one, the closed number is no descriptor, contents and payloads are sequences of numbers, nobody is no record | a closed handle's descriptor is -1; handles are pointers |
| `SocketIo`, `SocketOpen`, `SocketBytes` | `SocketsHold`: 0 is no descriptor, what is sent is a sequence of numbers, sizes and limits are naturals, a socket is a stream, a datagram socket or a listener | a failed call gives no descriptor; lengths are checked first |
| `TlsSession` | `MessagesHold`: a message of SChannel takes at least one byte | `cbMaximumMessage` is the size of the plaintext a record carries |
| `PollWake` | `WakeConstants`: finitely many pollers, fewer than the generations a handle has room for; a pipe holds at least one byte; timeouts are integers; the names of files and of nobody are no pollers or threads | `gen` is a `long long` that is or-ed into the low 32 bits of a handle: after 2^32 reuses of one slot it would reach into the slot's bits |

| Theorem | Property |
|---|---|
| `FiberCore_proofs`: `TypeCorrect` | `TypeOK` |
| `LinkedOnceCorrect`, `ReadyIsQueuedCorrect`, `PublishCorrect`, `LiveCountCorrect` | the parts of `QueuesSound` |
| `QueuesSoundCorrect` | `QueuesSound` |
| `JoinerCorrect`, `PoolCorrect` | `JoinerNotStranded`, `PooledUnreachable` |
| `CancelNeverSleptCorrect`, `CancelledOnlyIfAskedCorrect` | the parts of `CancelSound` |
| `CancelSoundCorrect` | `CancelSound` |
| `TokenCorrect` | `TokenSpec`, the refinement of `WakeToken` |
| `Channel_proofs`: `LinesExactCorrect` | `LinesExact` |
| `FifoCorrect` | `FifoSpec`, the refinement of `ChannelFifo` |
| `NobodyStrandedCorrect` | `NobodyStranded` |
| `Netpoller_proofs`: `WaitsAccountedCorrect`, `KickNotLostCorrect`, `ReportIsDeadlockCorrect` | `WaitsAccounted`, `KickNotLost`, `ReportIsDeadlock` |
| `SocketsFaithfulCorrect` | `SocketsFaithful`, of the three socket modules together |
| `Joins_proofs`: `HandleCorrect` | `HandleKept` |
| `DoneBeatsCancelCorrect` | `DoneBeatsCancel`, the action property in `JoinsEnd` |
| `GroupCorrect` | `GroupKeepsChildren` |
| `Ownership_proofs`: `SweepCorrect`, `FilesRightCorrect` | `SweepSafe`, `FilesRight` |
| `WeakExactCorrect` | `WeakExact`, an invariant and an action property |
| `Waits_proofs`: `NobodySleepsThroughCorrect` | `NobodySleepsThrough` |
| `SignalsCorrect`, `WakesCorrect` | `SignalsKept`, `WakesArrive` |
| `PumpFaithfulCorrect` | `PumpFaithful` |
| `Services_proofs`: `RecordsKeptCorrect`, `RunsCleanCorrect` | `RecordsKept`, `RunsClean` |
| `ConnectionsKeptCorrect`, `NothingLeaksCorrect` | the parts of `TlsObjectsKept` |
| `TlsObjectsKeptCorrect` | `TlsObjectsKept` |

With these, every invariant of the runs `fiber`, `poll`, `chan`, `tasks` and
`services` is a theorem.

### FiberCore

None of the invariants is inductive alone. The argument goes in three layers and
a refinement.

1. `CoreInv` = `TypeOK`, `WorkerInv`, `ThreadInv`, `PoolEnded`, `LinkedOnce`,
   `ReadyIsQueued`. `LinkedOnce` needs `ReadyIsQueued`: a push is safe because
   the pushed fiber was not READY, hence on no list. `ReadyIsQueued` needs
   `WorkerInv`: the fiber settle makes READY was PARKING, and is the one settling.
   `PublishFindsParking` is a conjunct of `WorkerInv`: nothing but settle moves
   a fiber out of PARKING. `LiveCount` follows with a cardinality argument for
   the two steps that change the table.
2. `HandleInv` (over `CoreInv`) = `JoinsOwn`, `NoTarget`, `JoinerJoins`, `Unheld`,
   `SleeperNamed`: who holds a handle, who joins with it, and what the `joiner`
   field names. `SleeperNamed` speaks also of the fiber that is falling asleep,
   between its switch and settle, for `JoinerNotStranded` says nothing there.
3. `CancelInv` (over `CoreInv`) = `CancelNeverSlept`, `FallingAsleep`, `FlagAsked`,
   `CancelledOnlyIfAsked`: a fiber that switches to park has no observable
   cancellation and cannot acquire one before settle is done.
4. `TokenInv`: until a foreign resume happens no thread is inside one, and the latch
   that settle found empty is still empty when it publishes PARKED. Under it each
   step maps to a step of `WakeToken` or to a stutter; finding 1 is what happens to
   the same mapping afterwards.

### Channel

`LinesInv` = `TypeOK`, `RingInv`, `CallInv`, `LineInv`, `TokenInv`,
`NotBlockedIfSignalled`, `ClosedHasNoWaiters`. `LineInv` says of each line that it is
injective and holds exactly the fibers that wait on its side and are not signalled;
it needs `CallInv`, which ties the operation and the kind of caller to its place in
the call. `NotBlockedIfSignalled` needs `TokenInv`: a signal that comes between
joining the line and the park is remembered by the token. `RingInv` relates the
ring's slots from `head` on to what was sent and not received; the refinement of
`ChannelFifo` rests on it, since a receive must return the oldest value whatever
wrapped. `StrandInv` adds `GateEmpty` and `NobodyStranded`, which counts: as many
waiters are coming back as there are values (or free places) left for a line that
is not empty. Each step moves a waiter, a value or a wake, so the lemmas
`PutServed`, `TakeServed`, `WaitServed`, `ClosedServed` and `QuietServed` compare the
cardinalities before and after.

### Netpoller

`NetInv` = `NetTypes`, `QueueInv`, `PollInv`, `ArmInv`, `CountInv`, `ReportIsDeadlock`,
and until the first cancel `TimerInv`. `KickNotLost` needs to know which phases
`in_poll` spans. `CountInv` bounds the error of `io_waiters` by the number of fibers
that unwound out of a wait, and that by the number of cancels: with none the count
is exact, which gives `CountedUntilCancel`, and with one it can be off by one, which is
finding 2. `TimerInv` says which timers may be stale and where: a wait that ended by
its own clock leaves a due one behind until the loop fires it. `ReportIsDeadlock`
follows since at the report the queues are empty (`QueueInv`), nobody is armed
(`CountInv`) and no timer is live (`TimerInv`).

### TaskGroup

None of the four parts of `GroupKeepsChildren` is inductive. `GroupInv` adds three
groups of facts:

- `RowsInv`, about the list and the clock. `ClockInv`: the clock is the number of
  children that ended, and no two have one stamp. `ListInv`: the slots emptied so far
  are as many as the outcomes delivered, so the step that frees the list when the
  two are equal frees no row. `OrderInv`: what was handed out ended before anything
  that is done and still in the list; with it `CompletionOrder` survives each next,
  which takes the least stamp.
- `PlaceInv`, about the owner. A parked owner is registered where the completion
  hook looks: as the group's waiter in next and wait_all, as the joiner of the first
  unjoined row in cancel_all and scope exit. Hence `NotAsleepOverDone`.
- `PanicInv`: only scope exit drops an outcome, and a panic it joined and has not
  rethrown is that of a child it asked to cancel while it was itself unwound by a
  cancellation. This is what `PanicNotSwallowed` needs of the states in which the
  scope is half way.

### ThreadJoin, HuskSweep, AtomicWait, Signals, PollWake

- `HandleInv` = `TypeOK`, `ThreadInv` (the OS thread's place decides `done`, its count
  and the result), `RefsInv` (a reference is dropped only after every caller came
  out of its call), `OwnerInv` (the reservation has exactly one owner), `WaiterInv`
  (a waiter is registered until the ending thread takes it out, which then owes the
  wake). `DoneBeatsCancel` follows from it step by step.
- `HuskInv` = `HuskTypeOK`, `CountInv` (the reference count is the number of holders,
  the walk count the number of walkers), `LifeInv`, `EntryInv`, `WindowInv`. That no
  shell is touched after it was freed needs `LifeInv`: at most one thread finishes
  the death, after the last reference went; that it is freed once needs `EntryInv`:
  the thread that set `CC_BUF` owes exactly one entry.
- `WaitInv` = `WaitTypeOK`, `PlaceInv`, `NobodySleepsThrough`: a signalled waiter is one
  that slept, and each kind of sleep goes with its kind of cell.
- `SigInv` = `SigTypeOK`, `CountInv` (each count of shared ownership is the number of
  the thread's sources), `CallInv` (a thread is in one call), `DrainInv` (what the look
  of a drain showed is pending until it is taken, by this thread or by a source of the
  other), `MaskInv` (what a thread blocks, and what a close is about to unblock),
  `KilledInv`, `AloneNeverHangs`. No assumption is made of the constants.
- `WakesInv` = `WakeTypeOK`, `GenInv` (a slot's generation is at most one more than the
  pollers closed, so it fits the handle), `IssuedInv` (a handle is of its slot's
  present generation, and then of the poller in the slot, or of an earlier one),
  `OpenInv` (an open poller is in the table under its handle with the pipe it holds,
  and keeps the pipe until it closed it), `LockInv` (a thread about to write holds
  the lock and its handle is in the table still), `PokedInv`. A close moves the slot
  to a generation no handle has, and waits for the lock; hence the byte lands right.
  `HandleLemma` decodes a handle again, from the uniqueness of quotient and remainder.

### LogExport, TlsListener, TlsIdentity, ChildProcess

- `LogInv` = `LogTypeOK`, `StopInv`, `OrderInv`, `Accounted`. `StopInv`: an operation that
  announced itself shows in its slot or in its thread's store buffer until it leaves,
  so a shutdown that waits for empty slots after its fence has nobody inside once it
  drains. `OrderInv`: what was taken, the export queue, the record being written and
  the backend's queue each rise, each lies before the next, and none is newer than
  what was written; every drop policy and every step of the backend keeps this, and
  `InOrder` and `StoppedIsDrained` follow.
- `ListenInv` = `ListenTypeOK`, `QueueInv` (a block is queued at most once), `BlockInv`
  (what the running block has established so far), `OwnInv` (the lists of all, ready,
  in a handler and accepted connections divide the live ones), `CloseInv`, `RefInv`
  (the count of references is the number of live streams, and one for the listener
  until it is freed), `OpInv`, `NotAsleepOverReady`, `ChallengeInv`. `RefInv` compares
  cardinalities at each retain and release; that the last release frees nothing in use
  is `OwnInv`. `ChallengeInv`: a challenge that is queued or runs is of a connection not
  yet settled, so one that is left when the close is through is a `LateChallenge`.
- `IdentityInv`: what a constructor has acquired before its step n is what its list of
  steps says (`Held`). The theorem rests on `Balanced`, which compares, for every step
  of every program, what the failure path there releases with what is held, but for
  `LostOnFailure` and `LostAtEnd`.
- `ChildInv` = `ChildTypeOK` and for each runner `ProcHeld` (which processes live, are dead
  or reaped at each place of the call; an answer once given is final), `EndsHeld` (which
  ends of which pipe the caller has open there) and `FlowHeld` (what was kept is what came
  out cut at the limit; a closed read end means that nothing is under way and nobody
  can write). Two runners touch each other only in `Fork`, which copies descriptors.

### TlsSession

`SessionInv` has five parts.

- `SessionTypeOK`: a session between two calls has nothing left in its output buffer.
- `DataInv`: for each side, what was read, then what was decrypted, then the whole
  records on their way (`Pipe`: what the session holds that it has not used, then the
  wire) are all bytes the peer wrote, in order, with the peer's close_notify last; after a
  cut they are a beginning of it. `Flows` says it by counting: each whole record
  carries the numbers that follow those before it.
- `PhaseInv`: where client and server are in the handshake decides what may be on its
  way in each direction, e.g. between the server's flight and the client's answer
  the pipe to the server is empty and the one to the client holds at most the flight.
- `StandsInv`: where each side is in its calls; a pump only runs when no whole record
  is left, so an end of the stream met there is a real one; an established stream ends
  only with close_notify, the end of the socket or a timeout.
- `EndInv`: without a cut a side meets the end of its stream only when its peer sent
  close_notify or let its socket go; and an established stream that reports `eof` was
  left behind (`LeftBehind`): its peer is gone, sent no close_notify, and all it wrote was
  read. The last part is `ReadOut`: a read pump that finds nothing left has used every
  whole record, so a close_notify that had been sent would have been seen.

`BytesInOrder` follows from `DataInv`, `CleanEndIsComplete` from it and `StandsInv`,
`EstablishedIsAgreed` from `PhaseInv`, `TruncationIsReal` from `EndInv`. `FlowPut`,
`FlowTake` and `FlowCut` say what a record appended, a record used and a cut do to a
flow; `ReadIs` and `WriteIs` what the loops over records come to on each backend;
`ClientTurns` and `ServerTurns` go through the turns of a handshake, and `InvStored`
reduces a step of one session to the pipes it changed. One lemma per action
(`HandshakeKeeps`, `SendBytesKeeps`, `PumpKeeps`, ...)
then says that it keeps `SessionInv`.

### WeakRefs

`WeakInv` = `WeakTypeOK`, `TableInv`, `HoldInv`. `HoldInv` says who is in the table, alive
and held; with it a dead object reads as gone and is not revived. `TableInv` says that
the table has an empty slot and is `Sound`: no object has two slots (`Apart`), and no
slot between an object's home and its own is empty (`OnPath`), so that a probe that
stops at an empty slot has missed nothing. `InsertSound` and `GrowSound` keep it. Within a removal
it does not hold: `Partly` says that, after the slots up to n places behind the cleared
one were worked on, only entries of the rest of the cluster can have an empty slot on
their path, and that slot is one of those worked on. `PartlyBegins`, `PartlyGoesOn` and
`PartlyEnds` take it from the cleared slot to the end of the cluster, and `RemoveSound` follows.

Growth and removal are recursive functions of the number of slots done. `WalkExists`
shows that such a function exists, from the least number where it would not; the facts
about its values are proved from the least n where they would fail, both by `LeastLemma`.
That the size is a power of two is not needed, that there is room is.

### FileHandles and the sockets

- `FileInv` = `FileTypeOK`, `OpenInv` (an open handle has its record and its number),
  `DescriptorsOwned`, `BusyInv` (a transfer keeps its handle; as long as nobody else
  changed the file, a reader reads what was there when it began), `TransfersExact`. The
  lemmas on `Put` say what a write does to a file place by place.
- `OpenInv` of the sockets: the call has one socket open while it tries an address and
  none between two of them. `IoInv` = `IoTypeOK`, `ModeInv` (the cached facts about the
  mode are true of the descriptor; a fiber inside a call has it nonblocking; only a
  blocking one waits in the kernel), `TimeInv` (a fiber's accept has spent what its limit
  no longer has). `BytesInv` = `BytesTypeOK`, `FlowInv`: what was taken, then what is read,
  then what is under way, is the beginning of what was given up to the offset of the
  response in progress. `PartFacts` says what one gathered send offers: the response
  from the offset on, however it is cut at the buffers and the chunk.

`QueueLemmas`: `PushLemma`, `PopLemma`, `RemoveLemma`, `SpliceLemma` say what append,
tail, removal and concatenation do to an injective sequence and its range,
`PlacesLemma` that it holds a fiber at one place or none, `ShortLemma` deals with the
empty queue and the queue of one, `LeastLemma` gives the least member of a set of
naturals. Each proof has one lemma
per group of actions, and under it a step per action and conjunct.

### Model-checked only

- Every liveness property, and every property that uses ENABLED: the prover
  handles neither. The terminations `RunReturns`, `ShutdownReturns`, `CloseReturns`,
  `HandshakesMeet` are of the second kind.
- `CollectionExact`, `ContainersExact`, `RegistryExact`, `CallsChecked`,
  `PayloadsOwned` and all properties of `bytes` but `FilesRight` and `SocketsFaithful`: their
  models walk data by recursive operators or folds, or use `Bitwise`, which no theorem
  may rest on here; a walk over a structure (a graph, a syntax tree, a schema) needs
  induction over data besides, and the library's induction theorems cannot be
  instantiated. The walks of the weak table are functions of a number, and there
  `LeastLemma` does instead.
- The violations of section 6, which are counterexamples.

## 6. Findings

1. `fiber_lost_wake`. `settle` takes the wake latch and publishes PARKED in two
   steps. A resume on another thread that loads PARKING, latches after the
   exchange, and loads PARKING again before the compare-and-swap returns
   satisfied; the compare-and-swap succeeds, and the fiber is parked with its
   wake latched. `runtime/beans_fiber.h` says a "resume/park race never loses the
   wake". The branch meant for it ("A wake latched between the exchange and the
   store: requeue.") is taken only when the state is no longer PARKING, which a
   latch does not bring about: `PublishCorrect` proves that it is dead code.
   A second look at `pending_wake` after publishing PARKED would close it.
2. `poll_undercount`. The cancel path of `beans_fiber_wait_io` calls
   `poller_disarm`, which decrements `io_waiters`; when the descriptor was
   delivered before the cancelled fiber ran, `poller_drain` has decremented it
   already. With another fiber armed, the count reaches zero and the idle wait
   stops polling for it. "io_waiters counts armed fibers" is the comment of the
   field.
3. `poll_no_report`. The idle worker asks once whether a thread may still wake it
   and then waits without a timeout; a thread that ends afterwards tells nobody.
   `spec/CONCURRENCY.md` says such a program "exits 3 instead of hanging".
4. `gc_reachable`. An object that its thread has parked in its own root buffer can
   become shared afterwards (`thread.spawn` publishes the graph). A second
   candidate of the same cycle then goes to the global buffer, and the global
   collection walks from it through the parked object: `cc_scan` does not stop at a
   foreign `CC_BUF`, as `cc_worker_scan` does, but `cc_collect_white` skips such an
   object and kills the rest. In the trace a and b form a cycle and b holds c, which
   the program holds too; b is parked, the graph published, a dropped; the
   collection kills a and leaves b, whose later death releases c once too often.
   The comment at `runtime/beans_rt.c:3360` describes the hazard for the
   owner-local walk: "two independent root buffers free opposite halves of one
   graph". `CountsExact` and `NoDangling` are checked where no object is parked in
   one buffer while reachable from the other.
5. `join_stale`. `thread_main` sets `done`, takes the waiter out of the handle and
   resumes it, in three steps. A joiner whose park is cancelled, and whose second
   look at `done` came before them, clears the field, unwinds and ends while the
   thread holds its pointer: the resume reaches a record that has been pooled,
   reused or freed. The comment at `runtime/beans_rt.c:16387` says "The wake latch
   absorbs every interleaving with the joiner registering itself"; the latch is in
   the record that is gone.

With cancels, finding 2 and the stale timers below also make a deadlock report wrong
(an armed fiber that is not counted looks like nobody to wait for), so
`ReportIsDeadlock` is stated up to the first cancel, as `CountedUntilCancel` and
`TimersUntilCancel` are.

Places where a property had to be restricted, because the code does something else
in the case left out (lines of `runtime/beans_rt.c` unless a file is named):

- `beans_fiber_sleep` can return by its own reading of the clock with its heap entry
  still there; `sleeper_remove` later removes the first entry that names the fiber,
  which can be the old one, and the entry of a cancelled or answered wait stays
  (`beans_fiber.c:802`: "the timer must not resume the fiber later"). `TimerNamesWaiter`
  in `Netpoller` is what that comment says; with two fibers, `MaxTime = 3`,
  `MaxWaits = 3` and one cancel TLC finds it violated.
- `next` and `wait_all` let a cancellation win over a child that is already
  finished (18790; `spec/CONCURRENCY.md:776` can be read otherwise); a cancelled
  owner that loops over `try_next` never gives way, since its yield answers at once
  (18807).
- A deinit body that drops the last reference back to its own object: the count
  read before the body is stored back after it (1334). One that inserts into the map
  being cleared (8450). A comparator that removes and adds, which is not noticed, or
  writes an element in place, which a panic then undoes (2701, 2752).
- A comparator that changes the length or the storage of the list and then panics
  itself, or is unwound by a cancellation: `rt_restore_fire` copies the snapshot back
  (2706-2710) before `rt_sort_check` (7401-7402) could stand it down. Elements that were
  removed come back dead, those that were added are lost, and after a growth the copy
  goes into a freed block. `spec/CONCURRENCY.md:616-627` says of a structural change that
  the list "stays as the mutation left it". Modelled (`ChangesAndPanics`); `OwnsItems`
  asks nothing of the list afterwards (`torn = "restored"`).
- A deinit body that pushes into the list being cleared: the walk stops at the first
  slot the list owns again (7272-7277), and the elements whose slots were overwritten
  are never released, though the comment at 7250-7256 counts them as no longer the
  loop's. `OwnsItems` then asks for no dead element, not for an exact count.
- `round` of a zero whose places lie beyond its digits, under ceil and floor: the
  answer is one unit (17870).
- `sig_drain` with two threads that watch one signal: `sigpending` shows it to both, one
  takes it, and the other's `sigwait` blocks until it comes again (15862-15873). The
  comment there says "this can never hang", and `spec/SYNTAX.md` "`drain()` never blocks".
  A second thread that closes its own source also drains a signal the first one still
  watches, and unblocks one it inherited. `AloneNeverHangs` and `MasksComeBack` say
  exactly this much.
- TLS. Network.framework's challenge block reads the session's identities
  (`beans_net_tls.c:1055-1073`). It is no handler that a cancel clears: one that is queued
  behind the block `beans_tls_free` waits for, of a connection nobody had accepted, runs
  when the session may have been destroyed. `UsersFindTheirObjects` exempts that block
  and no other (`LateChallenge`). SChannel's PKCS#12 loader leaves the `break` at about
  2762 with the enumerated context still held, and when it fails before it has opened
  the key, the key that `PFXImportCertStore` stored stays in the user's container
  (`LostAtEnd`, `LostOnFailure`); of several keys in one file only the first is deleted,
  and a second turn of the loop overwrites `key_provider`.
- A TLS stream that has read the peer's close_notify is not live, so it can neither
  write nor send its own (`tls.b:618-621`), though the comment of `shutdown_write` has reads go
  on until the peer answers; the peer that half-closed first reads "eof". So
  `TruncationIsReal` lets a stream that read everything report one.
- Two runs without a deadline that inherit each other's pipes on POSIX (10338); a Windows registration whose
  socket was closed (15623); a datagram socket that moves from a fiber to a
  thread (`net.b:239`); deadlines that start again per address or per round
  (13506, 13706).
- HTTP/2 windows that only grow (`beans_net_h2.c:353`), so a peer within its window can be
  refused: `NoFalseAlarm` is about the order of frames, and about at most `MaxOpen`
  streams of a client; SChannel's handshake, which
  asks for more bytes while whole records are buffered (`beans_net_tls.c:3157`);
  JSON null exactly at the depth limit, and integers of narrow lists, written with
  their own width and read as words (`beans_enc_json.c:772`, `1180`).
- `std.reflect`: a box passed twice in one call is moved out twice (6739); a callee
  that panics drops its arguments and leaves their boxes full (6742); a field is
  asked of a box whose content a call has moved out (6332). The constants
  `SharesBoxes`, `Panics` and `UsesEmptied` of `ReflectCall` admit these uses, and the
  properties of its boxes fail. An `Initializer` shows its base's parameters when its
  own `init` has none (6505), an interface's base interfaces are not followed (6096),
  relations are registered before their owner, so that lookups fall back to scans
  (5468): `InitializerShowsItsOwn`, `AssignableComplete` and `OwnersFirst` state the
  opposite and TLC refutes each.
- While other threads live, closing a file is deferred to the last reference
  (10138), and with it the release of its lock.

## 7. Not modelled

- The context switch, stacks and guard pages, the platform unwinder and landing
  pads: a switch is atomic, an unwind is its status and the catch depth.
- The timer heap as an array, the kqueue change list, the failure of
  `poller_arm` (the caller falls back to blocking), two fibers on one
  descriptor (`spec/CONCURRENCY.md` excludes it).
- Reference counts of channel values; the interpreter's reset of its mask after
  a handler returned.
- Several workers: a fiber never migrates, so another worker's thread is a
  foreign thread of this model.
- Allocation failure and the failure of `pthread_create`, except where a module
  says so (`TlsIdentity`); so neither the map whose buffer cannot grow
  (`beans_rt.c:7829`) nor the thread that was never made (16420) is reached.
- The first load of a TLS library by two threads at once (`beans_net_tls.c:1549`).
- TLS sends that fail or time out: `flush_outgoing` returns with part of a chunk unsent
  and the stream alive (`tls.b:368-378`), so that what is written later does not decrypt.
  `write` and the reads after it are checked for sends that end.
- Error paths beside the ones a module takes: `poll` or `read` failing in `process.run`
  (`beans_rt.c:10414`, `10468-10471`); an allocation that fails in an HTTP/1 callback, which
  sets a flag there and is told at the end of the feed (`beans_net_h1.c:201-208`, `427`), and
  at once in the model.
- Steps taken as one: a map's removal releases key and value after it unlinked them
  (`beans_rt.c:8302-8303`), in one step; the box of an optional member
  (`beans_enc_json.c:595-601`, `850-855`) is not counted beside its value; `take` on a
  signalfd consumes all that is pending, and the limit of 32 (`signal.b:111`) exceeds
  the table.
- Slabs and free lists of the allocator; control blocks of Shared and Weak handles;
  list slices and searches; hash functions (a constant of `HashMap`).
- Strings, formatting, floating-point conversion; name resolution and socket
  options; HTTP/2 push and trailers; the WebSocket handshake and deflate stream;
  cryptography, record layers and the vendored parsers, which appear as what the
  bridges ask of them.
- Files: paths, directories, copies and metadata; error codes; a write through a
  mapping beyond a file that was cut under it (SIGBUS); on Windows the order of
  resizing a mapping and its file, where a truncation that fails after the unmap leaves
  an empty mapping over an unchanged file (`beans_rt.c:11762-11767`).
- Reflection: the texts of handles and errors, the emission of the invokers
  themselves, values of enums with payloads that are boxed by the compiler.
- XML, base64 and the DOM calls of JSON: bindings over vendored libraries without
  state of their own.
- The mutex: the platform's. The compiler, emitter, language server, debugger, the
  standard library's HTTP server and client and the benchmark runner: sequential
  code, or protocol code in Beans over the bridges modelled here.

## 8. Plan

Done: every component listed in section 2 is modelled and checked. The scheduler,
poller, channels, joins, groups, waits, signals, wakes, the sweep, files, sockets, the
log, TLS objects and sessions, children and the weak table are proved about.

Next, in this order:

1. `CycleCollector`: `BufHasOneOwner` and `DeinitOnce`, which are about the flags and
   not the walks.
2. `ReflectCall`: `PayloadsOwned` without its fold over the arguments.
3. `ThreadJoin` over `FiberCore`'s pool: the record the late resume of finding 5
   reaches, followed through its reuse.
