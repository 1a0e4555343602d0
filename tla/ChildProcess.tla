---------------------------- MODULE ChildProcess ----------------------------
(***************************************************************************)
(* Running another program (beans_proc_run, beans_proc_start and the calls *)
(* on a running child, src/runtime/beans_rt.c, with the Child of           *)
(* stdlib/std/process): pipes, fork and exec or CreateProcess, feeding     *)
(* stdin while draining both outputs, one deadline for all of it, and the  *)
(* reaping of every child.                                                 *)
(*                                                                         *)
(* A pipe is the set of processes that hold each of its ends.  A fork      *)
(* copies every descriptor the program has open at that moment, those of a *)
(* run on another thread too; only the pipe that reports a failed exec is  *)
(* closed by exec.  CreateProcess hands over three named handles, under a  *)
(* lock.                                                                   *)
(***************************************************************************)
EXTENDS Naturals, FiniteSets, Sequences

CONSTANTS
    Runners,      \* threads of the program, one call each
    Jobs,         \* what they call: functions from Runners to jobs
    PipeSize,      \* bytes a pipe holds
    MaxOutput     \* max_output of a run
    \* A job: os "posix" or "windows", call "run" or "start", budget (is there
    \* a timeout), input (bytes of stdin), ok (can the program be executed),
    \* script (what the program does, a sequence of "read", "out", "err",
    \* "helper" and "hang").

VARIABLES
    job, ppc,
    wr, rd,       \* holders of the write and read ends, per runner and stream
    ew, cloexec,  \* holders of the exec pipe's write end; is it close-on-exec
    held,         \* bytes in each pipe
    proc, helper, \* the child and the helper it leaves behind
    ip,           \* how far the child's script has run
    sent, kept,   \* bytes the child wrote and the run kept, per stream
    pushed,       \* bytes of stdin written
    expired,      \* the deadline has passed
    out           \* what the call returned

childVars == <<job, ppc, wr, rd, ew, cloexec, held, proc, helper, ip, sent, kept, pushed, expired, out>>
pipes == <<wr, rd, ew, cloexec, held>>
child == <<proc, helper, ip, sent>>
capture == <<kept, pushed>>

Streams == {"in", "out", "err"}
Outputs == {"out", "err"}
Caller == <<"program">>
Child(r) == <<"child", r>>
Helper(r) == <<"helper", r>>
Posix(r) == job[r].os = "posix"
Each(x) == [r \in Runners |-> [s \in Streams |-> x]]

ChildInit ==
    /\ job \in Jobs
    /\ ppc = [r \in Runners |-> "call"]
    /\ wr = Each({}) /\ rd = Each({}) /\ held = Each(0)
    /\ ew = [r \in Runners |-> {}] /\ cloexec = [r \in Runners |-> FALSE]
    /\ proc = [r \in Runners |-> "none"] /\ helper = [r \in Runners |-> "none"]
    /\ ip = [r \in Runners |-> 1] /\ sent = Each(0) /\ kept = Each(0)
    /\ pushed = [r \in Runners |-> 0] /\ expired = [r \in Runners |-> FALSE]
    /\ out = [r \in Runners |-> "none"]

GoesTo(r, to) == ppc' = [ppc EXCEPT ![r] = to]
Returns(r, what) == ppc' = [ppc EXCEPT ![r] = "done"] /\ out' = [out EXCEPT ![r] = what]

\* close by the program of some of its ends of r's pipes.
Drop(f, r, S) == [f EXCEPT ![r] = [s \in Streams |-> IF s \in S THEN f[r][s] \ {Caller} ELSE f[r][s]]]
\* Processes that end close everything they hold.
Gone(f, D) == [r \in Runners |-> [s \in Streams |-> f[r][s] \ D]]
GoneExec(D) == [r \in Runners |-> ew[r] \ D]
Group(r) == {Child(r), Helper(r)}

(***************************************************************************)
(* Spawning, POSIX.                                                        *)
(***************************************************************************)
\* Four pipes; one that fails takes the ones before it along.
MakePipes(r) ==
    /\ ppc[r] = "call" /\ Posix(r)
    /\ \/ /\ wr' = [wr EXCEPT ![r] = [s \in Streams |-> {Caller}]]
          /\ rd' = [rd EXCEPT ![r] = [s \in Streams |-> {Caller}]]
          /\ ew' = [ew EXCEPT ![r] = {Caller}]
          /\ GoesTo(r, "cloexec") /\ UNCHANGED out
       \/ Returns(r, "error") /\ UNCHANGED <<wr, rd, ew>>
    /\ UNCHANGED <<job, cloexec, held, child, capture, expired>>

SetCloexec(r) ==
    /\ ppc[r] = "cloexec"
    /\ cloexec' = [cloexec EXCEPT ![r] = TRUE]
    /\ GoesTo(r, "fork")
    /\ UNCHANGED <<job, wr, rd, ew, held, child, capture, expired, out>>

\* The child has a copy of whatever the program has open, dups its own three
\* streams and closes the parent's ends of them.
Inherited(f, r, keeps) == [q \in Runners |-> [s \in Streams |->
    IF Caller \in f[q][s] /\ (q # r \/ s \in keeps) THEN f[q][s] \union {Child(r)} ELSE f[q][s]]]
Fork(r) ==
    /\ ppc[r] = "fork"
    /\ \/ /\ wr' = Inherited(wr, r, Outputs) /\ rd' = Inherited(rd, r, {"in"})
          /\ ew' = [q \in Runners |-> IF Caller \in ew[q] THEN ew[q] \union {Child(r)} ELSE ew[q]]
          /\ proc' = [proc EXCEPT ![r] = "born"]
          /\ GoesTo(r, "parent") /\ UNCHANGED out
       \/ /\ Returns(r, "error")
          /\ wr' = Drop(wr, r, Streams) /\ rd' = Drop(rd, r, Streams)
          /\ ew' = [ew EXCEPT ![r] = @ \ {Caller}] /\ UNCHANGED proc
    /\ UNCHANGED <<job, cloexec, held, helper, ip, sent, capture, expired>>

CloseChildEnds(r) ==
    /\ ppc[r] = "parent"
    /\ wr' = Drop(wr, r, Outputs) /\ rd' = Drop(rd, r, {"in"})
    /\ ew' = [ew EXCEPT ![r] = @ \ {Caller}]
    /\ GoesTo(r, "opening")
    /\ UNCHANGED <<job, cloexec, held, child, capture, expired, out>>

\* In the child: exec closes what is close-on-exec, a failure reports errno
\* through the exec pipe and exits.
Exec(r) ==
    /\ proc[r] = "born"
    /\ IF job[r].ok
       THEN /\ proc' = [proc EXCEPT ![r] = "run"]
            /\ ew' = [q \in Runners |-> IF cloexec[q] THEN ew[q] \ {Child(r)} ELSE ew[q]]
            /\ UNCHANGED <<wr, rd>>
       ELSE /\ proc' = [proc EXCEPT ![r] = "failed"]
            /\ wr' = Gone(wr, {Child(r)}) /\ rd' = Gone(rd, {Child(r)}) /\ ew' = GoneExec({Child(r)})
    /\ UNCHANGED <<job, ppc, cloexec, held, helper, ip, sent, capture, expired, out>>

Dead(r) == proc[r] \in {"exited", "killed", "failed"}
Alive(r) == proc[r] \in {"born", "run"}

\* kill(-pid) and kill(pid) when the call has a budget, kill(pid) otherwise;
\* TerminateJobObject and TerminateProcess likewise.
Victims(r) == IF job[r].budget THEN Group(r) ELSE {Child(r)}
KillAll(r) ==
    /\ wr' = Gone(Drop(wr, r, Streams), Victims(r)) /\ rd' = Gone(Drop(rd, r, Streams), Victims(r))
    /\ ew' = GoneExec(Victims(r))
    /\ proc' = [proc EXCEPT ![r] = "reaped"]
    /\ helper' = [helper EXCEPT ![r] = IF Helper(r) \in Victims(r) /\ @ = "run" THEN "killed" ELSE @]

\* The exec pipe: errno, end of file (the program runs), or the deadline.
ExecFailed(r) ==
    /\ ppc[r] = "opening"
    /\ proc[r] = "failed" \/ (job[r].call = "run" /\ job[r].budget /\ expired[r])
    /\ KillAll(r)
    /\ Returns(r, IF proc[r] = "failed" THEN "error" ELSE "timeout")
    /\ UNCHANGED <<job, cloexec, held, ip, sent, capture, expired>>

Opened(r) ==
    /\ ppc[r] = "opening" /\ ew[r] = {} /\ proc[r] # "failed"
    /\ GoesTo(r, IF job[r].call = "run" THEN "poll" ELSE "handle")
    /\ wr' = IF job[r].call = "run" /\ job[r].input = 0 THEN Drop(wr, r, {"in"}) ELSE wr
    /\ UNCHANGED <<job, rd, ew, cloexec, held, child, capture, expired, out>>

(***************************************************************************)
(* The program that runs: external, it follows its script.                 *)
(***************************************************************************)
Op(r) == IF ip[r] > Len(job[r].script) THEN "exit" ELSE job[r].script[ip[r]]
Advances(r) == ip' = [ip EXCEPT ![r] = @ + 1]

ChildReads(r) ==
    /\ proc[r] = "run" /\ Op(r) = "read"
    /\ \/ held[r]["in"] > 0 /\ held' = [held EXCEPT ![r]["in"] = @ - 1] /\ UNCHANGED ip
       \/ held[r]["in"] = 0 /\ wr[r]["in"] = {} /\ Advances(r) /\ UNCHANGED held
    /\ UNCHANGED <<job, ppc, wr, rd, ew, cloexec, proc, helper, sent, capture, expired, out>>

ChildWrites(r) ==
    /\ proc[r] = "run" /\ Op(r) \in Outputs
    /\ held[r][Op(r)] < PipeSize /\ rd[r][Op(r)] # {}
    /\ held' = [held EXCEPT ![r][Op(r)] = @ + 1] /\ sent' = [sent EXCEPT ![r][Op(r)] = @ + 1]
    /\ Advances(r)
    /\ UNCHANGED <<job, ppc, wr, rd, ew, cloexec, proc, helper, capture, expired, out>>

ChildForks(r) ==
    /\ proc[r] = "run" /\ Op(r) = "helper"
    /\ helper' = [helper EXCEPT ![r] = "run"] /\ Advances(r)
    /\ wr' = [q \in Runners |-> [s \in Streams |-> IF Child(r) \in wr[q][s] THEN wr[q][s] \union {Helper(r)} ELSE wr[q][s]]]
    /\ rd' = [q \in Runners |-> [s \in Streams |-> IF Child(r) \in rd[q][s] THEN rd[q][s] \union {Helper(r)} ELSE rd[q][s]]]
    /\ UNCHANGED <<job, ppc, ew, cloexec, held, proc, sent, capture, expired, out>>

ChildExits(r) ==
    /\ proc[r] = "run"
    /\ Op(r) = "exit" \/ (Op(r) \in Outputs /\ rd[r][Op(r)] = {})
    /\ proc' = [proc EXCEPT ![r] = "exited"]
    /\ wr' = Gone(wr, {Child(r)}) /\ rd' = Gone(rd, {Child(r)}) /\ ew' = GoneExec({Child(r)})
    /\ UNCHANGED <<job, ppc, cloexec, held, helper, ip, sent, capture, expired, out>>

ChildStep(r) == Exec(r) \/ ChildReads(r) \/ ChildWrites(r) \/ ChildForks(r) \/ ChildExits(r)

(***************************************************************************)
(* The loop that watches every descriptor at once, and the reaping.  On    *)
(* Windows the caller feeds stdin and a thread per output drains it.       *)
(***************************************************************************)
Feeding(r) == ppc[r] \in {"poll", "feed"} /\ Caller \in wr[r]["in"]
Drains(r) == ppc[r] \in {"poll", "feed", "join"}

Push(r) ==
    /\ Feeding(r)
    /\ \/ /\ rd[r]["in"] # {} /\ held[r]["in"] < PipeSize /\ pushed[r] < job[r].input
          /\ pushed' = [pushed EXCEPT ![r] = @ + 1] /\ held' = [held EXCEPT ![r]["in"] = @ + 1]
          /\ wr' = IF pushed[r] + 1 >= job[r].input THEN Drop(wr, r, {"in"}) ELSE wr
       \/ rd[r]["in"] = {} /\ wr' = Drop(wr, r, {"in"}) /\ UNCHANGED <<pushed, held>>
    /\ UNCHANGED <<job, ppc, rd, ew, cloexec, child, kept, expired, out>>

\* A read past the limit is thrown away; end of file closes.
Wanted(r, s) == TRUE
DrainPipe(r, s) ==
    /\ Drains(r) /\ Caller \in rd[r][s]
    /\ \/ /\ held[r][s] > 0 /\ Wanted(r, s)
          /\ held' = [held EXCEPT ![r][s] = @ - 1]
          /\ kept' = [kept EXCEPT ![r][s] = IF @ < MaxOutput THEN @ + 1 ELSE @]
          /\ UNCHANGED rd
       \/ held[r][s] = 0 /\ wr[r][s] = {} /\ rd' = Drop(rd, r, {s}) /\ UNCHANGED <<held, kept>>
    /\ UNCHANGED <<job, ppc, wr, ew, cloexec, child, pushed, expired, out>>

\* Mutant: the loop ends with standard output.
DrainedStdout(r) == Caller \notin rd[r]["out"]
Drained(r) == \A s \in Outputs : Caller \notin rd[r][s]
LoopEnds(r) ==
    /\ \/ ppc[r] = "poll" /\ Caller \notin wr[r]["in"] /\ Drained(r) /\ GoesTo(r, "reap")
       \/ ppc[r] = "feed" /\ Caller \notin wr[r]["in"] /\ GoesTo(r, "join")
       \/ ppc[r] = "join" /\ Drained(r) /\ GoesTo(r, "reap")
    /\ UNCHANGED <<job, pipes, child, capture, expired, out>>

\* waitpid, or WaitForSingleObject and CloseHandle.
Reap(r) ==
    /\ ppc[r] = "reap" /\ Dead(r)
    /\ proc' = [proc EXCEPT ![r] = "reaped"]
    /\ Returns(r, "output")
    /\ UNCHANGED <<job, pipes, helper, ip, sent, capture, expired>>

\* The deadline, in the loop or in the wait (POSIX), or on the timer thread,
\* whose kill lets the drains and the wait end (Windows).
TimedOut(r) ==
    /\ ppc[r] \in {"poll", "feed", "join", "reap"} /\ job[r].budget /\ expired[r]
    /\ KillAll(r)
    /\ Returns(r, "timeout")
    /\ UNCHANGED <<job, cloexec, held, ip, sent, capture, expired>>

Deadline(r) ==
    /\ job[r].budget /\ ~expired[r] /\ ppc[r] \notin {"call", "done"}
    /\ expired' = [expired EXCEPT ![r] = TRUE]
    /\ UNCHANGED <<job, ppc, pipes, child, capture, out>>

(***************************************************************************)
(* proc_win_spawn: pipes, inheritable handles and CreateProcess under the  *)
(* spawn lock, so another spawn sees none of it.                           *)
(***************************************************************************)
WinSpawn(r) ==
    /\ ppc[r] = "call" /\ ~Posix(r)
    /\ IF job[r].ok
       THEN /\ wr' = [wr EXCEPT ![r] = [s \in Streams |-> IF s = "in" THEN {Caller} ELSE {Child(r)}]]
            /\ rd' = [rd EXCEPT ![r] = [s \in Streams |-> IF s = "in" THEN {Child(r)} ELSE {Caller}]]
            /\ proc' = [proc EXCEPT ![r] = "run"]
            /\ GoesTo(r, IF job[r].call = "run" THEN "threads" ELSE "handle") /\ UNCHANGED out
       ELSE Returns(r, "error") /\ UNCHANGED <<wr, rd, proc>>
    /\ UNCHANGED <<job, ew, cloexec, held, helper, ip, sent, capture, expired>>

\* The timer and drain threads; one that cannot start stops the child.
WinThreads(r) ==
    /\ ppc[r] = "threads"
    /\ \/ /\ GoesTo(r, "feed")
          /\ wr' = IF job[r].input = 0 THEN Drop(wr, r, {"in"}) ELSE wr
          /\ UNCHANGED <<rd, ew, proc, helper, out>>
       \/ KillAll(r) /\ Returns(r, "error")
    /\ UNCHANGED <<job, cloexec, held, ip, sent, capture, expired>>

(***************************************************************************)
(* A started child: its streams, and what ends it.                         *)
(***************************************************************************)
\* Stream.close, once.
CloseStream(r, s) ==
    /\ ppc[r] = "handle" /\ Caller \in (IF s = "in" THEN wr[r][s] ELSE rd[r][s])
    /\ wr' = Drop(wr, r, {s} \intersect {"in"}) /\ rd' = Drop(rd, r, {s} \intersect Outputs)
    /\ UNCHANGED <<job, ppc, ew, cloexec, held, child, capture, expired, out>>

\* Stream.write and Stream.read, blocking; a write nobody reads fails.
HandleWrites(r) ==
    /\ ppc[r] = "handle" /\ Caller \in wr[r]["in"] /\ pushed[r] < job[r].input
    /\ rd[r]["in"] # {} /\ held[r]["in"] < PipeSize
    /\ pushed' = [pushed EXCEPT ![r] = @ + 1] /\ held' = [held EXCEPT ![r]["in"] = @ + 1]
    /\ UNCHANGED <<job, ppc, wr, rd, ew, cloexec, child, kept, expired, out>>
HandleReads(r, s) ==
    /\ ppc[r] = "handle" /\ Caller \in rd[r][s] /\ held[r][s] > 0
    /\ held' = [held EXCEPT ![r][s] = @ - 1] /\ kept' = [kept EXCEPT ![r][s] = @ + 1]
    /\ UNCHANGED <<job, ppc, wr, rd, ew, cloexec, child, pushed, expired, out>>

\* Child.terminate, kill and send_signal: a child not yet waited for ends, or
\* ignores it; one that is dead stays so.
Signal(r) ==
    /\ ppc[r] = "handle" /\ Alive(r)
    /\ proc' = [proc EXCEPT ![r] = "killed"]
    /\ wr' = Gone(wr, {Child(r)}) /\ rd' = Gone(rd, {Child(r)}) /\ ew' = GoneExec({Child(r)})
    /\ UNCHANGED <<job, ppc, cloexec, held, helper, ip, sent, capture, expired, out>>

\* Child.wait, wait_timeout and is_finished: the one that finds it dead reaps.
Waited(r) ==
    /\ ppc[r] = "handle" /\ Dead(r)
    /\ proc' = [proc EXCEPT ![r] = "reaped"]
    /\ UNCHANGED <<job, ppc, pipes, helper, ip, sent, capture, expired, out>>

\* Child.deinit: terminate, a grace period, kill, wait; then the streams.
DropReaps(r) == proc[r] # "none"
DropHandle(r) ==
    /\ ppc[r] = "handle"
    /\ IF DropReaps(r) THEN KillAll(r)
       ELSE /\ wr' = Drop(wr, r, Streams) /\ rd' = Drop(rd, r, Streams) /\ UNCHANGED <<ew, proc, helper>>
    /\ Returns(r, "dropped")
    /\ UNCHANGED <<job, cloexec, held, ip, sent, capture, expired>>

CallStep(r) ==
    \/ MakePipes(r) \/ SetCloexec(r) \/ Fork(r) \/ CloseChildEnds(r) \/ ExecFailed(r) \/ Opened(r)
    \/ Push(r) \/ LoopEnds(r) \/ Reap(r) \/ TimedOut(r) \/ WinSpawn(r) \/ WinThreads(r) \/ DropHandle(r)

ChildNext == \E r \in Runners :
    \/ CallStep(r) \/ ChildStep(r) \/ Deadline(r) \/ Waited(r) \/ HandleWrites(r) \/ Signal(r)
    \/ \E s \in Streams : CloseStream(r, s)
    \/ \E s \in Outputs : DrainPipe(r, s) \/ HandleReads(r, s)

ChildSpec == ChildInit /\ [][ChildNext]_childVars

----------------------------------------------------------------------------
\* Every call that returned, with whatever outcome, left no child running, no
\* zombie, and none of its own descriptors open.
NothingLeftBehind ==
    \A r \in Runners : ppc[r] = "done" =>
        /\ proc[r] \in {"none", "reaped"}
        /\ Caller \notin ew[r] \union UNION {wr[r][s] \union rd[r][s] : s \in Streams}

Capped(n) == IF n < MaxOutput THEN n ELSE MaxOutput

\* A run that reports output reports, of each stream, all that the child ever
\* wrote to it up to the limit, whatever the order it wrote in.
OutputComplete ==
    \A r \in Runners : out[r] = "output" /\ helper[r] # "run" =>
        \A s \in Outputs : kept[r][s] = Capped(sent[r][s])

\* A run that timed out leaves none of the child's descendants behind.
TimeoutStopsGroup ==
    \A r \in Runners : out[r] = "timeout" => helper[r] # "run"

\* A call that can end: it has a budget, or its program neither hangs nor
\* leaves a helper that keeps the streams open.
CanEnd(r) == job[r].budget \/ \A i \in DOMAIN job[r].script : job[r].script[i] \notin {"hang", "helper"}
InCall(r) == job[r].call = "run" /\ CanEnd(r)
CallReturned(r) == ppc[r] = "done"

RunMoves == \E r \in Runners :
    CallStep(r) \/ ChildStep(r) \/ Deadline(r) \/ \E s \in Outputs : DrainPipe(r, s)

\* No run is stuck: as long as one has not returned, some caller, child or
\* deadline can go on.  No order of reads and writes of the child, and no full
\* pipe, makes the program and the child wait for each other.
RunReturns ==
    \A r \in Runners : InCall(r) /\ ~CallReturned(r) => ENABLED <<RunMoves>>_childVars

\* A run takes all of the output, stops at its deadline with the whole
\* group, and leaves neither process nor descriptor behind (beans_proc_run,
\* beans_proc_start).
RunsClean == NothingLeftBehind /\ OutputComplete /\ TimeoutStopsGroup
=============================================================================
