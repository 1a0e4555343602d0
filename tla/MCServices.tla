----------------------------- MODULE MCServices -----------------------------
(* Callers that depend on somebody they do not control: a writer of an
   atomic cell, the wake of a poller, a child process, a signal, the
   exporter of the log, the peer of a TLS handshake. One behaviour follows one of
   the parts; the others take no step. *)
EXTENDS AtomicWait, Signals, PollWake, LogExport, TlsIdentity, ChildProcess, TlsSession

VARIABLE sel  \* the part this behaviour is about

partsVars == <<sel, vars, signalVars, wakeVars, logVars, listenVars,
               identityVars, childVars, sessionVars>>

CONSTANTS t1, t2, p1, p2,  \* threads and pollers, interchangeable in PollWake
          r1, r2           \* two callers of process.run or process.start

SessionProtocols == <<"h2", "h1">>
\* Each backend once on either side.
SessionBackends ==
    {<<"openssl", "schannel">>, <<"schannel", "securetransport">>,
     <<"securetransport", "openssl">>}
SessionHellos == {[name |-> "a", alpn |-> {"h1", "h2"}], [name |-> "b", alpn |-> {"h1"}]}

\* A chatty child that also reads, one that hangs, one that leaves a helper
\* behind; two callers at once; handles that are dropped.
ChildJob(os, c, b, i, ok, p) ==
    [os |-> os, call |-> c, budget |-> b, input |-> i, ok |-> ok, script |-> p]
Chatty == <<"err", "err", "out", "out", "read", "out">>
ChildJobs ==
    {[r \in Runners |-> IF r = r1 THEN ChildJob(os, "run", b, 2, TRUE, p)
                                  ELSE ChildJob("windows", "run", FALSE, 0, FALSE, <<>>)] :
        os \in {"posix", "windows"}, b \in BOOLEAN,
        p \in {Chatty, <<"out", "err">>, <<"hang">>, <<"out", "helper">>}}
    \union {[r \in Runners |-> IF r = r1 THEN ChildJob("posix", "run", TRUE, 1, TRUE, <<"read", "out">>)
                                         ELSE ChildJob("posix", c, TRUE, 0, ok, <<"read">>)] :
                c \in {"run", "start"}, ok \in BOOLEAN}
    \union {[r \in Runners |-> ChildJob("windows", "run", FALSE, 0, TRUE, <<"read", "out">>)]}
    \union {[r \in Runners |-> ChildJob(os, "start", FALSE, IF r = r1 THEN 1 ELSE 0, r = r1, <<"read", "out">>)] :
                os \in {"posix", "windows"}}

\* What a part that is not selected looks like: one initial state of its own.
NoSignals  == SignalInit /\ backend = "kqueue"
NoLog      == LogInit /\ policy = "newest"
NoIdentity == IdentityInit /\ at.fn = "openssl new"
NoChild    == ChildInit /\ job = CHOOSE j \in Jobs : TRUE
NoSession  == SessionInit /\ trust /\ session.client.be = "openssl" /\ session.client.hello.name = "a"

PartsInit ==
    /\ Init /\ WakeInit /\ ListenInit
    /\ \/ /\ sel \in {"wait", "wake", "listen"}
          /\ NoSignals /\ NoLog /\ NoIdentity /\ NoChild /\ NoSession
       \/ /\ sel = "signals" /\ SignalInit
          /\ NoLog /\ NoIdentity /\ NoChild /\ NoSession
       \/ /\ sel = "log" /\ LogInit
          /\ NoSignals /\ NoIdentity /\ NoChild /\ NoSession
       \/ /\ sel = "identity" /\ IdentityInit
          /\ NoSignals /\ NoLog /\ NoChild /\ NoSession
       \/ /\ sel = "child" /\ ChildInit
          /\ NoSignals /\ NoLog /\ NoIdentity /\ NoSession
       \/ /\ sel = "session" /\ SessionInit
          /\ NoSignals /\ NoLog /\ NoIdentity /\ NoChild

CellPartStep ==
    /\ sel = "wait" /\ Next
    /\ UNCHANGED <<sel, signalVars, wakeVars, logVars, listenVars, identityVars,
                   childVars, sessionVars>>
WakeStep ==
    /\ sel = "wake" /\ WakeNext
    /\ UNCHANGED <<sel, vars, signalVars, logVars, listenVars, identityVars,
                   childVars, sessionVars>>
SignalPartStep ==
    /\ sel = "signals" /\ SignalNext
    /\ UNCHANGED <<sel, vars, wakeVars, logVars, listenVars, identityVars,
                   childVars, sessionVars>>
LogStep ==
    /\ sel = "log" /\ LogNext
    /\ UNCHANGED <<sel, vars, signalVars, wakeVars, listenVars, identityVars,
                   childVars, sessionVars>>
ListenStep ==
    /\ sel = "listen" /\ ListenNext
    /\ UNCHANGED <<sel, vars, signalVars, wakeVars, logVars, identityVars,
                   childVars, sessionVars>>
IdentityStep ==
    /\ sel = "identity" /\ IdentityNext
    /\ UNCHANGED <<sel, vars, signalVars, wakeVars, logVars, listenVars,
                   childVars, sessionVars>>
ChildPartStep ==
    /\ sel = "child" /\ ChildNext
    /\ UNCHANGED <<sel, vars, signalVars, wakeVars, logVars, listenVars,
                   identityVars, sessionVars>>
SessionStep ==
    /\ sel = "session" /\ SessionNext
    /\ UNCHANGED <<sel, vars, signalVars, wakeVars, logVars, listenVars,
                   identityVars, childVars>>

PartsNext == CellPartStep \/ WakeStep \/ SignalPartStep \/ LogStep
    \/ ListenStep \/ IdentityStep \/ ChildPartStep \/ SessionStep

\* The fairness of each part, as its own module states it.
PartsFairness ==
    /\ \A w \in Waiters : WF_vars(sel = "wait" /\ WaitStep(w))
    /\ \A t \in Writers : WF_vars(sel = "wait" /\ PaysNotify(t))
    /\ \A p \in Pollers : /\ WF_wakeVars(sel = "wake" /\ KernelReturns(p))
                         /\ WF_wakeVars(sel = "wake" /\ WaitReturns(p))
                         /\ WF_wakeVars(sel = "wake" /\ Tick(p))
    /\ \A t \in Threads : WF_wakeVars(sel = "wake" /\ WakeWrite(t))

PartsSpec == PartsInit /\ [][PartsNext]_partsVars /\ PartsFairness

\* A picked waiter of an atomic cell and a poller that was woken or has a
\* deadline return; a shutdown of the log, a close of a listener, a run of a
\* program and a handshake of two TLS sessions always have somebody who can move
\* (AtomicWait, PollWake, LogExport, TlsListener, ChildProcess, TlsSession).
WaitsEnd == PickedReturns /\ WaitEnds /\ []ShutdownReturns /\ []CloseReturns
    /\ [](sel = "child" => RunReturns) /\ [](sel = "session" => HandshakesMeet)

=============================================================================
