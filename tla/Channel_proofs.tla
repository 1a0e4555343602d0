--------------------------- MODULE Channel_proofs ---------------------------
(***************************************************************************)
(* Proofs about Channel: the wait lines, the wakes and the ring buffer are *)
(* right for every set of fibers, threads and values, every capacity and   *)
(* all bounds.                                                             *)
(***************************************************************************)
EXTENDS Channel, QueueLemmas

-----------------------------------------------------------------------------
(* The inductive invariant of the calls and the lines.                     *)

\* A fiber that still stands in a line.
Waits(a) == /\ pc[a] \in {"line", "blocked", "unparked", "woken", "refused"}
            /\ ~signalled[a]

\* What a caller's place in its call says of the call: only a caller inside a
\* call has an operation, its kind is the object's, a sender has its value, a
\* thread never parks and a fiber never waits on a condition variable.
CallInv ==
    \A a \in Actors :
      /\ op[a] = "none" <=> pc[a] \in {"idle", "ended"}
      /\ pc[a] \in {"idle", "ended", "try"} => ~signalled[a]
      /\ op[a] \in {"send", "recv"} => kind = "channel"
      /\ op[a] = "gate" => kind = "gate"
      /\ op[a] = "send" => val[a] \in Values
      /\ a \in ThreadSet => ~signalled[a] /\ pc[a] \in {"idle", "try", "cond", "woken"}
      /\ a \in FiberSet => pc[a] # "cond"

\* Each line holds each of its waiters once, and nobody else.
LineInv ==
    /\ IsInjective(send_line) /\ IsInjective(recv_line)
    /\ \A a \in FiberSet : a \in Range(send_line) <=> Waits(a) /\ op[a] = "send"
    /\ \A a \in FiberSet : a \in Range(recv_line) <=> Waits(a) /\ op[a] # "send"

\* A signal that comes between the line and the park leaves the token, so that
\* the park does not block.
TokenInv == \A a \in FiberSet : pc[a] = "line" /\ signalled[a] => token[a]

\* The ring holds, from head on, what was sent and not yet received, in order.
RingInv ==
    /\ count = Len(sent) - Len(received)
    /\ \A i \in 0..(count - 1) : q[(head + i) % cap] = sent[Len(received) + i + 1]

LinesInv == /\ TypeOK
            /\ RingInv
            /\ CallInv
            /\ LineInv
            /\ TokenInv
            /\ NotBlockedIfSignalled
            /\ ClosedHasNoWaiters

LEMMA CapLemma == cap \in Nat /\ cap > 0
BY ConstantsAssumption DEF cap

LEMMA InitLines == Init => LinesInv
<1> SUFFICES ASSUME Init PROVE LinesInv
  OBVIOUS
<1>1. send_line = <<>> /\ recv_line = <<>> /\ Range(send_line) = {} /\ Range(recv_line) = {}
  BY DEF Init, Range
<1>2. TypeOK
  <2>1. /\ kind \in {"channel", "gate"} /\ closed \in BOOLEAN
        /\ head \in 0..(cap - 1) /\ count \in 0..cap
        /\ calls \in 0..MaxCalls /\ tries \in 0..MaxTries /\ strays \in 0..MaxStrays
    <3>1. kind \in {"channel", "gate"} /\ closed \in BOOLEAN
      BY ConstantsAssumption DEF Init
    <3>2. head \in 0..(cap - 1) /\ count \in 0..cap
      BY CapLemma DEF Init
    <3>3. calls \in 0..MaxCalls /\ tries \in 0..MaxTries /\ strays \in 0..MaxStrays
      BY ConstantsAssumption DEF Init
    <3> QED BY <3>1, <3>2, <3>3
  <2>2. /\ send_line \in Seq(FiberSet) /\ recv_line \in Seq(FiberSet)
        /\ sent \in Seq(Values) /\ received \in Seq(Values)
    BY DEF Init
  <2>3. /\ q \in [0..(cap - 1) -> Values \union {None}]
        /\ pc \in [Actors -> {"idle", "try", "line", "blocked", "unparked", "woken",
                              "refused", "cond", "ended"}]
        /\ op \in [Actors -> {"send", "recv", "gate", "none"}]
        /\ val \in [Actors -> Values \union {None}]
        /\ signalled \in [Actors -> BOOLEAN]
        /\ token \in [Actors -> BOOLEAN]
        /\ cancel_flag \in [Actors -> BOOLEAN]
    BY DEF Init
  <2> QED BY <2>1, <2>2, <2>3 DEF TypeOK
<1>3. CallInv /\ TokenInv /\ NotBlockedIfSignalled
  BY DEF Init, CallInv, TokenInv, NotBlockedIfSignalled, Actors
<1>4. LineInv
  BY <1>1 DEF Init, LineInv, Waits, IsInjective, Actors
<1>5. ClosedHasNoWaiters
  BY DEF Init, ClosedHasNoWaiters
<1>6. RingInv
  BY DEF Init, RingInv
<1> QED BY <1>2, <1>3, <1>4, <1>5, <1>6 DEF LinesInv

\* The callers that a signal may reach: fibers in a line, threads on a condition
\* variable.
Reachable == Range(send_line) \union Range(recv_line) \union Cond({"send", "recv", "gate"})

\* The caller of the moment holds the lock, so it stands in no line.
LEMMA CallerNotReachable ==
    ASSUME LinesInv, NEW a \in Actors, Looping(a) \/ pc[a] = "idle"
    PROVE  /\ a \notin Reachable
           /\ pc[a] # "ended" /\ (Looping(a) => op[a] # "none")
           /\ Reachable \subseteq Actors
<1>1. send_line \in Seq(FiberSet) /\ recv_line \in Seq(FiberSet)
  BY DEF LinesInv, TypeOK
<1>2. Range(send_line) \subseteq FiberSet /\ Range(recv_line) \subseteq FiberSet
  BY <1>1, RangeOfSeq DEF Range
<1>3. pc[a] # "ended" /\ (Looping(a) => op[a] # "none")
  BY DEF LinesInv, CallInv, Looping
<1>4. a \notin Cond({"send", "recv", "gate"})
  BY ConstantsAssumption DEF Cond, Looping
<1>5. a \in FiberSet => ~Waits(a)
  BY ConstantsAssumption DEF Looping, Waits, LinesInv, CallInv
<1>6. a \notin Range(send_line) /\ a \notin Range(recv_line)
  BY <1>2, <1>5 DEF LinesInv, LineInv
<1> QED BY <1>2, <1>3, <1>4, <1>6 DEF Reachable, Cond, Actors

\* What the wakes of one critical section do: the caller returns, whoever was
\* woken leaves its line or its condition variable and nobody else moves.
LEMMA SignalStep ==
    ASSUME LinesInv, NEW a \in Actors, NEW W \in SUBSET Reachable,
           Looping(a) \/ pc[a] = "idle",
           Signal(W, a),
           kind' = kind, cancel_flag' = cancel_flag,
           Looping(a) => Finished(a),
           ~Looping(a) => UNCHANGED <<op, val>>,
           send_line' \in Seq(FiberSet), recv_line' \in Seq(FiberSet),
           IsInjective(send_line'), IsInjective(recv_line'),
           Range(send_line') = Range(send_line) \ W,
           Range(recv_line') = Range(recv_line) \ W
    PROVE  /\ pc' \in [Actors -> {"idle", "try", "line", "blocked", "unparked", "woken",
                          "refused", "cond", "ended"}]
           /\ op' \in [Actors -> {"send", "recv", "gate", "none"}]
           /\ val' \in [Actors -> Values \union {None}]
           /\ signalled' \in [Actors -> BOOLEAN]
           /\ token' \in [Actors -> BOOLEAN]
           /\ CallInv' /\ LineInv' /\ TokenInv' /\ NotBlockedIfSignalled'
           /\ \A b \in Actors : b # a => op'[b] = op[b] /\ val'[b] = val[b]
           /\ op'[a] = "none"
           /\ \A ops : Cond(ops)' = Cond(ops) \ W
<1>0. /\ a \notin W /\ W \subseteq Actors /\ pc[a] # "ended"
      /\ Reachable \subseteq Actors /\ (Looping(a) => op[a] # "none")
  BY CallerNotReachable
<1>1. /\ pc \in [Actors -> {"idle", "try", "line", "blocked", "unparked", "woken",
                          "refused", "cond", "ended"}]
      /\ op \in [Actors -> {"send", "recv", "gate", "none"}]
      /\ val \in [Actors -> Values \union {None}]
      /\ signalled \in [Actors -> BOOLEAN]
      /\ token \in [Actors -> BOOLEAN]
      /\ cancel_flag \in [Actors -> BOOLEAN]
  BY DEF LinesInv, TypeOK
<1>2. pc' = [b \in Actors |-> IF b = a THEN "idle"
                              ELSE IF b \in W /\ pc[b] = "blocked" THEN "unparked"
                              ELSE IF b \in W /\ pc[b] = "cond" THEN "woken"
                              ELSE pc[b]]
  BY <1>0, <1>1 DEF Signal, WokenPc
<1>3. /\ signalled' = [b \in Actors |-> b # a /\ (signalled[b] \/ (b \in W /\ b \in FiberSet))]
      /\ token' = [b \in Actors |-> token[b] \/ (b \in W /\ b \in FiberSet /\ pc[b] # "blocked")]
  BY DEF Signal
<1>4. signalled' \in [Actors -> BOOLEAN] /\ token' \in [Actors -> BOOLEAN]
  BY <1>3
<1>5. pc' \in [Actors -> {"idle", "try", "line", "blocked", "unparked", "woken",
                          "refused", "cond", "ended"}]
  BY <1>1, <1>2
<1>6. /\ op' \in [Actors -> {"send", "recv", "gate", "none"}]
      /\ val' \in [Actors -> Values \union {None}]
      /\ \A b \in Actors : b # a => op'[b] = op[b] /\ val'[b] = val[b]
      /\ op'[a] = "none"
  <2>1. CASE Looping(a)
    BY <1>1, <2>1 DEF Finished
  <2>2. CASE ~Looping(a)
    BY <1>1, <2>2 DEF LinesInv, CallInv
  <2> QED BY <2>1, <2>2
<1>7. \A b \in W : /\ b \in FiberSet => Waits(b) /\ op[b] # "none"
                   /\ b \in ThreadSet => pc[b] = "cond"
                   /\ b # a
  <2> SUFFICES ASSUME NEW b \in W PROVE /\ b \in FiberSet => Waits(b) /\ op[b] # "none"
                                        /\ b \in ThreadSet => pc[b] = "cond"
                                        /\ b # a
    OBVIOUS
  <2>1. Range(send_line) \subseteq FiberSet /\ Range(recv_line) \subseteq FiberSet
    BY RangeOfSeq DEF Range, LinesInv, TypeOK
  <2>2. CASE b \in Cond({"send", "recv", "gate"})
    BY <1>0, <2>2, ConstantsAssumption DEF Cond
  <2>3. CASE b \in Range(send_line) \union Range(recv_line)
    <3>1. b \in FiberSet /\ b \notin ThreadSet /\ b \in Actors
      BY <2>1, <2>3, ConstantsAssumption DEF Actors
    <3>2. Waits(b)
      BY <2>3, <3>1 DEF LinesInv, LineInv
    <3>3. op[b] # "none"
      BY <3>1, <3>2 DEF Waits, LinesInv, CallInv
    <3> QED BY <1>0, <3>1, <3>2, <3>3
  <2> QED BY <2>2, <2>3 DEF Reachable
<1>8. CallInv'
  <2> SUFFICES ASSUME NEW b \in Actors
               PROVE (/\ op[b] = "none" <=> pc[b] \in {"idle", "ended"}
                      /\ pc[b] \in {"idle", "ended", "try"} => ~signalled[b]
                      /\ op[b] \in {"send", "recv"} => kind = "channel"
                      /\ op[b] = "gate" => kind = "gate"
                      /\ op[b] = "send" => val[b] \in Values
                      /\ b \in ThreadSet => ~signalled[b] /\ pc[b] \in {"idle", "try", "cond", "woken"}
                      /\ b \in FiberSet => pc[b] # "cond")'
    BY DEF CallInv
  <2>1. CASE b = a
    BY <1>2, <1>3, <1>6, <2>1
  <2>2. CASE b # a
    BY <1>1, <1>2, <1>3, <1>6, <1>7, <2>2, ConstantsAssumption DEF LinesInv, CallInv, Waits
  <2> QED BY <2>1, <2>2
<1>9. ASSUME NEW b \in FiberSet
      PROVE  /\ b # a /\ b \notin W => (Waits(b)' <=> Waits(b))
             /\ b = a \/ b \in W => ~Waits(b)'
  BY <1>2, <1>3, <1>7 DEF Waits, Actors, LinesInv, CallInv
<1>10. LineInv'
  <2>1. a \in FiberSet => a \notin Range(send_line) /\ a \notin Range(recv_line)
    BY CallerNotReachable DEF Reachable
  <2>2. ASSUME NEW b \in FiberSet
        PROVE  /\ b \in Range(send_line') <=> Waits(b)' /\ op'[b] = "send"
               /\ b \in Range(recv_line') <=> Waits(b)' /\ op'[b] # "send"
    <3>1. CASE b = a
      BY <1>9, <2>1, <3>1
    <3>2. CASE b \in W
      BY <1>9, <3>2
    <3>3. CASE b # a /\ b \notin W
      BY <1>6, <1>9, <3>3 DEF LinesInv, LineInv, Actors
    <3> QED BY <3>1, <3>2, <3>3
  <2> QED BY <2>2 DEF LineInv
<1>11. TokenInv'
  BY <1>2, <1>3, <1>7 DEF TokenInv, LinesInv, Actors, Waits
<1>12. NotBlockedIfSignalled'
  BY <1>2, <1>3, <1>7 DEF NotBlockedIfSignalled, LinesInv, Actors, Waits
<1>13. ASSUME NEW ops PROVE Cond(ops)' = Cond(ops) \ W
  <2>1. ASSUME NEW t \in ThreadSet
        PROVE  t \in Cond(ops)' <=> t \in Cond(ops) /\ t \notin W
    <3>1. t \in Actors
      BY DEF Actors
    <3>2. CASE t = a
      <4>1. pc'[t] = "idle" /\ pc[t] # "cond"
        BY <1>2, <3>1, <3>2, ConstantsAssumption DEF Looping
      <4> QED BY <4>1 DEF Cond
    <3>3. CASE t # a
      <4>1. pc'[t] = "cond" <=> pc[t] = "cond" /\ t \notin W
        BY <1>1, <1>2, <3>1, <3>3
      <4> QED BY <1>6, <3>1, <3>3, <4>1 DEF Cond
    <3> QED BY <3>2, <3>3
  <2> QED BY <2>1 DEF Cond
<1> QED BY <1>4, <1>5, <1>6, <1>8, <1>10, <1>11, <1>12, <1>13

\* Whom one wake reaches, and what the lines are then (chan_wake_receiver,
\* chan_wake_sender).
LEMMA WokenLemma ==
    ASSUME NEW line \in Seq(FiberSet), IsInjective(line), NEW other \in Seq(FiberSet),
           Range(line) \intersect Range(other) = {},
           NEW conds \in SUBSET ThreadSet, NEW W \in Woken(line, conds)
    PROVE  /\ Pop(line) \in Seq(FiberSet) /\ IsInjective(Pop(line))
           /\ Range(Pop(line)) = Range(line) \ W
           /\ Range(other) = Range(other) \ W
           /\ W \subseteq Range(line) \union conds
           /\ line # <<>> => W = {Head(line)}
           /\ line = <<>> /\ conds # {} => \E t \in conds : W = {t}
           /\ line = <<>> /\ conds = {} => W = {}
<1>1. Range(line) \subseteq FiberSet /\ Range(other) \subseteq FiberSet
  BY RangeOfSeq DEF Range
<1>2. CASE line # <<>>
  <2>1. W = {Head(line)} /\ Pop(line) = Tail(line)
    BY <1>2 DEF Woken, Pop
  <2>2. /\ Head(line) \in Range(line) /\ Tail(line) \in Seq(FiberSet)
        /\ IsInjective(Tail(line)) /\ Range(Tail(line)) = Range(line) \ {Head(line)}
    BY <1>2, PopLemma
  <2> QED BY <1>2, <2>1, <2>2
<1>3. CASE line = <<>>
  <2>1. Pop(line) = line /\ Range(line) = {}
    BY <1>3 DEF Pop, Range
  <2>2. (conds # {} => \E t \in conds : W = {t}) /\ (conds = {} => W = {})
    BY <1>3 DEF Woken
  <2>3. W \subseteq conds
    BY <2>2
  <2>4. Range(other) = Range(other) \ W
    BY <1>1, <2>3, ConstantsAssumption
  <2> QED BY <1>3, <2>1, <2>2, <2>3, <2>4
<1> QED BY <1>2, <1>3

\* The two lines never share a fiber.
LEMMA LinesApart ==
    ASSUME LinesInv
    PROVE  /\ send_line \in Seq(FiberSet) /\ recv_line \in Seq(FiberSet)
           /\ Range(send_line) \subseteq FiberSet /\ Range(recv_line) \subseteq FiberSet
           /\ Range(send_line) \intersect Range(recv_line) = {}
           /\ IsInjective(send_line) /\ IsInjective(recv_line)
<1>1. send_line \in Seq(FiberSet) /\ recv_line \in Seq(FiberSet)
  BY DEF LinesInv, TypeOK
<1>2. Range(send_line) \subseteq FiberSet /\ Range(recv_line) \subseteq FiberSet
  BY <1>1, RangeOfSeq DEF Range
<1>3. Range(send_line) \intersect Range(recv_line) = {}
  BY <1>2 DEF LinesInv, LineInv
<1> QED BY <1>1, <1>2, <1>3 DEF LinesInv, LineInv

\* The types of the callers' state, as they stand in TypeOK.
CallerTypes ==
    /\ pc \in [Actors -> {"idle", "try", "line", "blocked", "unparked", "woken",
                          "refused", "cond", "ended"}]
    /\ op \in [Actors -> {"send", "recv", "gate", "none"}]
    /\ val \in [Actors -> Values \union {None}]
    /\ signalled \in [Actors -> BOOLEAN]
    /\ token \in [Actors -> BOOLEAN]

\* A critical section that wakes at most one receiver keeps the lines exact.
LEMMA WakeReceiverStep ==
    ASSUME LinesInv, NEW a \in Actors, Looping(a) \/ pc[a] = "idle",
           ChanWakeReceiver(a), kind' = kind, cancel_flag' = cancel_flag, ~closed, ~closed',
           Looping(a) => Finished(a),
           ~Looping(a) => UNCHANGED <<op, val>>
    PROVE  /\ CallerTypes' /\ CallInv' /\ LineInv' /\ TokenInv'
           /\ NotBlockedIfSignalled' /\ ClosedHasNoWaiters'
           /\ send_line' \in Seq(FiberSet) /\ recv_line' \in Seq(FiberSet)
<1>1. PICK W \in Woken(recv_line, Cond({"recv", "gate"})) : Signal(W, a)
  BY DEF ChanWakeReceiver
<1>2. recv_line' = Pop(recv_line) /\ send_line' = send_line
  BY DEF ChanWakeReceiver
<1>3. Cond({"recv", "gate"}) \subseteq ThreadSet
  BY DEF Cond
<1>4. /\ Pop(recv_line) \in Seq(FiberSet) /\ IsInjective(Pop(recv_line))
      /\ Range(Pop(recv_line)) = Range(recv_line) \ W
      /\ Range(send_line) = Range(send_line) \ W
      /\ W \subseteq Range(recv_line) \union Cond({"recv", "gate"})
  BY <1>1, <1>3, LinesApart, WokenLemma
<1>5. W \in SUBSET Reachable
  BY <1>4 DEF Reachable, Cond
<1>6. CallerTypes' /\ CallInv' /\ LineInv' /\ TokenInv' /\ NotBlockedIfSignalled'
  BY <1>1, <1>2, <1>4, <1>5, LinesApart, SignalStep DEF CallerTypes
<1>7. ClosedHasNoWaiters'
  BY DEF ClosedHasNoWaiters
<1> QED BY <1>2, <1>4, <1>6, <1>7, LinesApart

\* The same for a sender; a channel that is closed already has nobody to wake.
LEMMA WakeSenderStep ==
    ASSUME LinesInv, NEW a \in Actors, Looping(a) \/ pc[a] = "idle",
           ChanWakeSender(a), kind' = kind, cancel_flag' = cancel_flag, closed' = closed,
           Looping(a) => Finished(a),
           ~Looping(a) => UNCHANGED <<op, val>>
    PROVE  /\ CallerTypes' /\ CallInv' /\ LineInv' /\ TokenInv'
           /\ NotBlockedIfSignalled' /\ ClosedHasNoWaiters'
           /\ send_line' \in Seq(FiberSet) /\ recv_line' \in Seq(FiberSet)
<1>1. PICK W \in Woken(send_line, Cond({"send"})) : Signal(W, a)
  BY DEF ChanWakeSender
<1>2. send_line' = Pop(send_line) /\ recv_line' = recv_line
  BY DEF ChanWakeSender
<1>3. Cond({"send"}) \subseteq ThreadSet
  BY DEF Cond
<1>4. /\ Pop(send_line) \in Seq(FiberSet) /\ IsInjective(Pop(send_line))
      /\ Range(Pop(send_line)) = Range(send_line) \ W
      /\ Range(recv_line) = Range(recv_line) \ W
      /\ W \subseteq Range(send_line) \union Cond({"send"})
  BY <1>1, <1>3, LinesApart, WokenLemma
<1>5. W \in SUBSET Reachable
  BY <1>4 DEF Reachable, Cond
<1>6. /\ CallerTypes' /\ CallInv' /\ LineInv' /\ TokenInv' /\ NotBlockedIfSignalled'
      /\ \A ops : Cond(ops)' = Cond(ops) \ W
  BY <1>1, <1>2, <1>4, <1>5, LinesApart, SignalStep DEF CallerTypes
<1>7. ClosedHasNoWaiters'
  <2>1. CASE ~closed
    BY <2>1 DEF ClosedHasNoWaiters
  <2>2. CASE closed
    BY <1>2, <1>6, <2>2 DEF ClosedHasNoWaiters, LinesInv, Pop
  <2> QED BY <2>1, <2>2
<1> QED BY <1>2, <1>4, <1>6, <1>7, LinesApart

-----------------------------------------------------------------------------
(* Every step keeps the lines exact.                                       *)

\* The rest of TypeOK: the ring buffer, the history and the counters.
BufferTypes ==
    /\ kind \in {"channel", "gate"}
    /\ q \in [0..(cap - 1) -> Values \union {None}]
    /\ head \in 0..(cap - 1)
    /\ count \in 0..cap
    /\ closed \in BOOLEAN
    /\ sent \in Seq(Values)
    /\ received \in Seq(Values)

CounterTypes ==
    /\ calls \in 0..MaxCalls
    /\ tries \in 0..MaxTries
    /\ strays \in 0..MaxStrays

LEMMA TypeParts ==
    TypeOK <=> /\ BufferTypes /\ CounterTypes /\ CallerTypes
               /\ cancel_flag \in [Actors -> BOOLEAN]
               /\ send_line \in Seq(FiberSet) /\ recv_line \in Seq(FiberSet)
BY DEF TypeOK, BufferTypes, CounterTypes, CallerTypes

\* Where a place of the ring lies.
LEMMA PlaceLemma ==
    ASSUME NEW h \in 0..(cap - 1), NEW i \in 0..cap
    PROVE  /\ (h + i) % cap \in 0..(cap - 1)
           /\ (h + i) % cap = IF h + i < cap THEN h + i ELSE h + i - cap
<1>1. CASE h + i < cap
  BY <1>1, CapLemma
<1>2. CASE ~(h + i < cap)
  <2>1. h + i \in cap..(2 * cap - 1)
    BY <1>2, CapLemma
  <2> QED BY <2>1, <1>2, CapLemma
<1> QED BY <1>1, <1>2

\* Storing a value keeps the ring a ring.
LEMMA PutStep ==
    ASSUME BufferTypes, RingInv, NEW v \in Values, count < cap, PutValue(v)
    PROVE  BufferTypes' /\ RingInv'
<1>0. /\ cap \in Nat /\ cap > 0 /\ count \in Nat /\ head \in 0..(cap - 1)
      /\ sent \in Seq(Values) /\ received \in Seq(Values)
      /\ Len(sent) \in Nat /\ Len(received) \in Nat
  BY CapLemma DEF BufferTypes
<1>1. (head + count) % cap \in 0..(cap - 1)
  BY <1>0, PlaceLemma DEF BufferTypes
<1>2. count' \in 0..cap /\ count' = count + 1
  BY <1>0 DEF BufferTypes, PutValue
<1>3. q' \in [0..(cap - 1) -> Values \union {None}]
  BY <1>1 DEF BufferTypes, PutValue
<1>4. /\ sent' \in Seq(Values) /\ Len(sent') = Len(sent) + 1
      /\ \A i \in 1..Len(sent) : sent'[i] = sent[i]
      /\ sent'[Len(sent) + 1] = v
  BY <1>0 DEF PutValue
<1>5. BufferTypes'
  BY <1>2, <1>3, <1>4 DEF BufferTypes, PutValue
<1>6. ASSUME NEW i \in 0..count
      PROVE  q'[(head + i) % cap] = sent'[Len(received) + i + 1]
  <2>1. i \in 0..cap /\ (head + i) % cap \in 0..(cap - 1)
    BY <1>0, PlaceLemma
  <2>2. CASE i = count
    <3>1. q'[(head + i) % cap] = v
      BY <1>1, <2>2 DEF PutValue, BufferTypes
    <3>2. Len(received) + i + 1 = Len(sent) + 1
      BY <1>0, <2>2 DEF RingInv
    <3> QED BY <1>4, <3>1, <3>2
  <2>3. CASE i # count
    <3>1. i \in 0..(count - 1)
      BY <1>0, <2>3
    <3>2. (head + i) % cap # (head + count) % cap
      <4>1. count \in 0..cap
        BY <1>0
      <4>2. /\ (head + i) % cap = IF head + i < cap THEN head + i ELSE head + i - cap
            /\ (head + count) % cap = IF head + count < cap THEN head + count
                                                           ELSE head + count - cap
        BY <1>0, <2>1, <4>1, PlaceLemma
      <4> QED BY <1>0, <3>1, <4>2
    <3>3. q'[(head + i) % cap] = q[(head + i) % cap]
      BY <2>1, <3>2 DEF PutValue, BufferTypes
    <3>4. q[(head + i) % cap] = sent[Len(received) + i + 1]
      BY <3>1 DEF RingInv
    <3>5. Len(received) + i + 1 \in 1..Len(sent)
      BY <1>0, <3>1 DEF RingInv
    <3> QED BY <1>4, <3>3, <3>4, <3>5
  <2> QED BY <2>2, <2>3
<1>7. count' = Len(sent') - Len(received')
  BY <1>0, <1>2, <1>4 DEF RingInv, PutValue
<1>8. ASSUME NEW i \in 0..(count' - 1)
      PROVE  q'[(head' + i) % cap] = sent'[Len(received') + i + 1]
  <2>1. i \in 0..count
    BY <1>0, <1>2
  <2>2. head' = head /\ received' = received
    BY DEF PutValue
  <2> QED BY <1>6, <2>1, <2>2
<1>9. RingInv'
  BY <1>7, <1>8 DEF RingInv, cap
<1> QED BY <1>5, <1>9

\* Loading a value hands out the oldest one and keeps the ring a ring.
LEMMA TakeStep ==
    ASSUME BufferTypes, RingInv, count # 0, TakeValue
    PROVE  /\ BufferTypes' /\ RingInv'
           /\ Len(received) < Len(sent)
           /\ q[head] = sent[Len(received) + 1] /\ q[head] \in Values
<1>0. /\ cap \in Nat /\ cap > 0 /\ count \in 1..cap /\ head \in 0..(cap - 1)
      /\ sent \in Seq(Values) /\ received \in Seq(Values)
      /\ Len(sent) \in Nat /\ Len(received) \in Nat
  BY CapLemma DEF BufferTypes
<1>1. q[head] = sent[Len(received) + 1]
  <2>1. 0 \in 0..(count - 1) /\ (head + 0) % cap = head
    BY <1>0, PlaceLemma
  <2>2. q[(head + 0) % cap] = sent[Len(received) + 0 + 1]
    BY <2>1 DEF RingInv
  <2> QED BY <1>0, <2>1, <2>2
<1>2. Len(received) < Len(sent) /\ Len(received) + 1 \in 1..Len(sent)
  BY <1>0 DEF RingInv
<1>3. q[head] \in Values
  BY <1>0, <1>1, <1>2, ElementOfSeq
<1>4. /\ received' \in Seq(Values) /\ Len(received') = Len(received) + 1
  BY <1>0, <1>3 DEF TakeValue
<1>5. head' \in 0..(cap - 1) /\ head' = (head + 1) % cap
  BY <1>0, PlaceLemma DEF TakeValue
<1>6. count' \in 0..cap /\ count' = count - 1
  BY <1>0 DEF TakeValue
<1>7. BufferTypes'
  BY <1>4, <1>5, <1>6 DEF BufferTypes, TakeValue
<1>8. ASSUME NEW i \in 0..(count - 2)
      PROVE  q[(head' + i) % cap] = sent[Len(received) + 1 + i + 1]
  <2>1. i + 1 \in 0..(count - 1) /\ i + 1 \in 0..cap /\ i \in 0..cap /\ 1 \in 0..cap
    BY <1>0
  <2>2. (head' + i) % cap = (head + (i + 1)) % cap
    <3>1. (head + 1) % cap = IF head + 1 < cap THEN head + 1 ELSE head + 1 - cap
      BY <1>0, <2>1, PlaceLemma
    <3>2. (head' + i) % cap = IF head' + i < cap THEN head' + i ELSE head' + i - cap
      BY <1>5, <2>1, PlaceLemma
    <3>3. (head + (i + 1)) % cap = IF head + (i + 1) < cap THEN head + (i + 1)
                                                           ELSE head + (i + 1) - cap
      BY <1>0, <2>1, PlaceLemma
    <3> QED BY <1>0, <1>5, <2>1, <3>1, <3>2, <3>3
  <2>3. q[(head + (i + 1)) % cap] = sent[Len(received) + (i + 1) + 1]
    BY <2>1 DEF RingInv
  <2>4. Len(received) + (i + 1) + 1 = Len(received) + 1 + i + 1
    BY <1>0
  <2> QED BY <2>2, <2>3, <2>4
<1>9. count' = Len(sent') - Len(received')
  BY <1>0, <1>4, <1>6 DEF RingInv, TakeValue
<1>10. ASSUME NEW i \in 0..(count' - 1)
       PROVE  q'[(head' + i) % cap] = sent'[Len(received') + i + 1]
  BY <1>0, <1>4, <1>6, <1>8 DEF TakeValue
<1>11. RingInv'
  BY <1>9, <1>10 DEF RingInv, cap
<1> QED BY <1>1, <1>2, <1>3, <1>7, <1>11

\* A step that leaves the ring and the history alone keeps them right.
LEMMA QuietBuffer ==
    ASSUME BufferTypes, RingInv, UNCHANGED <<kind, q, head, count, history>>, closed' \in BOOLEAN
    PROVE  BufferTypes' /\ RingInv'
BY DEF BufferTypes, RingInv, history, cap

LEMMA SendStep ==
    ASSUME LinesInv, NEW a \in Actors,
           SendOk(a) \/ \E v \in Values : TrySend(a, v)
    PROVE  LinesInv'
<1> USE DEF LinesInv
<1>0. BufferTypes /\ CounterTypes
  BY TypeParts
<1>1. CASE SendOk(a)
  <2>1. val[a] \in Values
    BY <1>1 DEF SendOk, CallInv
  <2>2. BufferTypes' /\ RingInv'
    BY <1>0, <1>1, <2>1, PutStep DEF SendOk
  <2>3. Looping(a) /\ ~closed /\ ~closed' /\ kind' = kind
    BY <1>1 DEF SendOk, PutValue
  <2>4. /\ CallerTypes' /\ CallInv' /\ LineInv' /\ TokenInv'
        /\ NotBlockedIfSignalled' /\ ClosedHasNoWaiters'
        /\ send_line' \in Seq(FiberSet) /\ recv_line' \in Seq(FiberSet)
    BY <1>1, <2>3, WakeReceiverStep DEF SendOk
  <2>5. CounterTypes' /\ cancel_flag' \in [Actors -> BOOLEAN]
    BY <1>0, <1>1, TypeParts DEF SendOk, CounterTypes, bounds
  <2>6. TypeOK'
    BY <2>2, <2>4, <2>5 DEF TypeOK, BufferTypes, CounterTypes, CallerTypes
  <2> QED BY <2>2, <2>4, <2>6
<1>2. ASSUME NEW v \in Values, TrySend(a, v) PROVE LinesInv'
  <2>1. pc[a] = "idle" /\ ~Looping(a)
    BY <1>2 DEF TrySend, Looping
  <2>2. BufferTypes' /\ RingInv'
    <3>1. count < cap
      BY <1>0, <1>2, CapLemma DEF TrySend, BufferTypes
    <3> QED BY <1>0, <1>2, <3>1, PutStep DEF TrySend
  <2>3. ~closed /\ ~closed' /\ kind' = kind
    BY <1>2 DEF TrySend, PutValue
  <2>4. /\ CallerTypes' /\ CallInv' /\ LineInv' /\ TokenInv'
        /\ NotBlockedIfSignalled' /\ ClosedHasNoWaiters'
        /\ send_line' \in Seq(FiberSet) /\ recv_line' \in Seq(FiberSet)
    BY <1>2, <2>1, <2>3, WakeReceiverStep DEF TrySend
  <2>5. CounterTypes' /\ cancel_flag' \in [Actors -> BOOLEAN]
    BY <1>0, <1>2, TypeParts, ConstantsAssumption DEF TrySend, CounterTypes
  <2>6. TypeOK'
    BY <2>2, <2>4, <2>5 DEF TypeOK, BufferTypes, CounterTypes, CallerTypes
  <2> QED BY <2>2, <2>4, <2>6
<1> QED BY <1>1, <1>2

LEMMA RecvStep ==
    ASSUME LinesInv, NEW a \in Actors, RecvOk(a) \/ TryRecv(a)
    PROVE  LinesInv'
<1> USE DEF LinesInv
<1>0. BufferTypes /\ CounterTypes
  BY TypeParts
<1>1. CASE RecvOk(a)
  <2>2. BufferTypes' /\ RingInv'
    BY <1>0, <1>1, TakeStep DEF RecvOk
  <2>3. Looping(a) /\ closed' = closed /\ kind' = kind
    BY <1>1 DEF RecvOk, TakeValue
  <2>4. /\ CallerTypes' /\ CallInv' /\ LineInv' /\ TokenInv'
        /\ NotBlockedIfSignalled' /\ ClosedHasNoWaiters'
        /\ send_line' \in Seq(FiberSet) /\ recv_line' \in Seq(FiberSet)
    BY <1>1, <2>3, WakeSenderStep DEF RecvOk
  <2>5. CounterTypes' /\ cancel_flag' \in [Actors -> BOOLEAN]
    BY <1>0, <1>1, TypeParts DEF RecvOk, CounterTypes, bounds
  <2>6. TypeOK'
    BY <2>2, <2>4, <2>5 DEF TypeOK, BufferTypes, CounterTypes, CallerTypes
  <2> QED BY <2>2, <2>4, <2>6
<1>2. CASE TryRecv(a)
  <2>1. pc[a] = "idle" /\ ~Looping(a)
    BY <1>2 DEF TryRecv, Looping
  <2>2. BufferTypes' /\ RingInv'
    BY <1>0, <1>2, TakeStep DEF TryRecv
  <2>3. closed' = closed /\ kind' = kind
    BY <1>2 DEF TryRecv, TakeValue
  <2>4. /\ CallerTypes' /\ CallInv' /\ LineInv' /\ TokenInv'
        /\ NotBlockedIfSignalled' /\ ClosedHasNoWaiters'
        /\ send_line' \in Seq(FiberSet) /\ recv_line' \in Seq(FiberSet)
    BY <1>2, <2>1, <2>3, WakeSenderStep DEF TryRecv
  <2>5. CounterTypes' /\ cancel_flag' \in [Actors -> BOOLEAN]
    BY <1>0, <1>2, TypeParts, ConstantsAssumption DEF TryRecv, CounterTypes
  <2>6. TypeOK'
    BY <2>2, <2>4, <2>5 DEF TypeOK, BufferTypes, CounterTypes, CallerTypes
  <2> QED BY <2>2, <2>4, <2>6
<1> QED BY <1>1, <1>2

LEMMA CloseStep ==
    ASSUME LinesInv, NEW a \in Actors, Close(a)
    PROVE  LinesInv'
<1> USE DEF LinesInv
<1>0. BufferTypes /\ CounterTypes
  BY TypeParts
<1>1. Everyone = Reachable
  BY DEF Everyone, Reachable
<1>2. /\ pc[a] = "idle" /\ ~Looping(a) /\ Signal(Everyone, a) /\ closed' = TRUE
      /\ send_line' = <<>> /\ recv_line' = <<>>
      /\ UNCHANGED <<kind, q, head, count, op, val, cancel_flag, history, bounds>>
  BY DEF Close, Looping
<1>3. /\ send_line' \in Seq(FiberSet) /\ recv_line' \in Seq(FiberSet)
      /\ IsInjective(send_line') /\ IsInjective(recv_line')
      /\ Range(send_line') = Range(send_line) \ Everyone
      /\ Range(recv_line') = Range(recv_line) \ Everyone
  BY <1>2 DEF Everyone, IsInjective, Range
<1>4. /\ CallerTypes' /\ CallInv' /\ LineInv' /\ TokenInv' /\ NotBlockedIfSignalled'
      /\ \A ops : Cond(ops)' = Cond(ops) \ Everyone
  BY <1>1, <1>2, <1>3, SignalStep DEF CallerTypes
<1>5. ClosedHasNoWaiters'
  BY <1>2, <1>4 DEF ClosedHasNoWaiters, Everyone
<1>6. BufferTypes' /\ RingInv'
  BY <1>0, <1>2, QuietBuffer
<1>7. CounterTypes' /\ cancel_flag' \in [Actors -> BOOLEAN]
  BY <1>0, <1>2, TypeParts DEF CounterTypes, bounds
<1>8. TypeOK'
  BY <1>3, <1>4, <1>6, <1>7 DEF TypeOK, BufferTypes, CounterTypes, CallerTypes
<1> QED BY <1>4, <1>5, <1>6, <1>8

\* The parts of the invariant that speak of one caller.
CallerInv(a) ==
    /\ op[a] = "none" <=> pc[a] \in {"idle", "ended"}
    /\ pc[a] \in {"idle", "ended", "try"} => ~signalled[a]
    /\ op[a] \in {"send", "recv"} => kind = "channel"
    /\ op[a] = "gate" => kind = "gate"
    /\ op[a] = "send" => val[a] \in Values
    /\ a \in ThreadSet => ~signalled[a] /\ pc[a] \in {"idle", "try", "cond", "woken"}
    /\ a \in FiberSet => pc[a] # "cond"
    /\ a \in FiberSet /\ pc[a] = "line" /\ signalled[a] => token[a]
    /\ a \in FiberSet /\ pc[a] = "blocked" => ~signalled[a] /\ ~cancel_flag[a]

LEMMA CallerParts == CallInv /\ TokenInv /\ NotBlockedIfSignalled
                       <=> \A a \in Actors : CallerInv(a)
BY DEF CallInv, TokenInv, NotBlockedIfSignalled, CallerInv, Actors

\* A step of one caller that wakes nobody else: the others keep their state, and
\* the caller's own part of the invariant is what remains to be shown.
LEMMA OneCaller ==
    ASSUME LinesInv, NEW a \in Actors,
           UNCHANGED <<kind, q, head, count, closed, history>>,
           CallerTypes', CounterTypes', cancel_flag' \in [Actors -> BOOLEAN],
           \A b \in Actors : b # a => /\ pc'[b] = pc[b] /\ op'[b] = op[b] /\ val'[b] = val[b]
                                      /\ signalled'[b] = signalled[b] /\ token'[b] = token[b]
                                      /\ cancel_flag'[b] = cancel_flag[b],
           CallerInv(a)',
           closed => pc'[a] # "cond",
           send_line' \in Seq(FiberSet), recv_line' \in Seq(FiberSet),
           IsInjective(send_line'), IsInjective(recv_line'),
           \A b \in FiberSet : b # a => /\ b \in Range(send_line') <=> b \in Range(send_line)
                                        /\ b \in Range(recv_line') <=> b \in Range(recv_line),
           closed => send_line' = <<>> /\ recv_line' = <<>>,
           a \in FiberSet => /\ a \in Range(send_line') <=> Waits(a)' /\ op'[a] = "send"
                             /\ a \in Range(recv_line') <=> Waits(a)' /\ op'[a] # "send"
    PROVE  LinesInv'
<1>1. BufferTypes' /\ RingInv'
  BY TypeParts, QuietBuffer DEF LinesInv, BufferTypes
<1>2. TypeOK'
  BY <1>1 DEF TypeOK, BufferTypes, CounterTypes, CallerTypes
<1>3. CallInv' /\ TokenInv' /\ NotBlockedIfSignalled'
  <2>1. \A b \in Actors : CallerInv(b)
    BY CallerParts DEF LinesInv
  <2>2. ASSUME NEW b \in Actors PROVE CallerInv(b)'
    <3>1. CASE b = a
      BY <3>1
    <3>2. CASE b # a
      BY <2>1, <3>2 DEF CallerInv
    <3> QED BY <3>1, <3>2
  <2> QED BY <2>2 DEF CallInv, TokenInv, NotBlockedIfSignalled, CallerInv, Actors
<1>4. LineInv'
  <2>1. ASSUME NEW b \in FiberSet
        PROVE  /\ b \in Range(send_line') <=> Waits(b)' /\ op'[b] = "send"
               /\ b \in Range(recv_line') <=> Waits(b)' /\ op'[b] # "send"
    <3>1. CASE b = a
      <4>1. a \in FiberSet
        BY <3>1
      <4>2. /\ a \in Range(send_line') <=> Waits(a)' /\ op'[a] = "send"
            /\ a \in Range(recv_line') <=> Waits(a)' /\ op'[a] # "send"
        BY <4>1
      <4> QED BY <3>1, <4>2, Zenon DEF Waits
    <3>2. CASE b # a
      <4>1. (Waits(b)' <=> Waits(b)) /\ op'[b] = op[b]
        BY <3>2 DEF Waits, Actors
      <4> QED BY <3>2, <4>1 DEF LinesInv, LineInv
    <3> QED BY <3>1, <3>2
  <2> QED BY <2>1 DEF LineInv
<1>5. ClosedHasNoWaiters'
  <2>1. CASE ~closed
    BY <2>1 DEF ClosedHasNoWaiters
  <2>2. CASE closed
    <3>1. Cond({"send", "recv", "gate"}) = {}
      BY <2>2 DEF LinesInv, ClosedHasNoWaiters
    <3>2. ASSUME NEW t \in ThreadSet PROVE ~(pc'[t] = "cond" /\ op'[t] \in {"send", "recv", "gate"})
      <4>1. t \in Actors
        BY DEF Actors
      <4>2. CASE t = a
        BY <2>2, <4>2
      <4>3. CASE t # a
        BY <3>1, <4>1, <4>3 DEF Cond
      <4> QED BY <4>2, <4>3
    <3> QED BY <2>2, <3>2 DEF ClosedHasNoWaiters, Cond
  <2> QED BY <2>1, <2>2
<1> QED BY <1>1, <1>2, <1>3, <1>4, <1>5 DEF LinesInv

\* The same when the lines stay as they are.
LEMMA OneCallerStays ==
    ASSUME LinesInv, NEW a \in Actors,
           UNCHANGED <<kind, q, head, count, closed, history, send_line, recv_line>>,
           CallerTypes', CounterTypes', cancel_flag' \in [Actors -> BOOLEAN],
           \A b \in Actors : b # a => /\ pc'[b] = pc[b] /\ op'[b] = op[b] /\ val'[b] = val[b]
                                      /\ signalled'[b] = signalled[b] /\ token'[b] = token[b]
                                      /\ cancel_flag'[b] = cancel_flag[b],
           CallerInv(a)',
           closed => pc'[a] # "cond",
           a \in FiberSet => Waits(a)' = Waits(a) /\ (Waits(a) => op'[a] = op[a])
    PROVE  LinesInv'
<1>1. closed => send_line' = <<>> /\ recv_line' = <<>>
  BY DEF LinesInv, ClosedHasNoWaiters
<1>2. a \in FiberSet => /\ a \in Range(send_line') <=> Waits(a)' /\ op'[a] = "send"
                        /\ a \in Range(recv_line') <=> Waits(a)' /\ op'[a] # "send"
  BY DEF LinesInv, LineInv
<1> QED BY <1>1, <1>2, LinesApart, OneCaller

LEMMA CallStep ==
    ASSUME LinesInv, NEW a \in Actors, NEW o \in {"send", "recv", "gate"},
           NEW v \in Values \union {None}, Call(a, o, v)
    PROVE  LinesInv'
<1>0. CallerTypes /\ CounterTypes /\ BufferTypes /\ cancel_flag \in [Actors -> BOOLEAN]
  BY TypeParts DEF LinesInv
<1>1. CallerInv(a)
  BY CallerParts DEF LinesInv
<1>2. CallerTypes' /\ CounterTypes' /\ cancel_flag' \in [Actors -> BOOLEAN]
  BY <1>0, ConstantsAssumption DEF Call, CallerTypes, CounterTypes
<1>3. CallerInv(a)' /\ pc'[a] # "cond"
  BY <1>0, <1>1 DEF CallerInv, Call, CallerTypes, BufferTypes, buffer
<1>4. Waits(a)' = Waits(a) /\ ~Waits(a)
  BY <1>0 DEF Call, CallerTypes, Waits
<1> QED BY <1>0, <1>2, <1>3, <1>4, OneCallerStays DEF Call, CallerTypes, buffer, lines, history

LEMMA ClosedAnswerStep ==
    ASSUME LinesInv, NEW a \in Actors, ClosedAnswer(a)
    PROVE  LinesInv'
<1>0. CallerTypes /\ CounterTypes /\ BufferTypes /\ cancel_flag \in [Actors -> BOOLEAN]
  BY TypeParts DEF LinesInv
<1>1. CallerInv(a)
  BY CallerParts DEF LinesInv
<1>2. CallerTypes' /\ CounterTypes' /\ cancel_flag' \in [Actors -> BOOLEAN]
  BY <1>0 DEF ClosedAnswer, Finished, CallerTypes, CounterTypes, bounds
<1>3. CallerInv(a)' /\ pc'[a] # "cond"
  BY <1>0, <1>1, ConstantsAssumption DEF CallerInv, ClosedAnswer, Finished, CallerTypes
<1>4. a \in FiberSet => Waits(a)' = Waits(a) /\ ~Waits(a)
  BY <1>0, ConstantsAssumption DEF ClosedAnswer, CallerTypes, Waits, Looping
<1> QED BY <1>0, <1>2, <1>3, <1>4, OneCallerStays
       DEF ClosedAnswer, Finished, CallerTypes, buffer, lines, history

LEMMA WaitStep ==
    ASSUME LinesInv, NEW a \in Actors, Wait(a)
    PROVE  LinesInv'
<1>0. CallerTypes /\ CounterTypes /\ BufferTypes /\ cancel_flag \in [Actors -> BOOLEAN]
  BY TypeParts DEF LinesInv
<1>1. CallerInv(a)
  BY CallerParts DEF LinesInv
<1>2. CallerTypes' /\ CounterTypes' /\ cancel_flag' \in [Actors -> BOOLEAN]
  BY <1>0 DEF Wait, CallerTypes, CounterTypes, bounds
<1>3. op[a] # "none" /\ ~closed
  BY <1>0, <1>1, CallerNotReachable DEF Wait, Satisfied, CallerTypes
<1>4. CallerInv(a)'
  BY <1>0, <1>1, <1>3, ConstantsAssumption DEF CallerInv, Wait, CallerTypes, Actors, buffer
<1>5. a \notin Range(send_line) /\ a \notin Range(recv_line)
  BY CallerNotReachable DEF Wait, Reachable
<1>6. ASSUME a \in FiberSet
      PROVE  /\ send_line' = IF op[a] = "send" THEN Append(send_line, a) ELSE send_line
             /\ recv_line' = IF op[a] = "send" THEN recv_line ELSE Append(recv_line, a)
             /\ Waits(a)' /\ op'[a] = op[a]
  BY <1>0, <1>6 DEF Wait, Waits, CallerTypes
<1>7. a \notin FiberSet => send_line' = send_line /\ recv_line' = recv_line
  BY DEF Wait
<1>8. /\ send_line' \in Seq(FiberSet) /\ recv_line' \in Seq(FiberSet)
      /\ IsInjective(send_line') /\ IsInjective(recv_line')
      /\ \A b \in FiberSet : b # a => /\ b \in Range(send_line') <=> b \in Range(send_line)
                                      /\ b \in Range(recv_line') <=> b \in Range(recv_line)
      /\ a \in FiberSet => /\ a \in Range(send_line') <=> op[a] = "send"
                           /\ a \in Range(recv_line') <=> op[a] # "send"
  <2>1. CASE a \notin FiberSet
    BY <1>7, <2>1, LinesApart
  <2>2. CASE a \in FiberSet /\ op[a] = "send"
    <3>1. send_line' = Append(send_line, a) /\ recv_line' = recv_line
      BY <1>6, <2>2
    <3>2. /\ Append(send_line, a) \in Seq(FiberSet) /\ IsInjective(Append(send_line, a))
          /\ Range(Append(send_line, a)) = Range(send_line) \union {a}
      BY <1>5, <2>2, LinesApart, PushLemma
    <3> QED BY <1>5, <2>2, <3>1, <3>2, LinesApart
  <2>3. CASE a \in FiberSet /\ op[a] # "send"
    <3>1. send_line' = send_line /\ recv_line' = Append(recv_line, a)
      BY <1>6, <2>3
    <3>2. /\ Append(recv_line, a) \in Seq(FiberSet) /\ IsInjective(Append(recv_line, a))
          /\ Range(Append(recv_line, a)) = Range(recv_line) \union {a}
      BY <1>5, <2>3, LinesApart, PushLemma
    <3> QED BY <1>5, <2>3, <3>1, <3>2, LinesApart
  <2> QED BY <2>1, <2>2, <2>3
<1>9. /\ UNCHANGED <<kind, q, head, count, closed, history>>
      /\ \A b \in Actors : b # a => /\ pc'[b] = pc[b] /\ op'[b] = op[b] /\ val'[b] = val[b]
                                    /\ signalled'[b] = signalled[b] /\ token'[b] = token[b]
                                    /\ cancel_flag'[b] = cancel_flag[b]
  BY <1>0 DEF Wait, CallerTypes, buffer, history
<1> QED BY <1>2, <1>3, <1>4, <1>6, <1>8, <1>9, OneCaller

LEMMA LeaveLineStep ==
    ASSUME LinesInv, NEW a \in Actors, LeaveLine(a)
    PROVE  LinesInv'
<1>0. CallerTypes /\ CounterTypes /\ BufferTypes /\ cancel_flag \in [Actors -> BOOLEAN]
  BY TypeParts DEF LinesInv
<1>1. CallerInv(a)
  BY CallerParts DEF LinesInv
<1>2. CallerTypes' /\ CounterTypes' /\ cancel_flag' \in [Actors -> BOOLEAN]
  BY <1>0 DEF LeaveLine, Finished, CallerTypes, CounterTypes, bounds
<1>3. a \in FiberSet
  BY <1>1 DEF CallerInv, LeaveLine, Actors
<1>4. CallerInv(a)' /\ pc'[a] = "ended" /\ ~Waits(a)'
  BY <1>0, <1>1, <1>3, ConstantsAssumption DEF CallerInv, LeaveLine, Finished, CallerTypes, Waits
<1>5. send_line' = RemoveFirst(send_line, a) /\ recv_line' = RemoveFirst(recv_line, a)
  BY DEF LeaveLine
<1>6. /\ send_line' \in Seq(FiberSet) /\ recv_line' \in Seq(FiberSet)
      /\ IsInjective(send_line') /\ IsInjective(recv_line')
      /\ Range(send_line') = Range(send_line) \ {a}
      /\ Range(recv_line') = Range(recv_line) \ {a}
  BY <1>3, <1>5, LinesApart, RemoveLemma
<1>7. ~closed
  <2>1. Waits(a)
    BY DEF LeaveLine, Waits
  <2>2. a \in Range(send_line) \/ a \in Range(recv_line)
    BY <1>3, <2>1 DEF LinesInv, LineInv
  <2> QED BY <2>2 DEF LinesInv, ClosedHasNoWaiters, Range
<1>8. /\ UNCHANGED <<kind, q, head, count, closed, history>>
      /\ \A b \in Actors : b # a => /\ pc'[b] = pc[b] /\ op'[b] = op[b] /\ val'[b] = val[b]
                                    /\ signalled'[b] = signalled[b] /\ token'[b] = token[b]
                                    /\ cancel_flag'[b] = cancel_flag[b]
  BY <1>0 DEF LeaveLine, Finished, CallerTypes, buffer, history
<1> QED BY <1>2, <1>4, <1>6, <1>7, <1>8, OneCaller

\* The steps of a park outside the lock, a cancellation and a stray wake.
LEMMA ParkingStep ==
    ASSUME LinesInv, NEW a \in Actors,
           Park(a) \/ Unpark(a) \/ ParkAgain(a) \/ Cancel(a) \/ Stray(a)
    PROVE  LinesInv'
<1>0. CallerTypes /\ CounterTypes /\ BufferTypes /\ cancel_flag \in [Actors -> BOOLEAN]
  BY TypeParts DEF LinesInv
<1>1. CallerInv(a)
  BY CallerParts DEF LinesInv
<1> DEFINE Others == \A b \in Actors :
                       b # a => /\ pc'[b] = pc[b] /\ op'[b] = op[b] /\ val'[b] = val[b]
                                /\ signalled'[b] = signalled[b] /\ token'[b] = token[b]
                                /\ cancel_flag'[b] = cancel_flag[b]
           Goal == /\ CallerTypes' /\ CounterTypes' /\ cancel_flag' \in [Actors -> BOOLEAN]
                   /\ CallerInv(a)' /\ Others
                   /\ pc'[a] = "cond" => pc[a] = "cond"
                   /\ op'[a] = op[a]
                   /\ a \in FiberSet => Waits(a)' = Waits(a)
                   /\ UNCHANGED <<kind, q, head, count, closed, history, send_line, recv_line>>
<1>2. ASSUME Park(a) PROVE Goal
  <2>1. CallerTypes' /\ CounterTypes' /\ cancel_flag' \in [Actors -> BOOLEAN]
    BY <1>0, <1>2 DEF Park, CallerTypes, CounterTypes, bounds
  <2>2. CallerInv(a)' /\ (pc'[a] = "cond" => pc[a] = "cond") /\ op'[a] = op[a]
    BY <1>0, <1>1, <1>2, ConstantsAssumption DEF CallerInv, Park, CallerTypes, buffer
  <2>3. a \in FiberSet => Waits(a)' = Waits(a)
    BY <1>0, <1>2 DEF Park, CallerTypes, Waits
  <2> QED BY <1>0, <1>2, <2>1, <2>2, <2>3 DEF Park, CallerTypes, buffer, lines, history
<1>3. ASSUME Unpark(a) PROVE Goal
  <2>1. CallerTypes' /\ CounterTypes' /\ cancel_flag' \in [Actors -> BOOLEAN]
    BY <1>0, <1>3 DEF Unpark, CallerTypes, CounterTypes, bounds
  <2>2. CallerInv(a)' /\ (pc'[a] = "cond" => pc[a] = "cond") /\ op'[a] = op[a]
    BY <1>0, <1>1, <1>3, ConstantsAssumption DEF CallerInv, Unpark, CallerTypes, buffer
  <2>3. a \in FiberSet => Waits(a)' = Waits(a)
    BY <1>0, <1>3 DEF Unpark, CallerTypes, Waits
  <2> QED BY <1>0, <1>3, <2>1, <2>2, <2>3 DEF Unpark, CallerTypes, buffer, lines, history
<1>4. ASSUME ParkAgain(a) PROVE Goal
  <2>1. CallerTypes' /\ CounterTypes' /\ cancel_flag' \in [Actors -> BOOLEAN]
    BY <1>0, <1>4 DEF ParkAgain, CallerTypes, CounterTypes, bounds
  <2>2. CallerInv(a)' /\ (pc'[a] = "cond" => pc[a] = "cond") /\ op'[a] = op[a]
    BY <1>0, <1>1, <1>4, ConstantsAssumption DEF CallerInv, ParkAgain, CallerTypes, buffer
  <2>3. a \in FiberSet => Waits(a)' = Waits(a)
    BY <1>0, <1>4 DEF ParkAgain, CallerTypes, Waits
  <2> QED BY <1>0, <1>4, <2>1, <2>2, <2>3 DEF ParkAgain, CallerTypes, buffer, lines, history
<1>5. ASSUME Cancel(a) PROVE Goal
  <2>0. pc' = [pc EXCEPT ![a] = IF pc[a] = "blocked" THEN "unparked" ELSE pc[a]]
    BY <1>0, <1>1, <1>5 DEF Cancel, WokenPc, CallerTypes, CallerInv
  <2>1. CallerTypes' /\ CounterTypes' /\ cancel_flag' \in [Actors -> BOOLEAN]
    BY <1>0, <1>5, <2>0 DEF Cancel, CallerTypes, CounterTypes, bounds
  <2>2. CallerInv(a)' /\ (pc'[a] = "cond" => pc[a] = "cond") /\ op'[a] = op[a]
    BY <1>0, <1>1, <1>5, <2>0, ConstantsAssumption DEF CallerInv, Cancel, CallerTypes, buffer
  <2>3. a \in FiberSet => Waits(a)' = Waits(a)
    BY <1>0, <1>5, <2>0 DEF Cancel, CallerTypes, Waits
  <2> QED BY <1>0, <1>5, <2>0, <2>1, <2>2, <2>3 DEF Cancel, CallerTypes, buffer, lines, history
<1>6. ASSUME Stray(a) PROVE Goal
  <2>0. pc' = [pc EXCEPT ![a] = IF pc[a] = "blocked" THEN "unparked"
                                ELSE IF pc[a] = "cond" THEN "woken" ELSE pc[a]]
    BY <1>0, <1>6 DEF Stray, WokenPc, CallerTypes
  <2>1. CallerTypes' /\ CounterTypes' /\ cancel_flag' \in [Actors -> BOOLEAN]
    BY <1>0, <1>6, <2>0, ConstantsAssumption DEF Stray, CallerTypes, CounterTypes
  <2>2. CallerInv(a)' /\ (pc'[a] = "cond" => pc[a] = "cond") /\ op'[a] = op[a]
    BY <1>0, <1>1, <1>6, <2>0, ConstantsAssumption DEF CallerInv, Stray, CallerTypes, buffer
  <2>3. a \in FiberSet => Waits(a)' = Waits(a)
    BY <1>0, <1>1, <1>6, <2>0 DEF Stray, CallerTypes, Waits, CallerInv
  <2> QED BY <1>0, <1>6, <2>0, <2>1, <2>2, <2>3 DEF Stray, CallerTypes, buffer, lines, history
<1>7. Goal
  BY <1>2, <1>3, <1>4, <1>5, <1>6
<1>8. closed => pc'[a] # "cond"
  <2> SUFFICES ASSUME closed, pc[a] = "cond" PROVE FALSE
    BY <1>7
  <2>1. a \in ThreadSet /\ op[a] \in {"send", "recv", "gate"}
    BY <1>0, <1>1 DEF CallerInv, Actors, CallerTypes
  <2> QED BY <2>1 DEF LinesInv, ClosedHasNoWaiters, Cond
<1> HIDE DEF Others
<1> QED
  <2>1. /\ CallerTypes' /\ CounterTypes' /\ cancel_flag' \in [Actors -> BOOLEAN]
        /\ CallerInv(a)' /\ op'[a] = op[a]
        /\ a \in FiberSet => Waits(a)' = Waits(a)
        /\ UNCHANGED <<kind, q, head, count, closed, history, send_line, recv_line>>
        /\ Others
    BY <1>7
  <2> QED BY <1>8, <2>1, OneCallerStays DEF Others

\* One step of the channel keeps the whole invariant.
LEMMA LinesStep == LinesInv /\ [Next]_vars => LinesInv'
<1> SUFFICES ASSUME LinesInv, [Next]_vars PROVE LinesInv'
  OBVIOUS
<1>1. ASSUME NEW a \in Actors, Step(a) PROVE LinesInv'
  BY <1>1, SendStep, RecvStep, ClosedAnswerStep, WaitStep, LeaveLineStep, ParkingStep DEF Step
<1>2. ASSUME NEW a \in Actors, NEW o \in {"send", "recv", "gate"},
             NEW v \in Values \union {None}, Call(a, o, v)
      PROVE  LinesInv'
  BY <1>2, CallStep
<1>3. ASSUME NEW a \in Actors, NEW v \in Values, TrySend(a, v) PROVE LinesInv'
  BY <1>3, SendStep
<1>4. ASSUME NEW a \in Actors, TryRecv(a) PROVE LinesInv'
  BY <1>4, RecvStep
<1>5. ASSUME NEW a \in Actors, Close(a) PROVE LinesInv'
  BY <1>5, CloseStep
<1>6. ASSUME NEW a \in Actors, Cancel(a) \/ Stray(a) PROVE LinesInv'
  BY <1>6, ParkingStep
<1>7. CASE UNCHANGED vars
  BY <1>7 DEF vars, buffer, lines, history, bounds, LinesInv, TypeOK, RingInv, CallInv, LineInv,
              TokenInv, NotBlockedIfSignalled, ClosedHasNoWaiters, Waits, Cond
<1> QED BY <1>1, <1>2, <1>3, <1>4, <1>5, <1>6, <1>7 DEF Next

\* The inductive invariant holds throughout: calls, lines, tokens, ring and close
\* agree in every reachable state.
THEOREM InvariantCorrect == Spec => []LinesInv
BY InitLines, LinesStep, PTL DEF Spec

\* The wait lines of fiber_line_push, fiber_line_pop and fiber_line_remove name
\* exactly the fibers that still wait, each once, through cancels, departures,
\* stray wakes and close.
THEOREM LinesExactCorrect == Spec => []LinesExact
<1>1. LinesInv => LinesExact
  <2> SUFFICES ASSUME LinesInv PROVE LinesExact
    OBVIOUS
  <2>1. LineIsWaiters
    <3> SUFFICES ASSUME NEW a \in FiberSet
                 PROVE  /\ Cardinality({i \in DOMAIN send_line : send_line[i] = a})
                              = IF Waits(a) /\ op[a] = "send" THEN 1 ELSE 0
                        /\ Cardinality({i \in DOMAIN recv_line : recv_line[i] = a})
                              = IF Waits(a) /\ op[a] # "send" THEN 1 ELSE 0
      BY DEF LineIsWaiters, Waits
    <3>1. Cardinality({i \in DOMAIN send_line : send_line[i] = a})
            = IF a \in Range(send_line) THEN 1 ELSE 0
      BY LinesApart, PlacesLemma
    <3>2. Cardinality({i \in DOMAIN recv_line : recv_line[i] = a})
            = IF a \in Range(recv_line) THEN 1 ELSE 0
      BY LinesApart, PlacesLemma
    <3> QED BY <3>1, <3>2 DEF LinesInv, LineInv
  <2> QED BY <2>1 DEF LinesExact, LinesInv
<1> QED BY <1>1, InvariantCorrect, PTL

-----------------------------------------------------------------------------
(* The ring buffer implements the bounded first in, first out queue.       *)

LEMMA FifoInit == Init => Fifo!Init
BY DEF Init, Fifo!Init

\* Every step of the channel is a step of the queue or leaves it alone.
LEMMA FifoStep == LinesInv /\ [Next]_vars => [Fifo!Next]_<<sent, received, closed>>
<1> SUFFICES ASSUME LinesInv, [Next]_vars PROVE [Fifo!Next]_<<sent, received, closed>>
  OBVIOUS
<1>0. BufferTypes /\ RingInv
  BY TypeParts DEF LinesInv
<1>1. ASSUME NEW v \in Values, count < cap, ~closed, PutValue(v)
      PROVE  Fifo!Next
  <2>1. Len(sent) - Len(received) < cap
    BY <1>0, <1>1 DEF RingInv
  <2>2. Fifo!Send(v)
    BY <1>1, <2>1 DEF PutValue, Fifo!Send
  <2> QED BY <2>2 DEF Fifo!Next
<1>2. ASSUME count # 0, TakeValue PROVE Fifo!Next
  <2>1. Len(received) < Len(sent) /\ q[head] = sent[Len(received) + 1]
    BY <1>0, <1>2, TakeStep
  <2>2. Fifo!Receive
    BY <1>2, <2>1 DEF TakeValue, Fifo!Receive
  <2> QED BY <2>2 DEF Fifo!Next
<1>3. ASSUME NEW a \in Actors, SendOk(a) PROVE Fifo!Next
  <2>1. val[a] \in Values
    BY <1>3 DEF SendOk, LinesInv, CallInv
  <2> QED BY <1>1, <1>3, <2>1 DEF SendOk
<1>4. ASSUME NEW a \in Actors, RecvOk(a) \/ TryRecv(a) PROVE Fifo!Next
  BY <1>2, <1>4 DEF RecvOk, TryRecv
<1>5. ASSUME NEW a \in Actors, NEW v \in Values, TrySend(a, v) PROVE Fifo!Next
  <2>1. count < cap
    BY <1>0, <1>5, CapLemma DEF TrySend, BufferTypes
  <2> QED BY <1>1, <1>5, <2>1 DEF TrySend
<1>6. ASSUME NEW a \in Actors, Close(a) PROVE Fifo!Next
  BY <1>6 DEF Close, history, Fifo!Next, Fifo!Close
<1>7. ASSUME NEW a \in Actors,
             \/ ClosedAnswer(a) \/ Wait(a) \/ Park(a) \/ Unpark(a) \/ ParkAgain(a) \/ LeaveLine(a)
             \/ Cancel(a) \/ Stray(a)
             \/ \E o \in {"send", "recv", "gate"}, v \in Values \union {None} : Call(a, o, v)
      PROVE  UNCHANGED <<sent, received, closed>>
  BY <1>7 DEF ClosedAnswer, Wait, Park, Unpark, ParkAgain, LeaveLine, Cancel, Stray, Call,
              buffer, history
<1>8. CASE UNCHANGED vars
  BY <1>8 DEF vars, buffer, history
<1> QED BY <1>3, <1>4, <1>5, <1>6, <1>7, <1>8 DEF Next, Step

\* beans_chan_send and beans_chan_recv hand every value out at most once, in the
\* order of the sends, never more than the capacity at a time and none after the
\* close: the channel implements ChannelFifo.
THEOREM FifoCorrect == Spec => FifoSpec
BY FifoInit, FifoStep, InvariantCorrect, PTL DEF Spec, FifoSpec, Fifo!Spec

-----------------------------------------------------------------------------
(* No wake is swallowed.                                                   *)

\* Nothing is ever put into a gate, which has no buffer to speak of.
GateEmpty == kind = "gate" => count = 0

StrandInv == LinesInv /\ GateEmpty /\ NobodyStranded

LEMMA ComingFinite ==
    ASSUME NEW ops
    PROVE  /\ IsFiniteSet(Coming(ops)) /\ Cardinality(Coming(ops)) \in Nat
           /\ IsFiniteSet(Coming(ops)') /\ Cardinality(Coming(ops)') \in Nat
<1>1. IsFiniteSet(Actors)
  BY ConstantsAssumption, FS_Union DEF Actors
<1>2. Coming(ops) \subseteq Actors /\ Coming(ops)' \subseteq Actors
  BY DEF Coming, Actors
<1> QED BY <1>1, <1>2, FS_Subset, FS_CardinalityType

\* One more on the way, one fewer, or none fewer.
LEMMA ComingMore ==
    ASSUME NEW S, NEW T, IsFiniteSet(T)
    PROVE  /\ S \subseteq T => /\ Cardinality(S) \in Nat /\ Cardinality(T) \in Nat
                               /\ Cardinality(S) <= Cardinality(T)
           /\ \A x : S \union {x} \subseteq T /\ x \notin S
                    => /\ Cardinality(S) \in Nat /\ Cardinality(T) \in Nat
                       /\ Cardinality(S) + 1 <= Cardinality(T)
           /\ \A x : IsFiniteSet(S) /\ S \ {x} \subseteq T
                    => /\ Cardinality(S) \in Nat /\ Cardinality(T) \in Nat
                       /\ Cardinality(S) - 1 <= Cardinality(T)
<1>0. Cardinality(T) \in Nat
  BY FS_CardinalityType
<1>1. ASSUME S \subseteq T PROVE Cardinality(S) \in Nat /\ Cardinality(S) <= Cardinality(T)
  BY <1>1, FS_Subset, FS_CardinalityType
<1>2. ASSUME NEW x, S \union {x} \subseteq T, x \notin S
      PROVE  Cardinality(S) \in Nat /\ Cardinality(S) + 1 <= Cardinality(T)
  <2>1. IsFiniteSet(S)
    BY <1>2, FS_Subset
  <2>2. Cardinality(S \union {x}) = Cardinality(S) + 1
    BY <1>2, <2>1, FS_AddElement
  <2>3. Cardinality(S \union {x}) <= Cardinality(T)
    BY <1>2, FS_Subset
  <2> QED BY <2>1, <2>2, <2>3, FS_CardinalityType
<1>3. ASSUME NEW x, IsFiniteSet(S), S \ {x} \subseteq T
      PROVE  Cardinality(S) \in Nat /\ Cardinality(S) - 1 <= Cardinality(T)
  <2>1. Cardinality(S) \in Nat
    BY <1>3, FS_CardinalityType
  <2>2. Cardinality(S \ {x}) = IF x \in S THEN Cardinality(S) - 1 ELSE Cardinality(S)
    BY <1>3, FS_RemoveElement
  <2>3. Cardinality(S \ {x}) <= Cardinality(T)
    BY <1>3, FS_Subset
  <2> QED BY <1>0, <2>1, <2>2, <2>3
<1> QED BY <1>0, <1>1, <1>2, <1>3

\* A step that neither fills nor drains the buffer, adds no waiter and takes
\* nobody off the way strands nobody.
LEMMA KeptServed ==
    ASSUME StrandInv, count' = count, closed' = closed,
           recv_line' # <<>> \/ Cond({"recv"})' # {} => recv_line # <<>> \/ Cond({"recv"}) # {},
           send_line' # <<>> \/ Cond({"send"})' # {} => send_line # <<>> \/ Cond({"send"}) # {},
           Coming({"recv"}) \subseteq Coming({"recv"})',
           Coming({"send"}) \subseteq Coming({"send"})'
    PROVE  NobodyStranded'
<1>0. count \in Nat /\ cap \in Nat
  BY CapLemma DEF StrandInv, LinesInv, TypeOK
<1>1. /\ Cardinality(Coming({"recv"})) \in Nat /\ Cardinality(Coming({"recv"})') \in Nat
      /\ Cardinality(Coming({"recv"})) <= Cardinality(Coming({"recv"})')
  BY ComingFinite, ComingMore
<1>2. /\ Cardinality(Coming({"send"})) \in Nat /\ Cardinality(Coming({"send"})') \in Nat
      /\ Cardinality(Coming({"send"})) <= Cardinality(Coming({"send"})')
  BY ComingFinite, ComingMore
<1>3. ReceiverNotStranded'
  BY <1>0, <1>1 DEF ReceiverNotStranded, StrandInv, NobodyStranded
<1>4. SenderNotStranded'
  BY <1>0, <1>2 DEF SenderNotStranded, StrandInv, NobodyStranded, cap
<1> QED BY <1>3, <1>4 DEF NobodyStranded

\* A value goes in: the wake of chan_wake_receiver puts one receiver on its way,
\* if any waits.
LEMMA PutServed ==
    ASSUME StrandInv, NEW a \in Actors, Looping(a) \/ pc[a] = "idle",
           op[a] \in {"send", "none"}, kind = "channel",
           count' = count + 1, kind' = kind, cancel_flag' = cancel_flag, closed' = closed,
           Looping(a) => Finished(a), ~Looping(a) => UNCHANGED <<op, val>>,
           ChanWakeReceiver(a)
    PROVE  NobodyStranded'
<1>0. /\ count \in Nat /\ cap \in Nat /\ LinesInv
      /\ signalled \in [Actors -> BOOLEAN] /\ op \in [Actors -> {"send", "recv", "gate", "none"}]
  BY CapLemma DEF StrandInv, LinesInv, TypeOK
<1>1. PICK W \in Woken(recv_line, Cond({"recv", "gate"})) : Signal(W, a)
  BY DEF ChanWakeReceiver
<1>2. recv_line' = Pop(recv_line) /\ send_line' = send_line
  BY DEF ChanWakeReceiver
<1>3. Cond({"recv", "gate"}) \subseteq ThreadSet
  BY DEF Cond
<1>4. /\ Pop(recv_line) \in Seq(FiberSet) /\ IsInjective(Pop(recv_line))
      /\ Range(Pop(recv_line)) = Range(recv_line) \ W
      /\ Range(send_line) = Range(send_line) \ W
      /\ W \subseteq Range(recv_line) \union Cond({"recv", "gate"})
      /\ recv_line # <<>> => W = {Head(recv_line)}
      /\ recv_line = <<>> /\ Cond({"recv", "gate"}) # {} => \E t \in Cond({"recv", "gate"}) : W = {t}
      /\ recv_line = <<>> /\ Cond({"recv", "gate"}) = {} => W = {}
  BY <1>0, <1>1, <1>3, LinesApart, WokenLemma
<1>5. W \in SUBSET Reachable
  BY <1>4 DEF Reachable, Cond
<1>6. /\ \A b \in Actors : b # a => op'[b] = op[b] /\ val'[b] = val[b]
      /\ \A ops : Cond(ops)' = Cond(ops) \ W
  BY <1>0, <1>1, <1>2, <1>4, <1>5, LinesApart, SignalStep
<1>7. a \notin W /\ W \subseteq Actors
  BY <1>0, <1>5, CallerNotReachable
<1>8. ASSUME NEW b \in Actors, b # a
      PROVE  /\ b \in FiberSet => (signalled'[b] <=> signalled[b] \/ b \in W)
             /\ pc[b] = "woken" => pc'[b] = "woken"
             /\ b \in W /\ pc[b] = "cond" => pc'[b] = "woken"
  BY <1>0, <1>1, <1>8 DEF Signal, WokenPc, LinesInv, TypeOK
<1>9. ASSUME NEW b \in W
      PROVE  /\ b \in Actors /\ b # a /\ op[b] = "recv"
             /\ b \notin Coming({"recv"}) /\ b \in Coming({"recv"})'
  <2>0. b \in Actors /\ b # a /\ op'[b] = op[b]
    BY <1>6, <1>7, <1>9
  <2>1. CASE b \in Range(recv_line)
    <3>1. b \in FiberSet /\ Waits(b) /\ op[b] # "send" /\ b \notin ThreadSet
      BY <1>0, <2>1, LinesApart, ConstantsAssumption DEF LinesInv, LineInv
    <3>2. op[b] = "recv"
      BY <1>0, <2>0, <3>1 DEF LinesInv, CallInv, Waits
    <3>3. ~signalled[b] /\ signalled'[b]
      BY <1>8, <1>9, <2>0, <3>1 DEF Waits
    <3> QED BY <2>0, <3>1, <3>2, <3>3 DEF Coming
  <2>2. CASE b \in Cond({"recv", "gate"})
    <3>1. b \in ThreadSet /\ pc[b] = "cond" /\ op[b] \in {"recv", "gate"} /\ b \notin FiberSet
      BY <2>2, ConstantsAssumption DEF Cond
    <3>2. op[b] = "recv"
      BY <1>0, <2>0, <3>1 DEF LinesInv, CallInv
    <3>3. pc'[b] = "woken"
      BY <1>8, <1>9, <2>0, <3>1
    <3> QED BY <2>0, <3>1, <3>2, <3>3 DEF Coming
  <2> QED BY <1>4, <1>9, <2>1, <2>2
<1>10. /\ Coming({"recv"}) \subseteq Coming({"recv"})'
       /\ Coming({"send"}) \ {a} \subseteq Coming({"send"})'
  <2>1. ASSUME NEW o, NEW b \in Coming({o}), b # a PROVE b \in Coming({o})'
    BY <1>6, <1>8, <2>1 DEF Coming, Actors
  <2>2. a \notin Coming({"recv"})
    BY DEF Coming
  <2> QED BY <2>1, <2>2
<1>11. ReceiverNotStranded'
  <2> SUFFICES ASSUME recv_line' # <<>> \/ Cond({"recv"})' # {}
               PROVE  count + 1 <= Cardinality(Coming({"recv"})')
    BY DEF ReceiverNotStranded
  <2>1. recv_line # <<>> \/ Cond({"recv"}) # {}
    BY <1>2, <1>6 DEF Pop
  <2>2. count <= Cardinality(Coming({"recv"}))
    BY <2>1 DEF StrandInv, NobodyStranded, ReceiverNotStranded
  <2>3. Cond({"recv"}) \subseteq Cond({"recv", "gate"})
    BY DEF Cond
  <2>4. PICK b \in W : TRUE
    BY <1>4, <2>1, <2>3
  <2>5. Coming({"recv"}) \union {b} \subseteq Coming({"recv"})' /\ b \notin Coming({"recv"})
    BY <1>9, <1>10
  <2>6. /\ Cardinality(Coming({"recv"})) \in Nat /\ Cardinality(Coming({"recv"})') \in Nat
        /\ Cardinality(Coming({"recv"})) + 1 <= Cardinality(Coming({"recv"})')
    BY <2>5, ComingFinite, ComingMore
  <2> QED BY <1>0, <2>2, <2>6
<1>12. SenderNotStranded'
  <2> SUFFICES ASSUME send_line' # <<>> \/ Cond({"send"})' # {}, ~closed
               PROVE  cap - (count + 1) <= Cardinality(Coming({"send"})')
    BY DEF SenderNotStranded, cap
  <2>1. cap - count <= Cardinality(Coming({"send"}))
    BY <1>2, <1>6 DEF StrandInv, NobodyStranded, SenderNotStranded
  <2>2. /\ Cardinality(Coming({"send"})) \in Nat /\ Cardinality(Coming({"send"})') \in Nat
        /\ Cardinality(Coming({"send"})) - 1 <= Cardinality(Coming({"send"})')
    BY <1>10, ComingFinite, ComingMore
  <2> QED BY <1>0, <2>1, <2>2
<1> QED BY <1>11, <1>12 DEF NobodyStranded

\* A value comes out: the wake of chan_wake_sender puts one sender on its way, if
\* any waits.
LEMMA TakeServed ==
    ASSUME StrandInv, NEW a \in Actors, Looping(a) \/ pc[a] = "idle",
           op[a] \in {"recv", "none"}, kind = "channel", count # 0,
           count' = count - 1, kind' = kind, cancel_flag' = cancel_flag, closed' = closed,
           Looping(a) => Finished(a), ~Looping(a) => UNCHANGED <<op, val>>,
           ChanWakeSender(a)
    PROVE  NobodyStranded'
<1>0. /\ count \in Nat /\ cap \in Nat /\ LinesInv
      /\ signalled \in [Actors -> BOOLEAN] /\ op \in [Actors -> {"send", "recv", "gate", "none"}]
  BY CapLemma DEF StrandInv, LinesInv, TypeOK
<1>1. PICK W \in Woken(send_line, Cond({"send"})) : Signal(W, a)
  BY DEF ChanWakeSender
<1>2. send_line' = Pop(send_line) /\ recv_line' = recv_line
  BY DEF ChanWakeSender
<1>3. Cond({"send"}) \subseteq ThreadSet
  BY DEF Cond
<1>4. /\ Pop(send_line) \in Seq(FiberSet) /\ IsInjective(Pop(send_line))
      /\ Range(Pop(send_line)) = Range(send_line) \ W
      /\ Range(recv_line) = Range(recv_line) \ W
      /\ W \subseteq Range(send_line) \union Cond({"send"})
      /\ send_line # <<>> => W = {Head(send_line)}
      /\ send_line = <<>> /\ Cond({"send"}) # {} => \E t \in Cond({"send"}) : W = {t}
      /\ send_line = <<>> /\ Cond({"send"}) = {} => W = {}
  BY <1>0, <1>1, <1>3, LinesApart, WokenLemma
<1>5. W \in SUBSET Reachable
  BY <1>4 DEF Reachable, Cond
<1>6. /\ \A b \in Actors : b # a => op'[b] = op[b] /\ val'[b] = val[b]
      /\ \A ops : Cond(ops)' = Cond(ops) \ W
  BY <1>0, <1>1, <1>2, <1>4, <1>5, LinesApart, SignalStep
<1>7. a \notin W /\ W \subseteq Actors
  BY <1>0, <1>5, CallerNotReachable
<1>8. ASSUME NEW b \in Actors, b # a
      PROVE  /\ b \in FiberSet => (signalled'[b] <=> signalled[b] \/ b \in W)
             /\ pc[b] = "woken" => pc'[b] = "woken"
             /\ b \in W /\ pc[b] = "cond" => pc'[b] = "woken"
  BY <1>0, <1>1, <1>8 DEF Signal, WokenPc, LinesInv, TypeOK
<1>9. ASSUME NEW b \in W
      PROVE  b \notin Coming({"send"}) /\ b \in Coming({"send"})'
  <2>0. b \in Actors /\ b # a /\ op'[b] = op[b]
    BY <1>6, <1>7, <1>9
  <2>1. CASE b \in Range(send_line)
    <3>1. b \in FiberSet /\ Waits(b) /\ op[b] = "send" /\ b \notin ThreadSet
      BY <1>0, <2>1, LinesApart, ConstantsAssumption DEF LinesInv, LineInv
    <3>2. ~signalled[b] /\ signalled'[b]
      BY <1>8, <1>9, <2>0, <3>1 DEF Waits
    <3> QED BY <2>0, <3>1, <3>2 DEF Coming
  <2>2. CASE b \in Cond({"send"})
    <3>1. b \in ThreadSet /\ pc[b] = "cond" /\ op[b] = "send" /\ b \notin FiberSet
      BY <2>2, ConstantsAssumption DEF Cond
    <3>2. pc'[b] = "woken"
      BY <1>8, <1>9, <2>0, <3>1
    <3> QED BY <2>0, <3>1, <3>2 DEF Coming
  <2> QED BY <1>4, <1>9, <2>1, <2>2
<1>10. /\ Coming({"send"}) \subseteq Coming({"send"})'
       /\ Coming({"recv"}) \ {a} \subseteq Coming({"recv"})'
  <2>1. ASSUME NEW o, NEW b \in Coming({o}), b # a PROVE b \in Coming({o})'
    BY <1>6, <1>8, <2>1 DEF Coming, Actors
  <2>2. a \notin Coming({"send"})
    BY DEF Coming
  <2> QED BY <2>1, <2>2
<1>11. SenderNotStranded'
  <2> SUFFICES ASSUME send_line' # <<>> \/ Cond({"send"})' # {}, ~closed
               PROVE  cap - (count - 1) <= Cardinality(Coming({"send"})')
    BY DEF SenderNotStranded, cap
  <2>1. send_line # <<>> \/ Cond({"send"}) # {}
    BY <1>2, <1>6 DEF Pop
  <2>2. cap - count <= Cardinality(Coming({"send"}))
    BY <2>1 DEF StrandInv, NobodyStranded, SenderNotStranded
  <2>3. PICK b \in W : TRUE
    BY <1>4, <2>1
  <2>4. Coming({"send"}) \union {b} \subseteq Coming({"send"})' /\ b \notin Coming({"send"})
    BY <1>9, <1>10
  <2>5. /\ Cardinality(Coming({"send"})) \in Nat /\ Cardinality(Coming({"send"})') \in Nat
        /\ Cardinality(Coming({"send"})) + 1 <= Cardinality(Coming({"send"})')
    BY <2>4, ComingFinite, ComingMore
  <2> QED BY <1>0, <2>2, <2>5
<1>12. ReceiverNotStranded'
  <2> SUFFICES ASSUME recv_line' # <<>> \/ Cond({"recv"})' # {}
               PROVE  count - 1 <= Cardinality(Coming({"recv"})')
    BY DEF ReceiverNotStranded
  <2>1. count <= Cardinality(Coming({"recv"}))
    BY <1>2, <1>6 DEF StrandInv, NobodyStranded, ReceiverNotStranded
  <2>2. /\ Cardinality(Coming({"recv"})) \in Nat /\ Cardinality(Coming({"recv"})') \in Nat
        /\ Cardinality(Coming({"recv"})) - 1 <= Cardinality(Coming({"recv"})')
    BY <1>10, ComingFinite, ComingMore
  <2> QED BY <1>0, <2>1, <2>2
<1> QED BY <1>11, <1>12 DEF NobodyStranded

\* A closed channel strands nobody, since nobody waits at it.
LEMMA ClosedServed ==
    ASSUME LinesInv', closed'
    PROVE  NobodyStranded'
BY DEF LinesInv, ClosedHasNoWaiters, NobodyStranded, ReceiverNotStranded, SenderNotStranded, Cond

\* A caller goes to wait only beside an empty buffer, or a full one.
LEMMA WaitServed ==
    ASSUME StrandInv, NEW a \in Actors, Wait(a)
    PROVE  NobodyStranded'
<1>0. /\ count \in 0..cap /\ cap \in Nat /\ LinesInv /\ CallerTypes /\ BufferTypes
      /\ op[a] # "none"
  BY CapLemma, TypeParts, CallerNotReachable DEF StrandInv, LinesInv, TypeOK, Wait
<1>1. /\ count' = count /\ closed' = closed /\ op' = op /\ kind' = kind
      /\ \A b \in Actors : b # a => pc'[b] = pc[b] /\ signalled'[b] = signalled[b]
  BY <1>0 DEF Wait, CallerTypes, buffer
<1>2. ASSUME NEW o \in {"send", "recv"}, op[a] # o
      PROVE  Coming({o}) \subseteq Coming({o})' /\ Cond({o})' \subseteq Cond({o})
  BY <1>1, <1>2 DEF Coming, Cond, Actors
<1>3. CASE op[a] = "send"
  <2>1. count = cap
    BY <1>0, <1>3 DEF Wait, Satisfied
  <2>2. recv_line' = recv_line
    BY <1>3 DEF Wait
  <2>3. ReceiverNotStranded'
    <3>1. /\ Cardinality(Coming({"recv"})) \in Nat /\ Cardinality(Coming({"recv"})') \in Nat
          /\ Cardinality(Coming({"recv"})) <= Cardinality(Coming({"recv"})')
      BY <1>2, <1>3, ComingFinite, ComingMore
    <3>2. recv_line' # <<>> \/ Cond({"recv"})' # {} => recv_line # <<>> \/ Cond({"recv"}) # {}
      BY <1>2, <1>3, <2>2
    <3> QED BY <1>0, <1>1, <3>1, <3>2 DEF ReceiverNotStranded, StrandInv, NobodyStranded
  <2>4. SenderNotStranded'
    BY <1>0, <1>1, <2>1, ComingFinite DEF SenderNotStranded, cap
  <2> QED BY <2>3, <2>4 DEF NobodyStranded
<1>4. CASE op[a] # "send"
  <2>1. count = 0
    BY <1>0, <1>4 DEF Wait, Satisfied, CallerTypes, StrandInv, GateEmpty, LinesInv, CallInv
  <2>2. send_line' = send_line
    BY <1>4 DEF Wait
  <2>3. ReceiverNotStranded'
    BY <1>1, <2>1, ComingFinite DEF ReceiverNotStranded
  <2>4. SenderNotStranded'
    <3>1. /\ Cardinality(Coming({"send"})) \in Nat /\ Cardinality(Coming({"send"})') \in Nat
          /\ Cardinality(Coming({"send"})) <= Cardinality(Coming({"send"})')
      BY <1>2, <1>4, ComingFinite, ComingMore
    <3>2. send_line' # <<>> \/ Cond({"send"})' # {} => send_line # <<>> \/ Cond({"send"}) # {}
      BY <1>2, <1>4, <2>2
    <3> QED BY <1>0, <1>1, <3>1, <3>2 DEF SenderNotStranded, StrandInv, NobodyStranded, cap
  <2> QED BY <2>3, <2>4 DEF NobodyStranded
<1> QED BY <1>3, <1>4

\* The steps that neither touch the buffer nor begin a wait.
LEMMA QuietServed ==
    ASSUME StrandInv, NEW a \in Actors,
           \/ Park(a) \/ Unpark(a) \/ ParkAgain(a) \/ LeaveLine(a) \/ Cancel(a) \/ Stray(a)
           \/ \E o \in {"send", "recv", "gate"}, v \in Values \union {None} : Call(a, o, v)
    PROVE  NobodyStranded'
<1>0. LinesInv /\ CallerTypes /\ CallerInv(a)
  BY TypeParts, CallerParts DEF StrandInv, LinesInv
<1>1. count' = count /\ closed' = closed
  BY DEF Park, Unpark, ParkAgain, LeaveLine, Cancel, Stray, Call, buffer
<1>2. ASSUME NEW b \in Actors, b # a
      PROVE  pc'[b] = pc[b] /\ op'[b] = op[b] /\ signalled'[b] = signalled[b]
  BY <1>0, <1>2 DEF Park, Unpark, ParkAgain, LeaveLine, Cancel, Stray, Call, WokenPc, Finished,
                    CallerTypes
<1>3. ASSUME NEW o \in {"send", "recv"}
      PROVE  /\ a \in Coming({o}) => a \in Coming({o})'
             /\ a \in Cond({o})' => a \in Cond({o})
  <2>1. CASE Park(a) \/ Unpark(a) \/ ParkAgain(a)
    BY <1>0, <2>1, ConstantsAssumption
       DEF Park, Unpark, ParkAgain, CallerTypes, CallerInv, Coming, Cond
  <2>2. CASE LeaveLine(a)
    BY <1>0, <2>2, ConstantsAssumption
       DEF LeaveLine, Finished, CallerTypes, CallerInv, Coming, Cond
  <2>3. CASE Cancel(a) \/ Stray(a)
    BY <1>0, <2>3, ConstantsAssumption
       DEF Cancel, Stray, WokenPc, CallerTypes, CallerInv, Coming, Cond
  <2>4. CASE \E p \in {"send", "recv", "gate"}, v \in Values \union {None} : Call(a, p, v)
    BY <1>0, <2>4, ConstantsAssumption DEF Call, CallerTypes, CallerInv, Coming, Cond
  <2> QED BY <2>1, <2>2, <2>3, <2>4
<1>4. ASSUME NEW o \in {"send", "recv"}
      PROVE  Coming({o}) \subseteq Coming({o})' /\ Cond({o})' \subseteq Cond({o})
  BY <1>2, <1>3 DEF Coming, Cond, Actors
<1>5. (recv_line' # <<>> => recv_line # <<>>) /\ (send_line' # <<>> => send_line # <<>>)
  <2>1. CASE LeaveLine(a)
    <3>1. a \in FiberSet
      BY <1>0, <2>1 DEF LeaveLine, CallerInv, Actors
    <3>2. /\ send_line' \in Seq(FiberSet) /\ Range(send_line') = Range(send_line) \ {a}
          /\ recv_line' \in Seq(FiberSet) /\ Range(recv_line') = Range(recv_line) \ {a}
      BY <1>0, <2>1, <3>1, LinesApart, RemoveLemma DEF LeaveLine
    <3>3. ASSUME NEW s \in Seq(FiberSet), s # <<>> PROVE Head(s) \in Range(s)
      BY <3>3, HeadTailProperties, LenProperties, EmptySeq DEF Range
    <3>4. Range(<<>>) = {}
      BY DEF Range
    <3> QED BY <3>2, <3>3, <3>4
  <2>2. CASE ~LeaveLine(a)
    BY <2>2 DEF Park, Unpark, ParkAgain, Cancel, Stray, Call, lines
  <2> QED BY <2>1, <2>2
<1>6. /\ recv_line' # <<>> \/ Cond({"recv"})' # {} => recv_line # <<>> \/ Cond({"recv"}) # {}
      /\ send_line' # <<>> \/ Cond({"send"})' # {} => send_line # <<>> \/ Cond({"send"}) # {}
  BY <1>4, <1>5
<1> QED BY <1>1, <1>4, <1>6, KeptServed

LEMMA StrandStep == StrandInv /\ [Next]_vars => StrandInv'
<1> SUFFICES ASSUME StrandInv, [Next]_vars PROVE StrandInv'
  OBVIOUS
<1>0. LinesInv /\ LinesInv' /\ GateEmpty
  BY LinesStep DEF StrandInv
<1>1. GateEmpty'
  <2>1. CASE kind = "channel"
    <3>1. kind' = kind
      BY DEF Next, Step, SendOk, RecvOk, ClosedAnswer, Wait, Park, Unpark, ParkAgain, LeaveLine,
             Call, TrySend, TryRecv, Close, Cancel, Stray, PutValue, TakeValue, buffer, vars
    <3> QED BY <2>1, <3>1 DEF GateEmpty
  <2>2. CASE kind = "gate"
    <3>1. count = 0 /\ \A a \in Actors : op[a] # "send"
      BY <1>0, <2>2 DEF GateEmpty, LinesInv, CallInv
    <3>2. count' = count
      BY <2>2, <3>1 DEF Next, Step, SendOk, RecvOk, ClosedAnswer, Wait, Park, Unpark, ParkAgain,
             LeaveLine, Call, TrySend, TryRecv, Close, Cancel, Stray, buffer, vars
    <3> QED BY <3>1, <3>2 DEF GateEmpty
  <2> QED BY <1>0, <2>1, <2>2 DEF LinesInv, TypeOK
<1>2. NobodyStranded'
  <2>1. ASSUME NEW a \in Actors, SendOk(a) PROVE NobodyStranded'
    <3>1. op[a] = "send" /\ kind = "channel" /\ Looping(a)
      BY <1>0, <2>1 DEF SendOk, LinesInv, CallInv
    <3> QED BY <2>1, <3>1, PutServed DEF SendOk, PutValue
  <2>2. ASSUME NEW a \in Actors, NEW v \in Values, TrySend(a, v) PROVE NobodyStranded'
    <3>1. op[a] = "none" /\ kind = "channel" /\ ~Looping(a) /\ pc[a] = "idle"
      BY <1>0, <2>2 DEF TrySend, LinesInv, CallInv, Looping
    <3> QED BY <2>2, <3>1, PutServed DEF TrySend, PutValue
  <2>3. ASSUME NEW a \in Actors, RecvOk(a) PROVE NobodyStranded'
    <3>1. op[a] = "recv" /\ kind = "channel" /\ Looping(a)
      BY <1>0, <2>3 DEF RecvOk, LinesInv, CallInv
    <3> QED BY <2>3, <3>1, TakeServed DEF RecvOk, TakeValue
  <2>4. ASSUME NEW a \in Actors, TryRecv(a) PROVE NobodyStranded'
    <3>1. op[a] = "none" /\ kind = "channel" /\ ~Looping(a) /\ pc[a] = "idle"
      BY <1>0, <2>4 DEF TryRecv, LinesInv, CallInv, Looping
    <3> QED BY <2>4, <3>1, TakeServed DEF TryRecv, TakeValue
  <2>5. ASSUME NEW a \in Actors, ClosedAnswer(a) \/ Close(a) PROVE NobodyStranded'
    BY <1>0, <2>5, ClosedServed DEF ClosedAnswer, Close, buffer
  <2>6. ASSUME NEW a \in Actors, Wait(a) PROVE NobodyStranded'
    BY <2>6, WaitServed
  <2>7. ASSUME NEW a \in Actors,
               \/ Park(a) \/ Unpark(a) \/ ParkAgain(a) \/ LeaveLine(a) \/ Cancel(a) \/ Stray(a)
               \/ \E o \in {"send", "recv", "gate"}, v \in Values \union {None} : Call(a, o, v)
        PROVE  NobodyStranded'
    BY <2>7, QuietServed
  <2>8. CASE UNCHANGED vars
    BY <2>8 DEF vars, buffer, lines, StrandInv, NobodyStranded, ReceiverNotStranded,
                SenderNotStranded, Coming, Cond
  <2> QED BY <2>1, <2>2, <2>3, <2>4, <2>5, <2>6, <2>7, <2>8 DEF Next, Step
<1> QED BY <1>0, <1>1, <1>2 DEF StrandInv

\* No wake of a channel is swallowed: whatever is cancelled, closed, woken by
\* chance or barged past, nobody waits beside a value or a free slot unless
\* another waiter was already told of it (chan_wake_receiver, chan_wake_sender).
THEOREM NobodyStrandedCorrect == Spec => []NobodyStranded
<1>1. Init => StrandInv
  <2> SUFFICES ASSUME Init PROVE StrandInv
    OBVIOUS
  <2>1. LinesInv
    BY InitLines
  <2>2. recv_line = <<>> /\ send_line = <<>> /\ Cond({"recv"}) = {} /\ Cond({"send"}) = {}
    BY DEF Init, Cond, Actors
  <2> QED BY <2>1, <2>2 DEF Init, StrandInv, GateEmpty, NobodyStranded, ReceiverNotStranded,
                            SenderNotStranded
<1>2. StrandInv => NobodyStranded
  BY DEF StrandInv
<1> QED BY <1>1, <1>2, StrandStep, PTL DEF Spec

=============================================================================
