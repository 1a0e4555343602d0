----------------------------- MODULE PollEvents -----------------------------
(* The registration half of std.poll: what add, modify, remove and a wait    *)
(* make of an epoll set, a kqueue or the WSAPoll registry of Windows, and    *)
(* the list of events the program gets.  The kernel's three readiness        *)
(* structures are modelled as the calls in poll_apply and the wait use them; *)
(* a batch of ready entries comes back in any order, cut at the room asked   *)
(* for.  The wake pipe appears as one entry that may be ready.               *)
EXTENDS Integers, Sequences, FiniteSets, SequencesExt

CONSTANTS Backends,  \* which of "epoll", "kqueue", "wsapoll" to look at
          Socks,     \* sockets the program opens, each at most once
          Nums,      \* descriptor numbers, handed out again after a close
          Tokens,    \* what the program registers with
          PeerStates, \* what a peer makes of a socket: sets of "data", "room", "fin"
          MaxEvents  \* limits a wait may be given

VARIABLES backend,   \* the platform
          num,       \* socket -> its number, 0 before it opens and after it closes
          state,     \* socket -> what its peer has made of it, one of PeerStates
          asked,     \* socket -> the program's registration, or NotAsked (ghost)
          set,       \* the interest set: a sequence of entries
          wake,      \* a byte waits in the wake pipe
          out        \* what the last wait returned

vars == <<backend, num, state, asked, set, wake, out>>

\* A socket's state: unread "data", "room" to write, a peer that sent its "fin".
Wants == {{"r"}, {"w"}, {"r", "w"}}
NotAsked == [token |-> 0, want |-> {}]
NoWait == [max |-> 0, events |-> <<>>, woken |-> FALSE]
Opened == {s \in Socks : num[s] # 0}
\* The open socket that has number n now.
Holder(n) == {s \in Opened : num[s] = n}

Init ==
    /\ backend \in Backends
    /\ num = [s \in Socks |-> 0] /\ state = [s \in Socks |-> {}]
    /\ asked = [s \in Socks |-> NotAsked]
    /\ set = <<>> /\ wake = FALSE /\ out = NoWait

----------------------------------------------------------------------------
\* An entry of the set belongs to a socket (epoll and kqueue hold the open
\* file and forget it when it is closed) or only to a number (WSAPoll).
AnyFilter(e, s) == e.num = num[s]
Without(q, s) == SelectSeq(q, LAMBDA e : ~AnyFilter(e, s))

\* epoll_ctl ADD or MOD, and whichever the set needs when the first one fails:
\* the entry ends up exactly as asked.  Removing an absent one is no failure.
EpollApply(s, t, want) ==
    IF want = {} THEN Without(set, s)
    ELSE Append(Without(set, s), [num |-> num[s], filters |-> want, token |-> t])

\* kqueue: one filter for reads and one for writes, each added or deleted.
KqueueApply(s, t, want) ==
    Without(set, s) \o [i \in 1..Cardinality(want) |->
        [num |-> num[s], token |-> t,
         filters |-> IF want = {"w"} \/ i = 2 THEN {"w"} ELSE {"r"}]]

\* The registry: present means update in place, absent means append, and a
\* removed entry's place is taken by the last one.
Find(q, n) == SelectInSeq(q, LAMBDA e : e.num = n)
Swapped(q, at) == IF at = 0 THEN q ELSE SubSeq([q EXCEPT ![at] = Last(q)], 1, Len(q) - 1)
Placed(at, entry) == IF at = 0 THEN Append(set, entry) ELSE [set EXCEPT ![at] = entry]
RegistryApply(s, t, want) ==
    IF want = {} THEN Swapped(set, Find(set, num[s]))
    ELSE Placed(Find(set, num[s]), [num |-> num[s], filters |-> want, token |-> t])

Apply(s, t, want) ==
    CASE backend = "epoll" -> EpollApply(s, t, want)
      [] backend = "kqueue" -> KqueueApply(s, t, want)
      [] backend = "wsapoll" -> RegistryApply(s, t, want)

\* beans_poll_add, for add and for modify alike.
Add(s, t, want) ==
    /\ s \in Opened
    /\ set' = Apply(s, t, want)
    /\ asked' = [asked EXCEPT ![s] = [token |-> t, want |-> want]]
    /\ out' = NoWait /\ UNCHANGED <<backend, num, state, wake>>

Unwatch(s) ==
    /\ s \in Opened
    /\ set' = Apply(s, 0, {})
    /\ asked' = [asked EXCEPT ![s] = NotAsked]
    /\ out' = NoWait /\ UNCHANGED <<backend, num, state, wake>>

\* A socket opens at a free number; closing gives the number back.
Open(s) ==
    /\ num[s] = 0 /\ state[s] = {}
    /\ \E n \in Nums : Holder(n) = {} /\ num' = [num EXCEPT ![s] = n]
    /\ state' = [state EXCEPT ![s] = {"room"}]
    /\ out' = NoWait /\ UNCHANGED <<backend, asked, set, wake>>

Close(s) ==
    /\ s \in Opened
    /\ num' = [num EXCEPT ![s] = 0]
    /\ asked' = [asked EXCEPT ![s] = NotAsked]
    /\ set' = IF backend = "wsapoll" THEN set ELSE Without(set, s)
    /\ out' = NoWait /\ UNCHANGED <<backend, state, wake>>

\* The peer sends, closes its half or stops reading; the program reads.
Peer(s) ==
    /\ s \in Opened
    /\ \E st \in PeerStates :
          /\ "fin" \in state[s] => "fin" \in st
          /\ st # state[s]
          /\ state' = [state EXCEPT ![s] = st]
    /\ out' = NoWait /\ UNCHANGED <<backend, num, asked, set, wake>>

WakeUp ==
    /\ ~wake /\ wake' = TRUE
    /\ out' = NoWait /\ UNCHANGED <<backend, num, state, asked, set>>

----------------------------------------------------------------------------
Readable(s) == state[s] \cap {"data", "fin"} # {}

\* What the kernel says of an entry: R, W and H stand for the three bits.
Raw(e) ==
    UNION {(IF "r" \in e.filters /\ Readable(s) THEN {"R"} ELSE {})
           \cup (IF "w" \in e.filters /\ "room" \in state[s] THEN {"W"} ELSE {})
           \cup (IF "fin" \in state[s] /\ ((backend = "epoll")
                                           \/ (backend = "kqueue" /\ "r" \in e.filters))
                 THEN {"H"} ELSE {}) : s \in Holder(e.num)}

\* The Windows branch: a readable socket whose peek finds nothing has ended.
Probed(e, f) ==
    IF backend = "wsapoll" /\ "R" \in f /\ \E s \in Holder(e.num) : state[s] \cap {"data", "fin"} = {"fin"}
    THEN f \cup {"H"} ELSE f

\* Kernel slots asked for: two filters for each event, and the wake.
Room(max) == IF backend = "wsapoll" THEN Len(set) + 1 ELSE (max * 2) + 1

WakeEntry == [num |-> 0, filters |-> {"r"}, token |-> 0]
Ready == (IF wake THEN {WakeEntry} ELSE {}) \cup {e \in Range(set) : Raw(e) # {}}

\* The orders a kernel queue can have; WSAPoll keeps that of the registry,
\* where the wake came first.
Orders(ready) == IF backend = "wsapoll"
                 THEN {SelectSeq(<<WakeEntry>> \o set, LAMBDA e : e \in ready)}
                 ELSE SetToSeqs(ready)
Batch(q, max) == SubSeq(q, 1, IF Len(q) < Room(max) THEN Len(q) ELSE Room(max))

Event(e, f) == [num |-> e.num, token |-> e.token, flags |-> f]

\* Mutant of SamePair.
SamePairByToken(e, v) == e.token = v.token

\* Whether the event already listed is of the same registration.
SamePair(e, v) == e.num = v.num /\ e.token = v.token

\* One entry of the batch: the wake is noted, a pair is merged, and what is
\* past the limit is left for the next wait.
MergeAt(r, e, max, at) ==
    IF e = WakeEntry
    THEN IF backend = "kqueue" \/ Len(r.events) < max THEN [r EXCEPT !.woken = TRUE] ELSE r
    ELSE IF backend = "kqueue" /\ at # 0
         THEN [r EXCEPT !.events[at].flags = @ \cup Raw(e)]
         ELSE IF Len(r.events) >= max THEN r
              ELSE [r EXCEPT !.events = Append(@, Event(e, Probed(e, Raw(e))))]
Merge(r, e, max) ==
    MergeAt(r, e, max, SelectInSeq(r.events, LAMBDA v : SamePair(e, v)))
Report(batch, max) ==
    FoldLeft(LAMBDA r, e : Merge(r, e, max), [NoWait EXCEPT !.max = max], batch)

\* POLLNVAL: the registry forgets each closed number the scan comes by before
\* the list is full.
Scanned(r) == IF backend # "wsapoll" THEN <<>>
              ELSE IF Len(r.events) < r.max THEN set
              ELSE SubSeq(set, 1, Find(set, Last(r.events).num))
Forgotten(r) ==
    FoldLeft(LAMBDA q, e : IF Holder(e.num) = {} THEN Swapped(q, Find(q, e.num)) ELSE q,
             set, Scanned(r))

\* beans_poll_wait with something ready; a wake that was seen is drained.
Wait(max) ==
    /\ Ready # {}
    /\ \E q \in Orders(Ready) : out' = Report(Batch(q, max), max)
    /\ wake' = (wake /\ ~out'.woken)
    /\ set' = Forgotten(out')
    /\ UNCHANGED <<backend, num, state, asked>>

Next ==
    \/ \E s \in Socks : Open(s) \/ Close(s) \/ Unwatch(s) \/ Peer(s)
    \/ \E s \in Socks, t \in Tokens, want \in Wants : Add(s, t, want)
    \/ WakeUp
    \/ \E max \in MaxEvents : Wait(max)
Spec == Init /\ [][Next]_vars

----------------------------------------------------------------------------
\* An entry of the registry whose number a later, unregistered socket has.
Stale == \E e \in Range(set) : \E s \in Holder(e.num) : asked[s] = NotAsked
\* What a registration should report.
Due(s) ==
    (IF "r" \in asked[s].want /\ Readable(s) THEN {"R"} ELSE {})
    \cup (IF "w" \in asked[s].want /\ "room" \in state[s] THEN {"W"} ELSE {})
DueSocks == {s \in Opened : Due(s) # {}}
EventOf(s) == {i \in DOMAIN out.events : out.events[i].num = num[s]}

\* Whatever the backend, when the limit has room for everybody, each socket
\* that is ready for what it was registered for is reported exactly once,
\* under its own token and with exactly the bits it is ready for: the read
\* and write halves kqueue reports apart are one event, two sockets that share
\* a token are two events, and the wake takes no one's place.
BackendsAgree ==
    (out.max # 0 /\ Cardinality({s \in Opened : asked[s] # NotAsked}) <= out.max)
    => \A s \in DueSocks :
          \E i \in DOMAIN out.events :
             /\ EventOf(s) = {i}
             /\ out.events[i].token = asked[s].token
             /\ out.events[i].flags \ {"H"} = Due(s)

\* No event carries the token of a registration the program does not have:
\* the socket it is about is open and was registered under that token.  (The
\* registry of Windows keeps an entry by its number: Stale.)
EventsAreRegistered ==
    ~Stale => \A i \in DOMAIN out.events :
                 \E s \in Holder(out.events[i].num) : asked[s].token = out.events[i].token

\* A wake is never an event, and never waits behind a full list for ever: a
\* wait that has room left has seen it.
WakeSeen ==
    /\ \A i \in DOMAIN out.events : out.events[i].num # 0
    /\ (out.max # 0 /\ Len(out.events) < out.max) => ~wake

\* A peer that has gone is told to everyone who reads from it, once there is
\* nothing left to read.
HangupTold ==
    (out.max # 0 /\ Cardinality({s \in Opened : asked[s] # NotAsked}) <= out.max)
    => \A s \in Opened : ("r" \in asked[s].want /\ state[s] \cap {"data", "fin"} = {"fin"})
          => \E i \in EventOf(s) : "H" \in out.events[i].flags

\* The three backends report what is registered and ready, under the token
\* it was registered with, hangups and wakes included.
ReportsFaithful == BackendsAgree /\ EventsAreRegistered /\ WakeSeen
    /\ HangupTold
=============================================================================
