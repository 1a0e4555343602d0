---------------------------- MODULE FileHandles ----------------------------
(***************************************************************************)
(* Files and mappings of std.fs (src/runtime/beans_rt.c): handles that own *)
(* a descriptor or a mapping, move between threads, are closed by name or  *)
(* when their owner drops them, and read, write and lock one file, which   *)
(* other handles change at the same time.  A transfer is a loop of system  *)
(* calls, each of which moves as much as the kernel likes; a call that is  *)
(* interrupted is made again and changes nothing.                          *)
(***************************************************************************)
EXTENDS Integers, Sequences, FiniteSets

CONSTANTS FileThreads, Main,  \* Main is a thread, the others are its workers
          Handles,
          Nums,           \* descriptor numbers
          Nobody,
          Contents,       \* what the file may hold at first
          Payloads,       \* what is written to it
          MaxSize,        \* bound: bytes in the file
          Positions,      \* positions and lengths that calls are given
          Half,           \* a word holds -Half..Half-1
          MaxCalls        \* bound: calls begun

VARIABLES
    workers,  \* worker threads that run; cc_threads is their number
    handle,   \* BFile or BMMap, and who owns it; or Nobody
    fds,      \* descriptor number -> [by, mode, at], at the file position
    mapped,   \* handle -> bytes mapped for it
    data,     \* what the file holds
    shared,   \* size of the shared-memory object, -1 while there is no name
    flocked,  \* the descriptor that has the lock, or Nobody
    transfer, \* thread -> the transfer or lock under way
    calls

fileVars == <<workers, handle, fds, mapped, data, shared, flocked, transfer, calls>>
os == <<fds, mapped, data, shared, flocked>>

Closed == 0  \* the fd of a handle that gave its descriptor back; -1 in the code
Idle == [op |-> "none"]
Smaller(x, y) == IF x < y THEN x ELSE y
Larger(x, y) == IF x > y THEN x ELSE y
Wrapped(x) == ((x + Half) % (2 * Half)) - Half
\* The file after bytes were put at a position; a hole reads as 0.
Put(s, at, bytes) ==
    [i \in 1..Larger(Len(s), at + Len(bytes)) |->
        IF i > at /\ i <= at + Len(bytes) THEN bytes[i - at] ELSE IF i <= Len(s) THEN s[i] ELSE 0]
Resized(s, n) == [i \in 1..n |-> IF i <= Len(s) THEN s[i] ELSE 0]

FileInit ==
    /\ workers = {} /\ handle = [h \in Handles |-> Nobody] /\ fds = [n \in Nums |-> Nobody]
    /\ mapped = [h \in Handles |-> 0] /\ data \in Contents /\ shared = -1 /\ flocked = Nobody
    /\ transfer = [t \in FileThreads |-> Idle] /\ calls = 0

Free == {n \in Nums : fds[n] = Nobody}
Owns(t, h) == handle[h] # Nobody /\ handle[h].owner = t
IsFile(h) == handle[h].kind = "file"
Fd(h) == handle[h].fd
At(h) == fds[Fd(h)].at
Moved(h, at) == fds' = [fds EXCEPT ![Fd(h)].at = at]
\* A thread makes one call at a time, on a handle of its own.  A call that
\* changes nothing is no step: one that is refused (a closed handle, a bad
\* argument) or fails at once, tell, size, sync, flush, the reads of a mapping.
Begins(t) ==
    transfer[t] = Idle /\ t \in workers \union {Main} /\ calls < MaxCalls /\ calls' = calls + 1
BeginsOn(t, h) == Begins(t) /\ Owns(t, h) /\ ~handle[h].closed
BeginsOnFile(t, h) == BeginsOn(t, h) /\ IsFile(h)
\* Whoever has a transfer under way on the file will not see one state of it.
Disturbed(t) ==
    [u \in FileThreads |-> IF u # t /\ transfer[u] # Idle THEN [transfer[u] EXCEPT !.quiet = FALSE]
                      ELSE transfer[u]]

(***************************************************************************)
(* Threads, and the owner of a handle                                      *)
(***************************************************************************)
Spawn(t) ==
    /\ t \notin workers \union {Main}
    /\ workers' = workers \union {t} /\ UNCHANGED <<handle, os, transfer, calls>>
Exit(t) ==
    /\ t \in workers /\ transfer[t] = Idle /\ \A h \in Handles : ~Owns(t, h)
    /\ workers' = workers \ {t} /\ UNCHANGED <<handle, os, transfer, calls>>
Move(h, t, u) ==
    /\ Owns(t, h) /\ transfer[t] = Idle /\ u \in workers \union {Main} /\ u # t
    /\ handle' = [handle EXCEPT ![h].owner = u] /\ UNCHANGED <<workers, os, transfer, calls>>

\* close(): the kernel forgets the number, and the lock that was its own.
Shut(n) ==
    /\ fds' = IF n \in Nums THEN [fds EXCEPT ![n] = Nobody] ELSE fds
    /\ flocked' = IF flocked = n THEN Nobody ELSE flocked

\* cc_free_shell: whatever is still open goes with the last reference.
Drop(t, h) ==
    /\ Owns(t, h) /\ transfer[t] = Idle
    /\ Shut(handle[h].fd) /\ mapped' = [mapped EXCEPT ![h] = 0]
    /\ handle' = [handle EXCEPT ![h] = Nobody]
    /\ UNCHANGED <<workers, data, shared, transfer, calls>>

(***************************************************************************)
(* Opening and closing                                                     *)
(***************************************************************************)
Handle(kind, t, n, len, writable) ==
    [kind |-> kind, owner |-> t, fd |-> n, closed |-> FALSE, len |-> len, writable |-> writable]
Opened(h, n, mode) == fds' = [fds EXCEPT ![n] = [by |-> h, mode |-> mode, at |-> 0]]

beans_file_open(t, h, mode) ==
    /\ Begins(t) /\ handle[h] = Nobody
    /\ \E n \in Free :
         Opened(h, n, mode) /\ handle' = [handle EXCEPT ![h] = Handle("file", t, n, 0, mode # "r")]
    /\ UNCHANGED <<workers, mapped, data, shared, flocked, transfer>>

\* An empty file maps with no address.  Without memory for the mapping the
\* descriptor is closed again.
beans_mmap_open(t, h, writable) ==
    /\ Begins(t) /\ handle[h] = Nobody
    /\ \E n \in Free :
         /\ Opened(h, n, IF writable THEN "rw" ELSE "r")
         /\ handle' = [handle EXCEPT ![h] = Handle("map", t, n, Len(data), writable)]
    /\ mapped' = [mapped EXCEPT ![h] = Len(data)]
    /\ UNCHANGED <<workers, data, shared, flocked, transfer>>

\* The descriptor is closed once there is a mapping, and on every failure;
\* what create has done to the object by then stays.
beans_shm_open(t, h, size, create) ==
    LET object == IF create THEN size ELSE shared
    IN /\ Begins(t) /\ handle[h] = Nobody /\ Free # {} /\ size > 0
       /\ shared' = object
       /\ \/ create /\ UNCHANGED <<handle, mapped>>
          \/ /\ object >= size
             /\ mapped' = [mapped EXCEPT ![h] = size]
             /\ handle' = [handle EXCEPT ![h] = Handle("shm", t, Closed, size, TRUE)]
       /\ UNCHANGED <<workers, fds, data, flocked, transfer>>
beans_shm_unlink(t) ==
    /\ Begins(t) /\ shared # -1 /\ shared' = -1
    /\ UNCHANGED <<workers, handle, fds, mapped, data, flocked, transfer>>

\* While workers live the handle is closed in name only.
beans_close(t, h) ==
    /\ BeginsOn(t, h)
    /\ IF workers # {}
       THEN handle' = [handle EXCEPT ![h].closed = TRUE] /\ UNCHANGED <<fds, mapped, flocked>>
       ELSE /\ handle' = [handle EXCEPT ![h].closed = TRUE, ![h].fd = Closed]
            /\ Shut(Fd(h)) /\ mapped' = [mapped EXCEPT ![h] = 0]
    /\ UNCHANGED <<workers, data, shared, transfer>>

(***************************************************************************)
(* Transfers.  was, start and quiet are ghosts: the file and the position  *)
(* when the transfer began, and whether the file is still nobody else's.   *)
(***************************************************************************)
Transfer(op, h, pos, n, bytes, cursor) ==
    [op |-> op, h |-> h, start |-> pos, n |-> n, done |-> 0, bytes |-> bytes, cursor |-> cursor,
     was |-> data, quiet |-> TRUE]
Start(t, c) == transfer' = [transfer EXCEPT ![t] = c] /\ UNCHANGED <<workers, handle, os>>

\* read and read_text with the cursor, read_at and read_text_at without; what
\* is asked is clamped to what fstat says the file has.
beans_file_read(t, h, pos, n, cursor) ==
    LET from == IF cursor THEN At(h) ELSE pos
    IN /\ BeginsOnFile(t, h) /\ n >= 0 /\ from >= 0
       /\ Start(t, Transfer("read", h, from, Smaller(n, Larger(0, Len(data) - from)), <<>>, cursor))
beans_file_write(t, h, pos, bytes, cursor) ==
    /\ BeginsOnFile(t, h) /\ (cursor \/ pos >= 0)
    /\ Start(t, Transfer("write", h, IF cursor THEN At(h) ELSE pos, Len(bytes), bytes, cursor))

\* One call of read or pread: some bytes, or none at the end of the file, which
\* ends the loop.
Reads(t) ==
    LET c == transfer[t]
        from == c.start + c.done
        rest == Larger(0, Len(data) - from)
    IN /\ c.op = "read" /\ c.done < c.n /\ fds[Fd(c.h)].mode # "append"
       /\ \E k \in 0..Smaller(c.n - c.done, rest) :
            /\ k > 0 \/ rest = 0
            /\ transfer' = [transfer EXCEPT ![t].done = @ + k, ![t].n = IF k = 0 THEN c.done ELSE @,
                                    ![t].bytes = @ \o SubSeq(data, from + 1, from + k)]
            /\ IF c.cursor THEN Moved(c.h, from + k) ELSE UNCHANGED fds
       /\ UNCHANGED <<workers, handle, mapped, data, shared, flocked, calls>>

\* Mutant of Rest: the loop begins again at the first byte.
RestFromStart(c) == c.bytes
Rest(c) == SubSeq(c.bytes, c.done + 1, c.n)
\* One call of write or pwrite; an append goes to the end, whatever position.
Writes(t) ==
    LET c == transfer[t]
        to == IF fds[Fd(c.h)].mode = "append" THEN Len(data) ELSE c.start + c.done
    IN /\ c.op = "write" /\ c.done < c.n /\ fds[Fd(c.h)].mode # "r"
       /\ \E k \in 1..(c.n - c.done) :
            /\ to + k <= MaxSize
            /\ data' = Put(data, to, SubSeq(Rest(c), 1, k))
            /\ transfer' = [Disturbed(t) EXCEPT ![t].done = @ + k]
            /\ IF c.cursor THEN Moved(c.h, to + k) ELSE UNCHANGED fds
       /\ UNCHANGED <<workers, handle, mapped, shared, flocked, calls>>

\* The loop is through, or a call failed: what was moved stays moved.
Returns(t) ==
    /\ transfer[t] # Idle /\ transfer' = [transfer EXCEPT ![t] = Idle]
    /\ UNCHANGED <<workers, handle, os, calls>>

beans_file_seek(t, h, pos, fromEnd) ==
    LET to == pos + IF fromEnd THEN Len(data) ELSE 0
    IN /\ BeginsOnFile(t, h) /\ to >= 0 /\ Moved(h, to)
       /\ UNCHANGED <<workers, handle, mapped, data, shared, flocked, transfer>>
beans_file_truncate(t, h, n) ==
    /\ BeginsOnFile(t, h) /\ n >= 0 /\ handle[h].writable
    /\ data' = Resized(data, n) /\ transfer' = Disturbed(t)
    /\ UNCHANGED <<workers, handle, fds, mapped, shared, flocked>>

(***************************************************************************)
(* Locks: flock belongs to the descriptor.  lock waits until it is granted, *)
(* try_lock answers false.                                                 *)
(***************************************************************************)
Flock(t, h, holder) ==
    /\ BeginsOnFile(t, h) /\ flocked' = holder
    /\ UNCHANGED <<workers, handle, fds, mapped, data, shared, transfer>>
beans_file_lock(t, h) == flocked = Nobody /\ Flock(t, h, Fd(h))
beans_file_unlock(t, h) == Owns(t, h) /\ flocked = Fd(h) /\ Flock(t, h, Nobody)

(***************************************************************************)
(* Mappings                                                                *)
(***************************************************************************)
\* mmap_word, mmap_put_word, read, write, flush_range: the difference of two
\* words does not wrap once n is within the length; the sum pos + n would.
Within(h, pos, n) ==
    pos >= 0 /\ n >= 0 /\ n <= handle[h].len /\ pos <= Wrapped(handle[h].len - n)
\* Another handle may have cut the file that is mapped: a write beyond its end
\* is not followed.
beans_mmap_write(t, h, pos, bytes) ==
    /\ BeginsOn(t, h) /\ handle[h].kind = "map" /\ handle[h].writable
    /\ Within(h, pos, Len(bytes)) /\ pos + Len(bytes) <= Len(data)
    /\ data' = Put(data, pos, bytes) /\ transfer' = Disturbed(t)
    /\ UNCHANGED <<workers, handle, fds, mapped, shared, flocked>>
\* Shared memory kept no descriptor to resize.  The file is cut first; without
\* memory for the new mapping the handle stays open, with nothing mapped.
beans_mmap_resize(t, h, n) ==
    /\ BeginsOn(t, h) /\ handle[h].kind = "map" /\ handle[h].writable /\ n >= 0
    /\ data' = Resized(data, n) /\ transfer' = Disturbed(t)
    /\ \E len \in {0, n} :
         /\ mapped' = [mapped EXCEPT ![h] = len]
         /\ handle' = [handle EXCEPT ![h].len = len]
    /\ UNCHANGED <<workers, fds, shared, flocked>>

FileNext ==
    \E t \in FileThreads :
      \/ Spawn(t) \/ Exit(t) \/ Reads(t) \/ Writes(t) \/ Returns(t) \/ beans_shm_unlink(t)
      \/ \E h \in Handles :
           \/ \E u \in FileThreads : Move(h, t, u)
           \/ Drop(t, h) \/ beans_close(t, h) \/ beans_file_lock(t, h) \/ beans_file_unlock(t, h)
           \/ \E mode \in {"r", "rw", "append"} : beans_file_open(t, h, mode)
           \/ \E writable \in BOOLEAN : beans_mmap_open(t, h, writable)
           \/ \E n \in Positions :
                \/ \E create \in BOOLEAN : beans_shm_open(t, h, n, create)
                \/ \E cursor \in BOOLEAN, pos \in Positions : beans_file_read(t, h, pos, n, cursor)
                \/ \E fromEnd \in BOOLEAN : beans_file_seek(t, h, n, fromEnd)
                \/ n <= MaxSize /\ (beans_file_truncate(t, h, n) \/ beans_mmap_resize(t, h, n))
                \/ \E cursor \in BOOLEAN, bytes \in Payloads : beans_file_write(t, h, n, bytes, cursor)
                \/ \E bytes \in Payloads : beans_mmap_write(t, h, n, bytes)

FileSpec == FileInit /\ [][FileNext]_fileVars

(***************************************************************************)
(* Properties                                                              *)
(***************************************************************************)
\* A number that is open belongs to the one live handle that names it, and a
\* handle names no other: nothing is closed twice, nothing leaks, and a number
\* used again is not somebody's old one (beans_file_close, cc_free_shell).  The
\* lock goes with its number.
DescriptorsOwned ==
    /\ \A h \in Handles : handle[h] # Nobody /\ Fd(h) # Closed =>
           fds[Fd(h)] # Nobody /\ fds[Fd(h)].by = h
    /\ \A n \in Nums : fds[n] # Nobody =>
           handle[fds[n].by] # Nobody /\ Fd(fds[n].by) = n
    /\ flocked # Nobody => fds[flocked] # Nobody

\* A mapping goes with its handle, and until that is closed every access that
\* is let through lies inside it, whatever the word (mmap_word,
\* beans_mmap_write, beans_mmap_resize).
MappingsOwned ==
    \A h \in Handles :
        /\ handle[h] = Nobody => mapped[h] = 0
        /\ handle[h] # Nobody /\ ~handle[h].closed /\ ~IsFile(h) =>
               \A pos, n \in -Half..(Half - 1) : Within(h, pos, n) => pos + n <= mapped[h]

\* A transfer of a file that nobody else has changed meanwhile has taken or put
\* exactly the first bytes it was asked for, however the kernel cut it, and the
\* cursor is behind them (the loops of read_at to write_text).
Exact(t) ==
    LET c == transfer[t]
        to == IF fds[Fd(c.h)].mode = "append" THEN Len(c.was) ELSE c.start
    IN c # Idle /\ c.quiet =>
        /\ c.op = "read" =>
               c.bytes = SubSeq(c.was, c.start + 1, c.start + c.done) /\ Len(c.bytes) = c.done
        /\ c.op = "write" =>
               data = IF c.done = 0 THEN c.was ELSE Put(c.was, to, SubSeq(c.bytes, 1, c.done))
        /\ c.cursor /\ c.done > 0 => At(c.h) = c.done + IF c.op = "read" THEN c.start ELSE to
TransfersExact == \A t \in FileThreads : Exact(t)

\* Descriptors and mappings belong to one live handle each, a transfer nobody
\* disturbs moves exactly its bytes, and no access leaves its mapping
\* (beans_file_close, cc_free_shell, beans_mmap_resize, mmap_word).
FilesRight == DescriptorsOwned /\ MappingsOwned /\ TransfersExact
=============================================================================
