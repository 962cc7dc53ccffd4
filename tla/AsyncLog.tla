------------------------------ MODULE AsyncLog ------------------------------
(***************************************************************************)
(* log-system/src/log.c: the ring between the callers of log_write and the *)
(* writer thread, the numbered files it rotates through, and log_close.    *)
(* Without async_mode callers write the file themselves under g_log.mutex. *)
(*                                                                         *)
(* log_close clears running and signals without g_ring.lock, so in         *)
(* ring_buffer_pop the test and the wait are two steps (ThreadPop,         *)
(* ThreadSleep) with the lock held in between; push is one step, because   *)
(* everything that matters to it happens under the lock.  An entry counts  *)
(* one unit towards the size of a file; messages are numbers, in the order *)
(* in which they enter the ring or the file.                               *)
(***************************************************************************)
EXTENDS Integers, SequencesExt

CONSTANTS
    Writers,     \* threads that call log_write
    Capacity,    \* config.ring_buffer_size
    MaxSize,     \* config.max_file_size
    MaxCount,    \* config.max_file_count
    MaxEntries,  \* bound on the calls of log_write
    MaxRotates,  \* bound on the calls of log_rotate by the application
    OpenFails    \* the next log file may fail to open

VARIABLES
    async,       \* config.async_mode, chosen at log_init
    entries, head, tail, count,  \* g_ring
    ringLock,    \* the writer thread holds g_ring.lock between two steps
    mutex,       \* the writer that holds g_log.mutex for good, or Nobody
    running,     \* g_log.running
    thread,      \* where async_thread_func is
    draining,    \* it is in the second loop
    current,     \* the entry it has popped
    writer,      \* where each caller of log_write is
    closer,      \* where log_close is
    files,       \* content of the log files by index
    open,        \* log_file is not NULL
    index, size, \* current_file_index, current_file_size
    total,       \* total_entries
    accepted, written,  \* history: entries in the order taken and written
    rotates      \* calls of log_rotate by the application

ring == <<entries, head, tail, count>>
disk == <<files, open, index, size>>
out == <<written, total>>
vars == <<async, ring, ringLock, mutex, running, thread, draining, current, writer, closer,
          disk, out, accepted, rotates>>

Nobody == "nobody"

Init ==
    /\ entries = [i \in 0 .. Capacity - 1 |-> 0]
    /\ head = 0 /\ tail = 0 /\ count = 0
    /\ ringLock = FALSE
    /\ mutex = Nobody
    /\ async \in BOOLEAN
    /\ running = async
    /\ thread = IF async THEN "loop" ELSE "done"
    /\ draining = FALSE
    /\ current = 0
    /\ writer = [w \in Writers |-> "idle"]
    /\ closer = "open"
    /\ files = [i \in 0 .. MaxCount - 1 |-> <<>>]
    /\ open = TRUE /\ index = 0 /\ size = 0
    /\ accepted = <<>> /\ written = <<>> /\ total = 0
    /\ rotates = 0

-----------------------------------------------------------------------------
\* log_rotate under the mutex: the next index, 0 after the last, opened for
\* appending, its size taken to be 0.
Rotated == [i |-> IF index + 1 >= MaxCount THEN 0 ELSE index + 1, f |-> files]

\* output_file and total_entries++, with the rotation that may come first; once
\* log_file is NULL nothing is written any more.
WriteOut(e) ==
    /\ LET full == size + 1 > MaxSize
           i == IF full THEN Rotated.i ELSE index
           f == IF full THEN Rotated.f ELSE files
       IN  \/ /\ open
              /\ files' = [f EXCEPT ![i] = Append(@, e)]
              /\ index' = i
              /\ size' = IF full THEN 1 ELSE size + 1
              /\ UNCHANGED open
           \/ ~open /\ UNCHANGED disk
    /\ written' = Append(written, e)
    /\ total' = total + 1

\* log_rotate called by the application.
Rotate ==
    /\ closer = "open"
    /\ mutex = Nobody
    /\ open
    /\ rotates < MaxRotates
    /\ rotates' = rotates + 1
    /\ files' = Rotated.f
    /\ index' = Rotated.i
    /\ open' \in {TRUE, ~OpenFails}
    /\ size' = IF open' THEN 0 ELSE size
    /\ UNCHANGED <<async, ring, ringLock, mutex, running, thread, draining, current, writer, closer,
                   out, accepted>>

-----------------------------------------------------------------------------
\* pthread_cond_signal(&not_empty): there is only one thread to wake.
WakeThread == thread' = IF thread = "asleep" THEN "pop" ELSE thread

\* Mutant: the tail is not wrapped to the capacity but one short of it.
PushEntryShort(e) ==
    /\ entries' = [entries EXCEPT ![tail] = e]
    /\ tail' = IF tail + 1 >= Capacity - 1 THEN 0 ELSE tail + 1
    /\ count' = count + 1

PushEntry(e) ==
    /\ entries' = [entries EXCEPT ![tail] = e]
    /\ tail' = (tail + 1) % Capacity
    /\ count' = count + 1

\* log_write in asynchronous mode: ring_buffer_push by a caller that arrives, or
\* that was woken inside it.
Push(w) ==
    /\ async /\ ~ringLock
    /\ \/ writer[w] = "idle" /\ closer = "open" /\ Len(accepted) < MaxEntries
       \/ writer[w] = "woken"
    /\ \/ /\ count >= Capacity
          /\ writer' = [writer EXCEPT ![w] = "asleep"]
          /\ UNCHANGED <<ring, accepted, thread>>
       \/ /\ count < Capacity
          /\ PushEntry(Len(accepted) + 1)
          /\ accepted' = Append(accepted, Len(accepted) + 1)
          /\ writer' = [writer EXCEPT ![w] = "idle"]
          /\ WakeThread
          /\ UNCHANGED head
    /\ UNCHANGED <<async, ringLock, mutex, running, draining, current, closer, disk, out, rotates>>

\* log_write in synchronous mode.  A rotation would lock g_log.mutex, which the
\* caller holds: it never returns.
WriteSync(w) ==
    /\ ~async
    /\ writer[w] = "idle" /\ closer = "open" /\ Len(accepted) < MaxEntries
    /\ mutex = Nobody
    /\ accepted' = Append(accepted, Len(accepted) + 1)
    /\ \/ /\ open /\ size + 1 > MaxSize
          /\ mutex' = w
          /\ writer' = [writer EXCEPT ![w] = "stuck"]
          /\ UNCHANGED <<disk, out>>
       \/ /\ open => size + 1 <= MaxSize
          /\ WriteOut(Len(accepted) + 1)
          /\ UNCHANGED <<mutex, writer>>
    /\ UNCHANGED <<async, ring, ringLock, running, thread, draining, current, closer, rotates>>

-----------------------------------------------------------------------------
\* Mutant: the test never sees that running was cleared.
ThreadLoopForever ==
    /\ thread = "loop"
    /\ thread' = "pop"
    /\ UNCHANGED <<async, ring, ringLock, mutex, running, draining, current, writer, closer, disk,
                   out, accepted, rotates>>

\* async_thread_func: the test of the first loop.
ThreadLoop ==
    /\ thread = "loop"
    /\ draining' = ~running
    /\ thread' = "pop"
    /\ UNCHANGED <<async, ring, ringLock, mutex, running, current, writer, closer, disk, out,
                   accepted, rotates>>

SignalNotFull ==
    IF \E w \in Writers : writer[w] = "asleep"
    THEN \E w \in Writers : writer[w] = "asleep" /\ writer' = [writer EXCEPT ![w] = "woken"]
    ELSE UNCHANGED writer

\* ring_buffer_pop up to its wait, or to its end.
ThreadPop ==
    /\ thread = "pop" /\ ~ringLock
    /\ \/ /\ count > 0
          /\ current' = entries[head]
          /\ head' = (head + 1) % Capacity
          /\ count' = count - 1
          /\ SignalNotFull
          /\ thread' = "output"
          /\ UNCHANGED <<entries, tail, ringLock>>
       \/ /\ count = 0 /\ running
          /\ ringLock' = TRUE
          /\ thread' = "sleepy"
          /\ UNCHANGED <<ring, current, writer>>
       \/ /\ count = 0 /\ ~running
          /\ thread' = IF draining THEN "done" ELSE "loop"
          /\ UNCHANGED <<ring, ringLock, current, writer>>
    /\ UNCHANGED <<async, mutex, running, draining, closer, disk, out, accepted, rotates>>

ThreadSleep ==
    /\ thread = "sleepy"
    /\ thread' = "asleep"
    /\ ringLock' = FALSE
    /\ UNCHANGED <<async, ring, mutex, running, draining, current, writer, closer, disk, out,
                   accepted, rotates>>

ThreadOutput ==
    /\ thread = "output"
    /\ mutex = Nobody
    /\ WriteOut(current)
    /\ current' = 0
    /\ thread' = IF draining THEN "pop" ELSE "loop"
    /\ UNCHANGED <<async, ring, ringLock, mutex, running, draining, writer, closer, accepted, rotates>>

\* The rotation inside output_file fails to open the next file, and fwrite gets
\* NULL: the process dies.
ThreadCrash ==
    /\ OpenFails
    /\ thread = "output"
    /\ mutex = Nobody
    /\ open /\ size + 1 > MaxSize
    /\ thread' = "crashed"
    /\ open' = FALSE
    /\ index' = Rotated.i
    /\ UNCHANGED <<async, ring, ringLock, mutex, running, draining, current, writer, closer, out,
                   files, size, accepted, rotates>>

\* pthread_cond_wait may return without a signal.
Spurious ==
    /\ \/ /\ thread = "asleep" /\ thread' = "pop" /\ UNCHANGED writer
       \/ \E w \in Writers : /\ writer[w] = "asleep"
                             /\ writer' = [writer EXCEPT ![w] = "woken"]
                             /\ UNCHANGED thread
    /\ UNCHANGED <<async, ring, ringLock, mutex, running, draining, current, closer, disk, out,
                   accepted, rotates>>

-----------------------------------------------------------------------------
\* log_close, called when no other call is in progress; in synchronous mode it
\* only closes the file.
CloseBegin ==
    /\ closer = "open"
    /\ \A w \in Writers : writer[w] = "idle"
    /\ running' = FALSE
    /\ closer' = IF running THEN "signal" ELSE "closed"
    /\ open' = (open /\ running)
    /\ UNCHANGED <<async, ring, ringLock, mutex, thread, draining, current, writer, files, index, size,
                   out, accepted, rotates>>

CloseSignal ==
    /\ closer = "signal"
    /\ WakeThread
    /\ closer' = "join"
    /\ UNCHANGED <<async, ring, ringLock, mutex, running, draining, current, writer, disk, out,
                   accepted, rotates>>

\* The thread is joined and the file closed.
CloseJoin ==
    /\ closer = "join"
    /\ thread = "done"
    /\ closer' = "closed"
    /\ open' = FALSE
    /\ UNCHANGED <<async, ring, ringLock, mutex, running, thread, draining, current, writer, files, index,
                   size, out, accepted, rotates>>

ThreadStep == ThreadLoop \/ ThreadPop \/ ThreadSleep \/ ThreadOutput
CloseStep == CloseSignal \/ CloseJoin
Alive == thread # "crashed"

Next ==
    /\ Alive
    /\ \/ \E w \in Writers : Push(w) \/ WriteSync(w)
       \/ ThreadStep \/ ThreadCrash \/ Spurious \/ Rotate \/ CloseBegin \/ CloseStep

Spec == Init /\ [][Next]_vars
FairSpec ==
    /\ Spec
    /\ WF_vars(ThreadLoop \/ ThreadSleep \/ ThreadOutput)
    /\ SF_vars(ThreadPop)
    /\ WF_vars(Alive /\ CloseStep)
    /\ \A w \in Writers : SF_vars(Alive /\ writer[w] = "woken" /\ Push(w))

-----------------------------------------------------------------------------
InRing == [i \in 1 .. count |-> entries[(head + i - 1) % Capacity]]

\* Every entry taken by log_write gets to output_file once and in order (where it
\* is dropped if log_file is NULL): what got there, what the thread has in hand and what the ring holds are exactly what was
\* taken, across the wrap-around of the ring; total_entries counts what got
\* there.  (In synchronous mode the last entry taken may be that of a stuck
\* caller.)
NothingLostOrReordered ==
    /\ async => accepted = written \o (IF thread \in {"output", "crashed"} THEN <<current>> ELSE <<>>) \o InRing
    /\ ~async => IsPrefix(written, accepted) /\ Len(accepted) - Len(written) =
                     (IF mutex = Nobody THEN 0 ELSE 1)
    /\ total = Len(written)

\* After its signal, log_close waits for ever only for a thread that the signal
\* came too early for: one that had tested running and was not yet asleep.
CloseReturnsIfHeard ==
    (closer = "join" /\ thread \notin {"sleepy", "asleep"}) ~> (closer = "closed" \/ thread = "crashed")
=============================================================================
