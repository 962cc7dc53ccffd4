----------------------------- MODULE MCPrograms -----------------------------
(***************************************************************************)
(* Programs of the repository that each stand for themselves: a connection *)
(* through the proxy, the shared-memory benchmarks, a request to the web   *)
(* server, the serial terminal, the memory pool library and the logging    *)
(* library. They share no state, so a behaviour is one of any of them.     *)
(***************************************************************************)
EXTENDS Integers, Sequences

CONSTANTS
    MaxUp, MaxDown, Timeouts,
    Iterations,
    Sizes, Room, MaxEdits,
    LineSize, MaxKeys,
    BlockCount, Threads, MaxAllocs,
    Writers, Capacity, MaxSize, MaxCount, MaxEntries, MaxRotates, OpenFails

VARIABLES
    which,   \* the component that runs
    px_kind, px_pc, px_ready, px_buffer, px_client, px_upstream, px_fromClient, px_fromUp,
    px_toClient, px_toUp, px_sentByClient, px_sentByUp, px_clientFd, px_upFd, px_why, px_active,
    shm_variant, shm_data, shm_ready, shm_done, shm_parent, shm_child, shm_sentRounds,
    shm_answered, shm_erased,
    web_request, web_path, web_index, web_use, web_pc, web_client, web_answers, web_announced,
    web_body, web_opened, web_clientOpen, web_edits, web_touched,
    ser_running, ser_escape, ser_lineMode, ser_line, ser_port, ser_tty, ser_where, ser_sent,
    ser_keys, ser_fileSent, ser_mixed,
    mem_next, mem_prev, mem_isFree, mem_freeList, mem_usedList, mem_usedBlocks, mem_freeBlocks,
    mem_maxUsed, mem_allocCount, mem_freeCount, mem_data, mem_held, mem_pc, mem_old, mem_new,
    log_async, log_entries, log_head, log_tail, log_count, log_ringLock, log_mutex, log_running,
    log_thread, log_draining, log_current, log_writer, log_closer, log_files, log_open,
    log_index, log_size, log_total, log_accepted, log_written, log_rotates

ProxyTunnel == INSTANCE ProxyTunnel WITH
    kind <- px_kind, pc <- px_pc, ready <- px_ready, buffer <- px_buffer, client <- px_client,
    upstream <- px_upstream, fromClient <- px_fromClient, fromUp <- px_fromUp,
    toClient <- px_toClient, toUp <- px_toUp, sentByClient <- px_sentByClient,
    sentByUp <- px_sentByUp, clientFd <- px_clientFd, upFd <- px_upFd, why <- px_why,
    active <- px_active
ShmPingPong == INSTANCE ShmPingPong WITH
    variant <- shm_variant, data <- shm_data, ready <- shm_ready, done <- shm_done,
    parent <- shm_parent, child <- shm_child, sentRounds <- shm_sentRounds,
    answered <- shm_answered, erased <- shm_erased
WebRequest == INSTANCE WebRequest WITH
    request <- web_request, path <- web_path, index <- web_index, use <- web_use, pc <- web_pc,
    client <- web_client, answers <- web_answers, announced <- web_announced, body <- web_body,
    opened <- web_opened, clientOpen <- web_clientOpen, edits <- web_edits,
    touched <- web_touched
SerialTerminal == INSTANCE SerialTerminal WITH
    running <- ser_running, escape <- ser_escape, lineMode <- ser_lineMode, line <- ser_line,
    port <- ser_port, tty <- ser_tty, where <- ser_where, sent <- ser_sent, keys <- ser_keys,
    fileSent <- ser_fileSent, mixed <- ser_mixed
MemPool == INSTANCE MemPool WITH
    next <- mem_next, prev <- mem_prev, isFree <- mem_isFree, freeList <- mem_freeList,
    usedList <- mem_usedList, usedBlocks <- mem_usedBlocks, freeBlocks <- mem_freeBlocks,
    maxUsed <- mem_maxUsed, allocCount <- mem_allocCount, freeCount <- mem_freeCount,
    data <- mem_data, held <- mem_held, pc <- mem_pc, old <- mem_old, new <- mem_new
AsyncLog == INSTANCE AsyncLog WITH
    async <- log_async, entries <- log_entries, head <- log_head, tail <- log_tail,
    count <- log_count, ringLock <- log_ringLock, mutex <- log_mutex, running <- log_running,
    thread <- log_thread, draining <- log_draining, current <- log_current,
    writer <- log_writer, closer <- log_closer, files <- log_files, open <- log_open,
    index <- log_index, size <- log_size, total <- log_total,
    accepted <- log_accepted, written <- log_written, rotates <- log_rotates

px == <<px_kind, px_pc, px_ready, px_buffer, px_client, px_upstream, px_fromClient, px_fromUp,
        px_toClient, px_toUp, px_sentByClient, px_sentByUp, px_clientFd, px_upFd, px_why, px_active>>
shm == <<shm_variant, shm_data, shm_ready, shm_done, shm_parent, shm_child, shm_sentRounds,
         shm_answered, shm_erased>>
web == <<web_request, web_path, web_index, web_use, web_pc, web_client, web_answers,
         web_announced, web_body, web_opened, web_clientOpen, web_edits, web_touched>>
ser == <<ser_running, ser_escape, ser_lineMode, ser_line, ser_port, ser_tty, ser_where,
         ser_sent, ser_keys, ser_fileSent, ser_mixed>>
mem == <<mem_next, mem_prev, mem_isFree, mem_freeList, mem_usedList, mem_usedBlocks,
         mem_freeBlocks, mem_maxUsed, mem_allocCount, mem_freeCount, mem_data, mem_held, mem_pc, mem_old,
         mem_new>>
log == <<log_async, log_entries, log_head, log_tail, log_count, log_ringLock, log_mutex,
         log_running, log_thread, log_draining, log_current, log_writer, log_closer, log_files, log_open,
         log_index, log_size, log_total, log_accepted, log_written, log_rotates>>
vars == <<which, px, shm, web, ser, mem, log>>

Runs(component) == which = component

\* Those that do not run stay in an initial state, always the same one.
Init ==
    /\ which \in {"ProxyTunnel", "ShmPingPong", "WebRequest", "SerialTerminal", "MemPool",
                  "AsyncLog"}
    /\ ProxyTunnel!Init
    /\ ShmPingPong!Init
    /\ WebRequest!Init
    /\ SerialTerminal!Init
    /\ MemPool!Init
    /\ AsyncLog!Init
    /\ Runs("ProxyTunnel") \/ (px_kind = "blank" /\ px_fromClient = <<>>)
    /\ Runs("ShmPingPong") \/ shm_variant = "flags"
    /\ Runs("WebRequest") \/ (web_request = "none" /\ web_path = 0 /\ web_index = 0)
    /\ Runs("AsyncLog") \/ log_async

Next ==
    \/ Runs("ProxyTunnel") /\ ProxyTunnel!Next /\ UNCHANGED <<which, shm, web, ser, mem, log>>
    \/ Runs("ShmPingPong") /\ ShmPingPong!Next /\ UNCHANGED <<which, px, web, ser, mem, log>>
    \/ Runs("WebRequest") /\ WebRequest!Next /\ UNCHANGED <<which, px, shm, ser, mem, log>>
    \/ Runs("SerialTerminal") /\ SerialTerminal!Next /\ UNCHANGED <<which, px, shm, web, mem, log>>
    \/ Runs("MemPool") /\ MemPool!Next /\ UNCHANGED <<which, px, shm, web, ser, log>>
    \/ Runs("AsyncLog") /\ AsyncLog!Next /\ UNCHANGED <<which, px, shm, web, ser, mem>>

\* Each has the fairness its module states.
FairSpec ==
    /\ Init /\ [][Next]_vars
    /\ WF_px(Runs("ProxyTunnel") /\ ProxyTunnel!Worker)
    /\ WF_shm(Runs("ShmPingPong") /\ ShmPingPong!ParentStep)
    /\ WF_shm(Runs("ShmPingPong") /\ ShmPingPong!ChildStep)
    /\ WF_log(Runs("AsyncLog") /\ (AsyncLog!ThreadLoop \/ AsyncLog!ThreadSleep \/ AsyncLog!ThreadOutput))
    /\ SF_log(Runs("AsyncLog") /\ AsyncLog!ThreadPop)
    /\ WF_log(Runs("AsyncLog") /\ AsyncLog!Alive /\ AsyncLog!CloseStep)
    /\ \A w \in Writers : SF_log(Runs("AsyncLog") /\ AsyncLog!Alive /\ log_writer[w] = "woken" /\ AsyncLog!Push(w))

-----------------------------------------------------------------------------
\* A reply that the upstream ends by closing reaches the client completely.
ReplyComplete == ProxyTunnel!ReplyComplete

\* A benchmark that has begun ends, unless the child erases the parent's signal
\* for the next round.
BenchReturns == ShmPingPong!BenchReturns

\* The body is as long as Content-Length says, unless the file changes after
\* fstat or the buffer is too small.
BodyAsAnnounced == WebRequest!BodyAsAnnounced

\* Keys go out in the order typed and each at most once, unless line mode is
\* switched within a line.
KeysInOrder == SerialTerminal!KeysInOrder

\* The free and the used list of the pool are well-formed, disjoint and
\* complete, and counted by the statistics.
ListsPartition == MemPool!ListsPartition

\* Every entry taken by log_write gets to output_file once and in order.
NothingLostOrReordered == AsyncLog!NothingLostOrReordered

\* log_close waits for ever only for a thread for which its signal came too
\* early.
CloseReturnsIfHeard == AsyncLog!CloseReturnsIfHeard
=============================================================================
