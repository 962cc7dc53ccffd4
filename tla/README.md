# Verification of linux-c-learning

TLA+ models of the concurrent and persistent parts of this repository, the TLC
configurations that check them on small instances, and TLAPS proofs of what
matters most for every instance. `PROJECT.json` records, for each definition,
the source lines it models, and lists runs, mutants, findings, hazards and
theorems.

## The system

The repository holds ten independent C programs and libraries.

| Part | State | Operations and interactions | What is hard |
|---|---|---|---|
| linux-file-server: thread pool | task list, count, shutdown flag, one mutex, two condition variables | create, add_task, worker loop, destroy | wakeups, rollback of create, destroy against callers |
| linux-file-server: connections | client slots, descriptor numbers, `running`, pool tasks | accept loop, add/remove_client, handler, server_stop | descriptor reuse, stop against handlers blocked on peers |
| linux-file-server: signals | `running`, `reload_flag`, log mutex | SIGINT/SIGTERM, SIGHUP, main loop | handlers that interrupt critical sections |
| linux-file-server: transfer protocol, client | byte stream, file offsets, 32-bit lengths | list, upload, download, resume | refused transfers, truncated lengths, lost connections |
| linux-file-server: other | token bucket, shared counters, block pool, log files, module table, inotify thread, admin HTTP thread, SQLite tables | consume, fork and wait, rotate, load and unload, start and stop | blocking calls, kills within a rotation, partial failure |
| kv-database | hash table, data file, log file, statistics | open, set, delete, clear, close | crashes, order of log and table |
| web-server, network-proxy | ring of connections, mutex, condition variable, `running` | accept loop, workers, stop | stop without the mutex, stop from a signal handler |
| log-system | ring buffer, writer thread, log file index | write, close, rotate | lost wakeup in close, re-entered mutex |
| memory-pool | used and free lists, optional mutex | alloc, free, realloc, reset, check | check before lock |
| mini-shell | job table, process groups, terminal owner | run, SIGCHLD, fg, bg, jobs | child status in any order |
| ipc-bench, serial-tool, sys-monitor | two flags in shared memory; terminal modes; samples | benchmark loops; terminal loop; screen loop | flags set and cleared by both sides |

Correctness here means: no accepted task, connection, key or log line is lost,
duplicated or reordered; nobody waits for a wakeup that was already given;
stop functions return; what is freed or closed is no longer, or not yet again,
in use; what is saved can be loaded.

## Modules

| Module | Models | Role |
|---|---|---|
| `TaskExecutor` | - | abstract: a bounded FIFO executor on a fixed set of threads |
| `ThreadPool` | `linux-file-server/src/thread_pool.c` | detailed; implements `TaskExecutor` |
| `FileServer` | `linux-file-server/src/server.c` | composed with the pool through `TaskExecutor` |
| `Transfer` | `client.c` and the request handlers of `server.c` | several clients and handlers over byte streams |
| `ServerSignals` | signal handlers and main loop of the file server | detailed |
| `WorkerProcs` | `process_pool.c`, `shm_ipc.c` | detailed |
| `RateLimit` | `rate_limit.c` | detailed, in discrete time |
| `LogRotate` | `linux-file-server/src/log.c` | detailed, with kills |
| `ModuleTable` | `module.c` | detailed |
| `HelperThreads` | `file_watch.c`, `http_server.c` | the common shape of both threads |
| `BlockPool` | - | abstract: who holds which block |
| `LfsPool` | `linux-file-server/src/mempool.c` | detailed; implements `BlockPool` |
| `MemPool` | `memory-pool/src/mempool.c` | detailed |
| `KvMap` | - | abstract: a map that is saved on close and found on open |
| `KvDb` | `kv-database/src/kvdb.c` | detailed; implements `KvMap` while nothing fails |
| `ConnQueue` | `web-server/src/http.c`, `network-proxy/src/proxy.c` | the queue and workers both programs share |
| `WebRequest` | `handle_client` of `web-server/src/http.c` | one request |
| `ProxyTunnel` | `handle_client` and `proxy_tunnel` of `proxy.c` | one connection |
| `AsyncLog` | `log-system/src/log.c` | detailed |
| `JobControl` | `job.c`, `executor.c`, `builtin.c` of mini-shell | the shell against its processes |
| `ShmPingPong` | `ipc-bench/src/bench_shm.c` | both variants |
| `SerialTerminal` | `serial-tool/src/terminal.c` | detailed |
| `ThreadPoolProofs`, `WorkerProcsProofs`, `ModuleTableProofs` | - | TLAPS proofs |
| `MCThreadPool`, `MCFileServer`, `MCKvDb`, `MCTransfer` | - | instances for TLC |
| `MCServices`, `MCPrograms` | - | instances of several components each |

`MCServices` and `MCPrograms` hold components that share no state. `which`
chooses, initially and for good, the one that runs; the others stay as they were
initialised. A property of the sum is the property of the component's module, so
each is checked over all behaviours of its component and over no product of them.

### ThreadPool

Code between locking and unlocking the mutex is one step if everything it can
race with takes the mutex as well. The rollback in `thread_pool_create` does
not, so a worker's test of its wait condition and its going to sleep are two
steps (`FindNothing`, `Sleep`) with `lock` held in between. `wpc` and `ppc` say
where workers and callers are; "asleep" is inside `pthread_cond_wait`, "woken"
is on the way out of it. A signal wakes any one sleeper, a broadcast all, and a
sleeper may wake for no reason. The linked list is the sequence `queue` with
`task_tail` and `task_count` kept apart from it, so that `ListShape` can fail.
`accepted`, `started` and `finished` are history. Calling `add_task` after
`destroy` has begun is a client's error and not modelled; being inside
`add_task` at that time is.

### FileServer

`main` is the main thread, `hpc` the handler of each connection. Descriptors are
numbers, allocated lowest first and reused after `close`, because the code finds
slots and closes descriptors by number from two places. The pool appears as
`TaskExecutor` (`Submit`, `HandlerStart`, `HandlerClose`, `StopPool` and
`StopDone` contain its steps); `ThreadPoolProofs` shows that the real pool
implements it. A handler blocked in `recv` is woken by its peer only. Requests
are abstracted to whether serving one opens a file; the listening socket, the
epoll instance and the log file, which are opened once, are left out of the
descriptor table.

### ServerSignals

A signal handler runs on the main thread, which stands still meanwhile. The main
thread's log calls hold the log mutex between two steps, since the handler's log
call needs the same mutex. Configuration files are version numbers: what was on
disk at the last SIGHUP (`wanted`), at the last attempt to read (`tried`), and
what is in force (`level`).

### KvDb

A critical section is one step; appending to the log and the two halves of
`write_ops++` happen outside it. The data file is a sequence of records that
`kvdb_close` empties and writes again, one record per step, since the stdio
buffer may be flushed anywhere; a record torn by a crash ends the load like the
end of the file. Keys and values are within the size limits.

### ConnQueue

The ring is an array with head, tail and size. `stop` clears `running` and
broadcasts without the mutex, so testing and falling asleep are two steps here
too, and so are taking the mutex and using it in the accept loop, which the web
server's signal handler may interrupt (`InHandler`). Both programs install or
inherit handlers by `signal`, which with the build's flags restarts `accept`.
The model starts with all workers created.

### Transfer

One connection per session, each direction a sequence of request headers, response
headers and units of data. A reader takes what comes next, as `recv` does, so a
side that has lost step reads data as a header or a header as data (`Junk`).
Sizes are in units; `LenMod` stands for 2^32, where `data_len` wraps. Files are
inodes behind one name, so a handler that still writes to an unlinked file does
so. Faults are failing local opens and writes, connections cut by either side and
a server crash. `spoiled` records that one of the known causes below has put a
connection out of step; the properties claim something of the others.

### WorkerProcs, RateLimit, LogRotate, ModuleTable, HelperThreads, LfsPool

An increment of a shared counter is a read and a write, so that the lock matters.
Workers return whenever they like; SIGTERM takes effect between any two of their
steps. The bucket counts in units and time in fractions of a second; a caller that
has to wait sleeps with the lock released and tries again. The renames of a log
rotation are steps of their own, with a kill possible between them. Libraries are
counted by `dlopen`. The watcher and the admin thread differ in what wakes them:
closing a socket wakes nobody who already waits in `accept`. The links of the
block pool lie in the blocks' first word, which the owner of a block overwrites.

### MemPool

Two linked lists over the same links, with the statistics. `is_free` is tested
before the lock is taken, and realloc is three critical sections with the copying
in between; `data` is what the owner wrote. Callers free what they hold.

### AsyncLog

The ring under its own lock, the writer thread with testing and sleeping as two
steps (log_close signals without the lock), and the file mutex. Files are numbered
modulo the count, so that in the end an old file is appended to.

### JobControl

Processes exit, stop and continue by themselves or because of a signal; a change
stays to be reported until some `waitpid` takes it. The shell is at its prompt, in
`job_update`, in the waiting loop of a pipeline or in that of `fg`.

### ProxyTunnel, WebRequest, ShmPingPong, SerialTerminal

The proxy's streams are sequences of numbered units, either peer may stop sending,
leave or stay silent. The files of the web server may change between any two
system calls. The flags of the benchmark are set and tested in program order,
which its barriers enforce. Keys are numbered, to see them in order on the port;
raw and cooked are the two modes of the user's terminal.

## Runs

| Run | Instance | Shows |
|---|---|---|
| `pool_safety` | 3 workers, 3 callers, 5 tasks, 2 places, all failures | tasks are taken exactly once and in order, no worker sleeps through work |
| `pool_live` | 2 workers, 2 callers, 4 tasks, 1 place | tasks run, `destroy` returns, no caller sleeps beside a free place, refinement of `TaskExecutor` |
| `server_safety` | 3 connections, 2 slots, 2 threads, 4 descriptors | slots, handlers and count agree; submitting never blocks; a descriptor is closed by its owner only until `server_stop` |
| `server_live` | 2 connections, 1 thread | connections are served and stop returns if peers leave |
| `transfer` | 2 sessions of an uploader, 1 of a downloader, files of 0, 2 and 3 units, lengths modulo 3, all faults | the two sides stay in step, copies are prefixes of the original, an acknowledged upload is complete, the sides never wait for each other, each but for the causes in `spoiled` |
| `kv_sequential` | 1 caller, 3 keys in 2 buckets, 3 writes, 3 opens | refinement of `KvMap`, the log replays to the table |
| `kv_concurrent` | 2 callers, clears, crashes, failing close | the table is a map and its size is right; no replaced or deleted value comes back from the file |
| `queue` | 2 workers, 3 connections, 2 places, stop from another thread | FIFO across wrap-around, queued connections are handled, awake workers leave after stop |
| `jobs` | 4 processes in pipelines of 1 or 2, 2 jobs, 2 stops | live processes are tracked, dead jobs leave the table, the prompt returns |
| `services` | 2 edits and stop signals; 3 blocks, 2 threads; 2 worker processes; 2 consumers; 7 log lines in up to 3 files; 3 names, 2 libraries; 4 events, 3 visits | every reload happens, statistics are exact, no child is left, the rate is kept, rotation keeps the newest lines in order, table and libraries agree, stops return, `LfsPool` implements `BlockPool` |
| `programs` | 2 and 3 units through the proxy; 5 round trips; files of 0, 1 and 3 units; 7 keys, lines of 3; 3 blocks, 3 callers, 6 allocations; 3 writers, 2 places, 6 entries, 2 files | replies arrive complete, the benchmark ends, bodies are as long as announced, keys go out in order, the block lists are consistent, log entries are neither lost nor reordered, `log_close` returns if heard |
| `queue_stop_lost` | 2 workers, 1 connection, 1 place, stop from another thread | violation: stop broadcasts between a worker's test and its sleep and never returns |

`queue_stop_lost` contradicts the comment in `http.c` that all threads are woken,
and is a finding in `PROJECT.json`.

Why the bounds are enough: queues, rings and tables have one to three places and
are offered more than that, so full, empty and wrap-around all happen; there are
at least two of every kind of thread that competes for something, except where
one thread makes the others queue up behind it; two keys share a bucket and one
does not; the descriptor table has room for the connections that can be open at
once and one file, so numbers are reused; a file is as long as the modulus of
lengths and one is shorter. `CHECK_DEADLOCK FALSE` is set where the program may
end or a bounded number of calls is used up.

`queue` lets the accept loop run while stop is in progress, which includes every
behaviour of a stop called from the signal handler, so its safety properties
hold there too.

## Departures

What the models show the code to do against the intention of its authors. It is
kept in the modules and limits what the properties claim (each comment names the
exception), but has no run of its own.

File server:

- `thread_pool_create`: the rollback sets the flag and broadcasts without the
  lock; a worker can miss it and is then never joined (`CreateFails`).
- `thread_pool_add_task`: a caller consumes the only `not_full` signal and fails
  in `malloc`; another caller sleeps on beside a free place (`MallocFails`).
- `thread_pool_destroy` frees the lock a woken caller may still have to take
  (`Quiesce = FALSE`).
- `server_stop` closes descriptors by number while handlers run: a handler then
  closes a number that may already be another handler's file. A peer that stays
  connected and silent keeps it from returning.
- `server_start`: a stop signal handled before `running = 1` is undone.
- `signal_handler` logs; if its thread is inside a log call it waits for a mutex
  it holds itself.
- Transfers: lengths are cut to 32 bits while the whole file is sent; the data of
  a refused upload is read as the next header; a download that cannot be stored
  stays in the stream; downloading a directory announces a size and sends
  nothing; a failed write on the server is not answered; a fresh upload that
  fails is unlinked, so resuming it helps only after a server crash. With
  `Overlap = TRUE` the handler of a cut-off upload may still truncate or unlink
  by name what the client's next session has stored.
- `rate_limiter_consume` never returns for more bytes than the bucket holds, and
  a rate of zero or less is not refused.
- A worker process killed while it holds the lock of the statistics blocks every
  later use: the lock is not robust.
- `http_server_stop`: closing the listening socket does not wake a thread that
  waits in `accept`; stop returns when somebody connects.

Other programs:

- kv-database: a crash during `kvdb_close` loses what an earlier close had saved,
  as the only copy is rewritten in place; the log is never replayed. `kvdb_set`
  logs and counts outside the lock: two concurrent sets can be logged in the wrong
  order or counted once; `kvdb_clear` is not logged. Hence `LogReplays`
  is checked for one caller without clears.
- web-server and network-proxy: `http_server_stop` in the signal handler joins
  workers that may need the mutex the interrupted loop holds (`InHandler = TRUE`);
  the interrupted `accept` is restarted after stop has returned; when `accept`
  fails the loop is left with the workers running, and `main` frees the server
  under them.
- web-server: a directory without index is answered twice, 403 and 404; a route's
  body larger than the buffer is cut but announced in full; so is a file that
  shrinks after `fstat`.
- network-proxy: a blank request leaves its descriptor open; a client that stops
  sending ends the tunnel before its reply is complete.
- log-system: `log_close` signals without the lock and may not be heard; a
  synchronous write that reaches the size limit locks its own mutex twice; a
  rotation whose `fopen` fails leaves a NULL file that is written to; after the
  index wraps, old files are appended to and exceed the limit.
- memory-pool: two concurrent frees of one block both pass the test of `is_free`
  (callers here free what they hold).
- mini-shell: a continued process counts as ended, so `fg` of a stopped job
  returns at once and forgets the job; each stopped process of a pipeline enters
  it into the table again, and `fg` of such an entry may wait for ever; job
  numbers are reused although a comment calls them increasing.
- ipc-bench: the child clears `ready` after setting `done`; it can erase the
  parent's next signal, after which both spin for ever.
- serial-tool: after sending a file the terminal stays cooked; "literal Ctrl+A"
  sends the letter a; switching line mode within a line reorders keys.

## Fairness

Threads that can run do (weak fairness), and a thread that keeps finding a mutex
free eventually gets it (strong fairness on the steps that take it, what POSIX
threads on Linux give in practice). Task functions and `handle_client` return.
No failure, spurious wakeup, call, connection, signal or stop is ever required to
happen. In `FileServer` peers owe nothing: `FairSpec` has no fairness for them
and `FairPeersSpec` adds that each peer eventually ends its transfer and leaves.
`RateLimit` has time pass, `JobControl` has running processes end, and
`ShmPingPong` has both processes scheduled. The proxy's select times out by its
own step, which makes silent peers harmless.

## Proofs

`ThreadPoolProofs` proves, for every finite set of workers, every set of callers
and tasks and every capacity (assumption `PoolAssumption`):

- `PoolInvariant`: `Spec => []IInv`. `ExactlyOnceInOrder` is not inductive by
  itself: that a take returns the head of what was accepted needs the list's
  shape (`ListShape`), that no task is in two places needs that calls in progress
  submit new tasks (`Fresh`), and that nothing is dropped by `destroy` needs that
  workers leave only with the queue drained (`ExitDrained`) and who holds the lock
  between two steps (`LockHeld`).
- `PoolRunsExactlyOnce`: the safety property itself.
- `PoolLosesNoWakeup`: `WakeupsCoverQueue`, by counting awake idle workers over
  every action; it rests on cardinality lemmas for changing one worker's state.
- `PoolImplementsExecutor`: every step of the pool is a step of `TaskExecutor` or
  leaves it unchanged, from `IInv`.

`WorkerProcsProofs` proves, for every number of processes and clients:

- `StatsAreExact`: `Spec => []StatsExact`. The totals alone are not inductive: that
  a write adds one to the current value needs that the value read is still current
  (`SeenIsCurrent`), which needs that one process at a time is between locking and
  unlocking (`LockExclusive`), and that the calls of a process come in their order
  (`CallsFit`).
- `ChildrenAreGone`: `Spec => []NoChildLeft`, from an invariant (`ChildrenInv`) on
  how far the loops of forking, killing and waiting have come.

`ModuleTableProofs` proves, for every capacity, `TableIsRight`: `Spec =>
[]TableMatchesLibraries`. The invariant says where loaded entries are (`Front`),
that names differ (`Distinct`), and states the two counts (`UsersMatch`,
`LivesMatch`); a lemma gives the effect of one slot on a cardinality.

Model-checked only: all liveness properties (the provers handle neither fairness
nor ENABLED), the refinements of `KvMap` and `BlockPool`, and everything about the
other modules. `StatsExact`, `NoChildLeft` and `TableMatchesLibraries` are also
checked by `services`, through instances of their modules.

## Not modelled

- SQL statements and password hashing (`metadata.c`, `auth.c`), and the wrappers
  around OpenSSL, zlib and hash functions: no state of their own between calls.
- Parsing and formatting: HTTP requests and URLs, shell command lines, hex dumps.
  Their outcomes are inputs of the models.
- The benchmarks over pipes, sockets and message queues, which alternate blocking
  reads and writes; serial scripts and device configuration; sys-monitor, which
  reads `/proc` and draws.
- In modelled components: `shm_open_existing`, `shm_close` and `shm_cleanup`, log
  levels and targets, rotation by time, the unlocked `fail_count` of memory-pool,
  failing `fork` and `pipe` and `fg %0` in mini-shell, byte counters of the proxy.

About 66,000 of the 80,000 lines under `src/` are vendored headers (SQLite,
OpenSSL, ncurses) without code of this repository. The mapped lines are about
3,900, more than a quarter of the rest.
