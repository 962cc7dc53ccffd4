-------------------------------- MODULE KvDb --------------------------------
(***************************************************************************)
(* The key-value database (kv-database/src/kvdb.c): a hash table of chains *)
(* under a read-write lock, a data file loaded by kvdb_open and rewritten  *)
(* by kvdb_close, and a log file to which kvdb_set and kvdb_delete append  *)
(* after they have released the lock.                                      *)
(*                                                                         *)
(* A critical section is one step.  The append, the read of write_ops and  *)
(* its write-back happen outside the lock and are steps of their own.  The *)
(* stdio buffer may reach the file at any point of kvdb_close, so the file *)
(* grows by one record at a time; a torn last record ends the load like    *)
(* the end of the file does.  Every key and value is within the size       *)
(* limits.  kvdb_get, kvdb_exists, kvdb_count and kvdb_stats change no     *)
(* state but their own statistics and are left out.                        *)
(***************************************************************************)
EXTENDS Naturals, Sequences, FiniteSetsExt

CONSTANTS
    Threads,    \* threads that use one open handle
    Keys, Values,
    Capacity,   \* hashmap->capacity (KVDB_DEFAULT_CAPACITY)
    Hash,       \* per key: hash_string(key) % capacity
    None,       \* no value, no file
    MaxOps,     \* bound: writing calls per run
    MaxOpens,   \* bound: calls of kvdb_open per run
    Clears,     \* BOOLEAN: kvdb_clear is used
    Faults      \* BOOLEAN: the process may crash, fopen in close may fail

Buckets == 0 .. Capacity - 1
Nodes == [key : Keys, val : Values]

\* Keys are strings of bounded length; no value and no file is None.
ASSUME KvAssumption ==
    /\ IsFiniteSet(Keys)
    /\ Capacity \in Nat \ {0} /\ Hash \in [Keys -> Buckets]
    /\ None \notin Values /\ None \notin Seq(Nodes)
    /\ MaxOps \in Nat /\ MaxOpens \in Nat
    /\ Clears \in BOOLEAN /\ Faults \in BOOLEAN

VARIABLES
    phase,      \* "closed", "open" or "closing"
    mode,       \* config.mode of the open handle
    buckets,    \* per bucket: its chain, head first
    size,       \* hashmap->size
    data,       \* the data file: its records, or None
    wal,        \* the log file: what was appended since open (the rest is never read)
    todo,       \* kvdb_close: the records still to be written
    pc,         \* per thread: "idle", "log", "read" or "write"
    entry,      \* per thread: the log entry it is about to append
    tmp,        \* per thread: write_ops as it read it
    write_ops,
    ops, opens, \* the bounds' counters
    base,       \* history: contents at open
    before      \* history: what the file held when close began

db   == <<phase, mode, buckets, size, data, todo, before>>
log  == <<wal, base>>
stat == <<pc, entry, tmp, write_ops>>
vars == <<db, log, stat, ops, opens>>

Record(k, v) == [key |-> k, val |-> v]
NoEntry == [op |-> "none", key |-> None, val |-> None]
Empty == [b \in Buckets |-> <<>>]

(***************************************************************************)
(* The hash table.                                                         *)
(***************************************************************************)
Places(bs, k) == {i \in DOMAIN bs[Hash[k]] : bs[Hash[k]][i].key = k}

\* The first node of the chain with this key.
hashmap_find(bs, k) ==
    IF Places(bs, k) = {} THEN None ELSE bs[Hash[k]][Min(Places(bs, k))].val

\* Mutant: hashmap_insert without looking for an existing node.
InsertAlways(bs, k, v) == [bs EXCEPT ![Hash[k]] = <<Record(k, v)>> \o @]

\* Overwrite in place, or a new node at the head.
hashmap_insert(bs, k, v) ==
    IF Places(bs, k) = {}
    THEN [bs EXCEPT ![Hash[k]] = <<Record(k, v)>> \o @]
    ELSE [bs EXCEPT ![Hash[k]][Min(Places(bs, k))].val = v]

\* Unlink the first node with this key.
Unlinked(c, p) == SubSeq(c, 1, p - 1) \o SubSeq(c, p + 1, Len(c))
hashmap_remove(bs, k) == [bs EXCEPT ![Hash[k]] = Unlinked(@, Min(Places(bs, k)))]

Contents(bs) == [k \in Keys |-> hashmap_find(bs, k)]

\* The load loop of kvdb_open: insert record after record.
Load(file) ==
    IF file = None THEN Empty
    ELSE LET load[n \in 0 .. Len(file)] ==
                 IF n = 0 THEN Empty ELSE hashmap_insert(load[n - 1], file[n].key, file[n].val)
         IN  load[Len(file)]

\* hashmap->size after the inserts of a load.
NodeCount(bs) == Cardinality(UNION {{b} \X DOMAIN bs[b] : b \in Buckets})

\* The nodes in the order kvdb_close writes them: bucket by bucket.
Records(bs) ==
    LET upto[n \in 0 .. Capacity] == IF n = 0 THEN <<>> ELSE upto[n - 1] \o bs[n - 1]
    IN  upto[Capacity]

Init ==
    /\ phase = "closed" /\ mode = "rw"
    /\ buckets = Empty /\ size = 0
    /\ data = None /\ wal = <<>> /\ todo = <<>>
    /\ pc = [t \in Threads |-> "idle"]
    /\ entry = [t \in Threads |-> NoEntry]
    /\ tmp = [t \in Threads |-> 0]
    /\ write_ops = 0
    /\ ops = 0 /\ opens = 0
    /\ base = Contents(Empty) /\ before = None

(***************************************************************************)
(* kvdb_open, kvdb_close and their faults.                                 *)
(***************************************************************************)
\* A missing file is created in every mode; the log is opened for
\* appending and is not read.
Open(m) ==
    /\ phase = "closed" /\ opens < MaxOpens
    /\ opens' = opens + 1
    /\ phase' = "open" /\ mode' = m
    /\ data' = IF m = "create" \/ data = None THEN <<>> ELSE data
    /\ buckets' = Load(data')
    /\ size' = NodeCount(buckets')
    /\ base' = Contents(buckets') /\ wal' = <<>>
    /\ write_ops' = 0
    /\ UNCHANGED <<todo, before, pc, entry, tmp, ops>>

Quiet == \A t \in Threads : pc[t] = "idle"

Released ==
    /\ phase' = "closed"
    /\ buckets' = Empty /\ size' = 0

CloseReadonly ==
    /\ phase = "open" /\ Quiet /\ mode = "ro"
    /\ Released
    /\ UNCHANGED <<mode, data, todo, before, log, stat, ops, opens>>

\* Mutant: the records are added to those of the file.
CloseAppends ==
    /\ phase = "open" /\ Quiet /\ mode # "ro"
    /\ phase' = "closing"
    /\ before' = data
    /\ todo' = Records(buckets)
    /\ UNCHANGED <<mode, buckets, size, data, log, stat, ops, opens>>

\* fopen(db_path, "wb") empties the file before anything is written.
CloseTruncate ==
    /\ phase = "open" /\ Quiet /\ mode # "ro"
    /\ phase' = "closing"
    /\ before' = data
    /\ data' = <<>>
    /\ todo' = Records(buckets)
    /\ UNCHANGED <<mode, buckets, size, log, stat, ops, opens>>

\* ... or fails, and kvdb_close returns without saving.
CloseFails ==
    /\ Faults
    /\ phase = "open" /\ Quiet /\ mode # "ro"
    /\ Released
    /\ UNCHANGED <<mode, data, todo, before, log, stat, ops, opens>>

CloseWrite ==
    /\ phase = "closing" /\ todo # <<>>
    /\ data' = Append(data, Head(todo))
    /\ todo' = Tail(todo)
    /\ UNCHANGED <<phase, mode, buckets, size, before, log, stat, ops, opens>>

\* Mutant: the loop stops one record short.
CloseEarly ==
    /\ phase = "closing" /\ Len(todo) <= 1
    /\ todo' = <<>>
    /\ Released
    /\ UNCHANGED <<mode, data, before, log, stat, ops, opens>>

CloseDone ==
    /\ phase = "closing" /\ todo = <<>>
    /\ Released
    /\ UNCHANGED <<mode, data, todo, before, log, stat, ops, opens>>

\* The process dies: files keep what reached them.
Crash ==
    /\ Faults /\ phase # "closed"
    /\ Released
    /\ todo' = <<>>
    /\ pc' = [t \in Threads |-> "idle"]
    /\ entry' = [t \in Threads |-> NoEntry]
    /\ tmp' = [t \in Threads |-> 0]
    /\ UNCHANGED <<mode, data, before, log, write_ops, ops, opens>>

(***************************************************************************)
(* kvdb_set, kvdb_delete, kvdb_clear.                                      *)
(***************************************************************************)
\* A writing call may start: the handle is open for writing.
Writable(t) == phase = "open" /\ mode # "ro" /\ pc[t] = "idle" /\ ops < MaxOps

ThenLog(t, e) ==
    /\ pc' = [pc EXCEPT ![t] = "log"]
    /\ entry' = [entry EXCEPT ![t] = e]
    /\ ops' = ops + 1
    /\ UNCHANGED <<phase, mode, data, todo, before, log, tmp, write_ops, opens>>

Set(t, k, v) ==
    /\ Writable(t)
    /\ buckets' = hashmap_insert(buckets, k, v)
    /\ size' = IF Places(buckets, k) = {} THEN size + 1 ELSE size
    /\ ThenLog(t, [op |-> "set", key |-> k, val |-> v])

Delete(t, k) ==
    /\ Writable(t)
    /\ Places(buckets, k) # {}
    /\ buckets' = hashmap_remove(buckets, k)
    /\ size' = size - 1
    /\ ThenLog(t, [op |-> "delete", key |-> k, val |-> None])

\* Empties the table; nothing is logged and write_ops is left alone.
Clear(t) ==
    /\ Clears /\ Writable(t)
    /\ buckets' = Empty /\ size' = 0
    /\ ops' = ops + 1
    /\ UNCHANGED <<phase, mode, data, todo, before, log, stat, opens>>

\* Mutant: deletes are not logged.
LogSetsOnly(t) ==
    /\ pc[t] = "log" /\ phase = "open"
    /\ wal' = IF entry[t].op = "set" THEN Append(wal, entry[t]) ELSE wal
    /\ entry' = [entry EXCEPT ![t] = NoEntry]
    /\ pc' = [pc EXCEPT ![t] = "read"]
    /\ UNCHANGED <<db, base, tmp, write_ops, ops, opens>>

\* fwrite and fflush of the log entry.
LogAppend(t) ==
    /\ pc[t] = "log" /\ phase = "open"
    /\ wal' = Append(wal, entry[t])
    /\ entry' = [entry EXCEPT ![t] = NoEntry]
    /\ pc' = [pc EXCEPT ![t] = "read"]
    /\ UNCHANGED <<db, base, tmp, write_ops, ops, opens>>

\* db->write_ops++ without a lock: a read,
CountRead(t) ==
    /\ pc[t] = "read" /\ phase = "open"
    /\ tmp' = [tmp EXCEPT ![t] = write_ops]
    /\ pc' = [pc EXCEPT ![t] = "write"]
    /\ UNCHANGED <<db, log, entry, write_ops, ops, opens>>

\* and a write.
CountWrite(t) ==
    /\ pc[t] = "write" /\ phase = "open"
    /\ write_ops' = tmp[t] + 1
    /\ tmp' = [tmp EXCEPT ![t] = 0]
    /\ pc' = [pc EXCEPT ![t] = "idle"]
    /\ UNCHANGED <<db, log, entry, ops, opens>>

Next ==
    \/ \E m \in {"rw", "ro", "create"} : Open(m)
    \/ CloseReadonly \/ CloseTruncate \/ CloseFails \/ CloseWrite \/ CloseDone
    \/ Crash
    \/ \E t \in Threads :
          \/ \E k \in Keys : Delete(t, k) \/ \E v \in Values : Set(t, k, v)
          \/ Clear(t) \/ LogAppend(t) \/ CountRead(t) \/ CountWrite(t)

Spec == Init /\ [][Next]_vars

(***************************************************************************)
(* Properties.                                                             *)
(***************************************************************************)
\* The hash table stays a map: a key has at most one node, in the chain its
\* hash selects, and size, which kvdb_count returns, is the number of nodes,
\* through sets, deletes, clears and reloads.
TableIsMap ==
    /\ \A k \in Keys : Cardinality(Places(buckets, k)) <= 1
    /\ \A b \in Buckets : \A i \in DOMAIN buckets[b] : Hash[buckets[b][i].key] = b
    /\ size = Cardinality({k \in Keys : hashmap_find(buckets, k) # None})

Apply(m, e) == [m EXCEPT ![e.key] = IF e.op = "set" THEN e.val ELSE None]
Replay(m, es) ==
    LET after[n \in 0 .. Len(es)] == IF n = 0 THEN m ELSE Apply(after[n - 1], es[n])
    IN  after[Len(es)]

\* The log tells the truth: once no call is in progress, replaying the
\* entries written since the database was opened, on top of what was
\* loaded, gives the table.
LogReplays ==
    phase = "open" /\ Quiet =>
        Replay(base, wal) = Contents(buckets)

\* Whatever becomes of kvdb_close, which rewrites the only copy in place: a key
\* loaded from the file it leaves has the value it had in the table, or is lost
\* if a crash came first; no old value and no deleted key comes back.
SavesOnlyCurrent ==
    [][phase = "closing" /\ phase' = "closed" =>
          \A k \in Keys :
              \/ Contents(Load(data'))[k] = Contents(buckets)[k]
              \/ todo # <<>> /\ Contents(Load(data'))[k] = None]_vars

Store ==
    INSTANCE KvMap WITH
        map <- Contents(buckets),
        saved <- Contents(Load(IF phase = "closing" THEN before ELSE data)),
        open <- phase # "closed"

\* While nothing fails, the database is the persistent map of KvMap: the
\* chains, the file format and the order of the records do not show.
ImplementsMap == Store!Spec
=============================================================================
