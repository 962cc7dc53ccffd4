----------------------------- MODULE KvDbProofs -----------------------------
(***************************************************************************)
(* Proofs about the key-value database, for any keys, values, hash         *)
(* function, capacity and number of threads: the hash table is a map, a    *)
(* file that is loaded gives the table that was saved, and the database    *)
(* implements KvMap while nothing fails.  What the loops of kvdb_open and  *)
(* kvdb_close compute is proved by induction on the number of their turns. *)
(***************************************************************************)
EXTENDS KvDb, FiniteSetTheorems, WellFoundedInduction, TLAPS

(***************************************************************************)
(* The inductive invariant.                                                *)
(***************************************************************************)
\* A key has at most one node, in the chain its hash selects.
ChainOf(b, c) ==
    /\ c \in Seq(Nodes)
    /\ \A i \in 1..Len(c) : Hash[c[i].key] = b
    /\ \A i, j \in 1..Len(c) : c[i].key = c[j].key => i = j
Tables == {bs \in [Buckets -> Seq(Nodes)] : \A b \in Buckets : ChainOf(b, bs[b])}

Bound(bs) == {k \in Keys : hashmap_find(bs, k) # None}
Entries == [op : {"set", "delete"}, key : Keys, val : Values \cup {None}]
Listed(file, k) == \E i \in 1..Len(file) : file[i].key = k

Types ==
    /\ phase \in {"closed", "open", "closing"} /\ mode \in {"rw", "ro", "create"}
    /\ buckets \in Tables
    /\ size = Cardinality(Bound(buckets))
    /\ data \in Seq(Nodes) \cup {None} /\ todo \in Seq(Nodes)
    /\ before \in Seq(Nodes) \cup {None}
    /\ pc \in [Threads -> {"idle", "log", "read", "write"}]

\* Calls are in progress only while the database is open.
Calls == phase # "open" => Quiet

\* A closed handle has an empty table.
Closed == phase = "closed" => buckets = Empty

\* Nothing is changed through a handle opened for reading.
Readonly == phase = "open" => data # None /\ (mode = "ro" => buckets = Load(data))

\* What kvdb_close has written and what it has still to write make up the table.
Saving ==
    phase = "closing" =>
        /\ data # None
        /\ \A i \in 1..Len(todo) : todo[i].val = Contents(buckets)[todo[i].key]
        /\ \A k \in Keys :
              \/ Contents(Load(data))[k] = Contents(buckets)[k]
              \/ Contents(Load(data))[k] = None /\ Listed(todo, k)

IInv == Types /\ Calls /\ Closed /\ Readonly /\ Saving

\* With one thread and without kvdb_clear, the log and the entry about to be
\* appended make up the table.
Logged ==
    /\ base \in [Keys -> Values \cup {None}] /\ wal \in Seq(Entries)
    /\ entry \in [Threads -> Entries \cup {NoEntry}]
    /\ \A t \in Threads : pc[t] = "log" => entry[t] \in Entries
    /\ phase = "open" =>
          /\ (\A t \in Threads : pc[t] # "log") => Replay(base, wal) = Contents(buckets)
          /\ \A t \in Threads : pc[t] = "log" =>
                Apply(Replay(base, wal), entry[t]) = Contents(buckets)

(***************************************************************************)
(* Induction and recursion over the turns of a loop.  The library states   *)
(* them for operators; these forms are about sets and functions.           *)
(***************************************************************************)
\* Every non-empty set of naturals has a least element, which Min chooses.
LEMMA LeastNatural ==
    ASSUME NEW T \in SUBSET Nat, T # {}
    PROVE  Min(T) \in T /\ \A y \in T : Min(T) <= y
  <1>1. PICK x \in T : \A y \in T : ~ (<<y, x>> \in OpToRel(<, Nat))
    BY NatLessThanWellFounded, WFMin
  <1>2. \A y \in T : /\ <<y, x>> \in Nat \X Nat
                     /\ <<y, x>>[1] = y /\ <<y, x>>[2] = x
    OBVIOUS
  <1>3. \A y \in T : ~(y < x)
    BY <1>1, <1>2, Zenon DEF OpToRel
  <1>4. \A y \in T : x <= y
    BY <1>3
  <1> QED  BY <1>4, Zenon DEF Min

Inductive(N, S) == N \in Nat /\ 0 \in S /\ \A n \in 1..N : n - 1 \in S => n \in S

LEMMA UpTo ==
    ASSUME NEW N, NEW S, Inductive(N, S)
    PROVE  \A n \in 0..N : n \in S
  <1> N \in Nat /\ 0 \in S /\ \A n \in 1..N : n - 1 \in S => n \in S
    BY DEF Inductive
  <1> SUFFICES ASSUME NEW m \in 0..N, m \notin S PROVE FALSE
    OBVIOUS
  <1> DEFINE T == {n \in 0..N : n \notin S}
             x == Min(T)
  <1>1. T \in SUBSET Nat /\ T # {}
    OBVIOUS
  <1>2. x \in T /\ \A y \in T : x <= y
    BY <1>1, LeastNatural
  <1> HIDE DEF x
  <1>3. x \in 1..N
    BY <1>2
  <1>4. x - 1 \notin T /\ x - 1 \in 0..N
    BY <1>2, <1>3
  <1> QED  BY <1>2, <1>3, <1>4

\* A loop of N turns, turn n applying F[n], has a run.
Loop(T, e, N, F) == e \in T /\ N \in Nat /\ F \in [1..N -> [T -> T]]
LoopRun(T, e, N, F, g) ==
    g \in [0..N -> T] /\ g[0] = e /\ \A n \in 1..N : g[n] = F[n][g[n - 1]]

LEMMA LoopRuns ==
    ASSUME NEW T, NEW e, NEW N, NEW F, Loop(T, e, N, F)
    PROVE  \E g : LoopRun(T, e, N, F, g)
  <1> e \in T /\ N \in Nat /\ F \in [1..N -> [T -> T]]
    BY DEF Loop
  <1> DEFINE Runs(m) == {g \in [0..m -> T] : g[0] = e /\ \A n \in 1..m : g[n] = F[n][g[n - 1]]}
             S == {m \in 0..N : Runs(m) # {}}
  <1>1. 0 \in S
    <2>1. [n \in 0..0 |-> e] \in Runs(0)
      OBVIOUS
    <2> QED  BY <2>1
  <1>2. ASSUME NEW m \in 1..N, m - 1 \in S
        PROVE  m \in S
    <2>1. PICK g \in [0..(m - 1) -> T] : g[0] = e /\ \A n \in 1..(m - 1) : g[n] = F[n][g[n - 1]]
      BY <1>2
    <2> DEFINE h == [n \in 0..m |-> IF n = m THEN F[m][g[m - 1]] ELSE g[n]]
    <2>2. \A n \in 0..(m - 1) : n \in 0..m /\ n # m /\ h[n] = g[n]
      OBVIOUS
    <2>3. g[m - 1] \in T /\ F[m][g[m - 1]] \in T
      BY <2>1
    <2>4. h \in [0..m -> T]
      BY <2>1, <2>3
    <2>5. h[0] = e
      BY <2>1, <2>2
    <2>6. ASSUME NEW n \in 1..m PROVE h[n] = F[n][h[n - 1]]
      <3>1. CASE n = m
        BY <3>1, <2>2
      <3>2. CASE n # m
        <4>1. n \in 1..(m - 1) /\ n \in 0..(m - 1) /\ n - 1 \in 0..(m - 1)
          BY <3>2
        <4> QED  BY <4>1, <2>1, <2>2
      <3> QED  BY <3>1, <3>2
    <2> HIDE DEF h
    <2>7. h \in Runs(m)
      BY <2>4, <2>5, <2>6
    <2> HIDE DEF Runs
    <2> QED  BY <2>7
  <1>3. \A n \in 0..N : n \in S
    <2> HIDE DEF S
    <2>1. Inductive(N, S)
      BY <1>1, <1>2 DEF Inductive
    <2> QED  BY <2>1, UpTo
  <1> QED  BY <1>3 DEF LoopRun

\* Whatever satisfies the loop's equations is its run.
LoopEqs(T, e, N, F, f) ==
    /\ Loop(T, e, N, F)
    /\ f = [n \in 0..N |-> f[n]] /\ f[0] = e
    /\ \A n \in 1..N : f[n - 1] \in T => f[n] = F[n][f[n - 1]]

LEMMA LoopIs ==
    ASSUME NEW T, NEW e, NEW N, NEW F, NEW f, LoopEqs(T, e, N, F, f)
    PROVE  LoopRun(T, e, N, F, f)
  <1> e \in T /\ N \in Nat /\ F \in [1..N -> [T -> T]] /\ f[0] = e
    BY DEF Loop, LoopEqs
  <1>0. \A n \in 1..N : f[n - 1] \in T => f[n] = F[n][f[n - 1]]
    BY Zenon DEF LoopEqs
  <1> DEFINE S == {n \in 0..N : f[n] \in T}
  <1>1. 0 \in S
    OBVIOUS
  <1>2. ASSUME NEW n \in 1..N, n - 1 \in S PROVE n \in S
    <2>0. f[n - 1] \in T
      BY <1>2
    <2>1. f[n] = F[n][f[n - 1]]
      BY <2>0, <1>0
    <2>2. F[n] \in [T -> T]
      OBVIOUS
    <2>3. f[n] \in T
      BY <2>0, <2>1, <2>2
    <2> QED  BY <2>3
  <1> HIDE DEF S
  <1>3. \A n \in 0..N : n \in S
    <2>1. Inductive(N, S)
      BY <1>1, <1>2 DEF Inductive
    <2> QED  BY <2>1, UpTo
  <1>4. \A n \in 0..N : f[n] \in T
    BY <1>3 DEF S
  <1>5. f \in [0..N -> T]
    BY <1>4 DEF LoopEqs
  <1>6. \A n \in 1..N : n - 1 \in 0..N
    OBVIOUS
  <1> QED  BY <1>4, <1>5, <1>6 DEF LoopRun, LoopEqs

\* A loop with more turns passes through the same states.
LEMMA LoopLonger ==
    ASSUME NEW T, NEW e, NEW N \in Nat, NEW F, NEW g, LoopRun(T, e, N, F, g),
           NEW M \in Nat, NEW H, NEW h, LoopRun(T, e, M, H, h),
           N <= M, \A n \in 1..N : F[n] = H[n]
    PROVE  g[N] = h[N]
  <1> DEFINE S == {n \in 0..N : g[n] = h[n]}
  <1>1. 0 \in S
    BY DEF LoopRun
  <1>2. ASSUME NEW n \in 1..N, n - 1 \in S PROVE n \in S
    <2>1. n \in 1..M /\ g[n - 1] = h[n - 1] /\ n \in 0..N
      BY <1>2
    <2>2. g[n] = F[n][g[n - 1]] /\ h[n] = H[n][h[n - 1]]
      BY <2>1 DEF LoopRun
    <2> QED  BY <2>1, <2>2
  <1> HIDE DEF S
  <1>3. \A n \in 0..N : n \in S
    <2>1. Inductive(N, S)
      BY <1>1, <1>2 DEF Inductive
    <2> QED  BY <2>1, UpTo
  <1> QED  BY <1>3 DEF S

(***************************************************************************)
(* The hash table.                                                         *)
(***************************************************************************)
In(r, c) == \E i \in 1..Len(c) : c[i] = r
Has(bs, k, v) == In(Record(k, v), bs[Hash[k]])

LEMMA Chains ==
    ASSUME NEW bs \in Tables, NEW b \in Buckets
    PROVE  /\ bs[b] \in Seq(Nodes) /\ Len(bs[b]) \in Nat /\ DOMAIN bs[b] = 1..Len(bs[b])
           /\ \A i \in 1..Len(bs[b]) : /\ bs[b][i] \in Nodes /\ bs[b][i].key \in Keys
                                       /\ bs[b][i].val \in Values
                                       /\ bs[b][i] = Record(bs[b][i].key, bs[b][i].val)
                                       /\ Hash[bs[b][i].key] = b
           /\ \A i, j \in 1..Len(bs[b]) : bs[b][i].key = bs[b][j].key => i = j
  <1>1. bs \in [Buckets -> Seq(Nodes)]
    BY DEF Tables
  <1>2. bs[b] \in Seq(Nodes) /\ Len(bs[b]) \in Nat /\ DOMAIN bs[b] = 1..Len(bs[b])
    BY <1>1
  <1>3. \A i \in 1..Len(bs[b]) : bs[b][i] \in Nodes
    BY <1>2
  <1>4. \A n \in Nodes : n.key \in Keys /\ n.val \in Values /\ n = Record(n.key, n.val)
    BY DEF Nodes, Record
  <1> QED  BY <1>2, <1>3, <1>4 DEF Tables, ChainOf

\* The node of a key, if it has one.
LEMMA PlaceOf ==
    ASSUME NEW bs \in Tables, NEW k \in Keys
    PROVE  /\ Hash[k] \in Buckets
           /\ \A i \in 1..Len(bs[Hash[k]]) : bs[Hash[k]][i].key = k =>
                 Places(bs, k) = {i} /\ Min(Places(bs, k)) = i
           /\ Places(bs, k) # {} =>
                 /\ Min(Places(bs, k)) \in 1..Len(bs[Hash[k]])
                 /\ bs[Hash[k]][Min(Places(bs, k))].key = k
  <1> DEFINE c == bs[Hash[k]]
  <1>1. Hash[k] \in Buckets
    BY KvAssumption
  <1>2. DOMAIN c = 1..Len(c) /\ Len(c) \in Nat
        /\ \A i, j \in 1..Len(c) : c[i].key = c[j].key => i = j
    BY <1>1, Chains
  <1>3. Places(bs, k) = {i \in 1..Len(c) : c[i].key = k}
    BY <1>2 DEF Places
  <1> HIDE DEF c
  <1>4. ASSUME NEW i \in 1..Len(c), c[i].key = k
        PROVE  Places(bs, k) = {i} /\ Min(Places(bs, k)) = i
    <2>1. Places(bs, k) = {i}
      BY <1>2, <1>3, <1>4
    <2>2. {i} \in SUBSET Nat /\ {i} # {}
      OBVIOUS
    <2>3. Min({i}) \in {i}
      BY <2>2, LeastNatural
    <2> QED  BY <2>1, <2>3
  <1>5. Places(bs, k) # {} => \E i \in 1..Len(c) : c[i].key = k
    BY <1>3
  <1> QED  BY <1>1, <1>4, <1>5 DEF c

LEMMA NoPlace ==
    ASSUME NEW bs \in Tables, NEW k \in Keys, Places(bs, k) = {},
           NEW i \in 1..Len(bs[Hash[k]])
    PROVE  bs[Hash[k]][i].key # k
  <1>1. Hash[k] \in Buckets
    BY KvAssumption
  <1>2. DOMAIN bs[Hash[k]] = 1..Len(bs[Hash[k]])
    BY <1>1, Chains
  <1> QED  BY <1>2 DEF Places

\* hashmap_find finds the value of the key's node.
LEMMA FindIs ==
    ASSUME NEW bs \in Tables, NEW k \in Keys
    PROVE  /\ hashmap_find(bs, k) \in Values \cup {None}
           /\ \A v \in Values : hashmap_find(bs, k) = v <=> Has(bs, k, v)
           /\ hashmap_find(bs, k) = None <=> Places(bs, k) = {}
  <1> DEFINE c == bs[Hash[k]]
             p == Min(Places(bs, k))
  <1>0. None \notin Values
    BY KvAssumption
  <1>1. Hash[k] \in Buckets
    BY KvAssumption
  <1>2. \A i \in 1..Len(c) : c[i].val \in Values /\ c[i] = Record(c[i].key, c[i].val)
    BY <1>1, Chains
  <1>3. \A x, y : Record(x, y).key = x /\ Record(x, y).val = y
    BY DEF Record
  <1>4. CASE Places(bs, k) = {}
    <2>1. hashmap_find(bs, k) = None
      BY <1>4 DEF hashmap_find
    <2>2. \A i \in 1..Len(c) : c[i].key # k
      BY <1>4, NoPlace
    <2> QED  BY <2>1, <2>2, <1>0, <1>3, <1>4 DEF Has, In
  <1>5. CASE Places(bs, k) # {}
    <2>1. p \in 1..Len(c) /\ c[p].key = k
      BY <1>5, PlaceOf
    <2>2. hashmap_find(bs, k) = c[p].val
      BY <1>5 DEF hashmap_find
    <2>3. \A i \in 1..Len(c) : c[i].key = k => i = p
      BY PlaceOf
    <2> HIDE DEF p
    <2> QED  BY <2>1, <2>2, <2>3, <1>0, <1>2, <1>3, <1>5 DEF Has, In
  <1> QED  BY <1>4, <1>5

\* Two tables with the same nodes for a key have the same value for it.
LEMMA SameValue ==
    ASSUME NEW bs \in Tables, NEW cs \in Tables, NEW k \in Keys,
           \A v \in Values : Has(bs, k, v) <=> Has(cs, k, v)
    PROVE  hashmap_find(bs, k) = hashmap_find(cs, k)
  BY FindIs

LEMMA EmptyTable == Empty \in Tables /\ \A k \in Keys : hashmap_find(Empty, k) = None
  <1>1. Empty \in [Buckets -> Seq(Nodes)] /\ \A b \in Buckets : Len(Empty[b]) = 0
    BY DEF Empty
  <1>2. Empty \in Tables
    BY <1>1 DEF Tables, ChainOf
  <1>3. ASSUME NEW k \in Keys PROVE Places(Empty, k) = {}
    BY <1>1, <1>2, PlaceOf
  <1> QED  BY <1>2, <1>3, FindIs

\* A chain with a new node at its head.
LEMMA Longer ==
    ASSUME NEW c \in Seq(Nodes), NEW r \in Nodes
    PROVE  /\ <<r>> \o c \in Seq(Nodes) /\ Len(<<r>> \o c) = Len(c) + 1
           /\ (<<r>> \o c)[1] = r
           /\ \A i \in 1..Len(c) : i + 1 \in 1..(Len(c) + 1) /\ (<<r>> \o c)[i + 1] = c[i]
           /\ \A i \in 1..(Len(c) + 1) : i # 1 => i - 1 \in 1..Len(c) /\ (<<r>> \o c)[i] = c[i - 1]
  OBVIOUS

\* The chain of a key's bucket is replaced by one that differs in this key only.
SameBut(k, c, d) == \A n \in Nodes : n.key # k => (In(n, d) <=> In(n, c))
Rechained(bs, k, d, cs) ==
    /\ bs \in Tables /\ k \in Keys /\ ChainOf(Hash[k], d) /\ SameBut(k, bs[Hash[k]], d)
    /\ cs \in [Buckets -> Seq(Nodes)] /\ cs[Hash[k]] = d
    /\ \A a \in Buckets : a # Hash[k] => cs[a] = bs[a]

LEMMA Rechain ==
    ASSUME NEW bs, NEW k, NEW d, NEW cs, Rechained(bs, k, d, cs)
    PROVE  /\ cs \in Tables
           /\ \A v \in Values : In(Record(k, v), d) => hashmap_find(cs, k) = v
           /\ ~Listed(d, k) => hashmap_find(cs, k) = None
           /\ \A j \in Keys : j # k => hashmap_find(cs, j) = hashmap_find(bs, j)
  <1> DEFINE b == Hash[k]
  <1> bs \in Tables /\ k \in Keys /\ ChainOf(b, d) /\ SameBut(k, bs[b], d)
    BY DEF Rechained
  <1>0. b \in Buckets /\ bs \in [Buckets -> Seq(Nodes)] /\ Hash \in [Keys -> Buckets]
        /\ d \in Seq(Nodes)
    BY KvAssumption DEF Tables, ChainOf
  <1>1. cs \in [Buckets -> Seq(Nodes)] /\ cs[b] = d /\ \A a \in Buckets : a # b => cs[a] = bs[a]
    BY DEF Rechained
  <1>2. cs \in Tables
    BY <1>1 DEF Tables
  <1>3. ASSUME NEW v \in Values, In(Record(k, v), d)
        PROVE  hashmap_find(cs, k) = v
    <2>1. Has(cs, k, v)
      BY <1>1, <1>3 DEF Has
    <2> QED  BY <2>1, <1>2, FindIs
  <1>4. ASSUME ~Listed(d, k)
        PROVE  hashmap_find(cs, k) = None
    <2>1. DOMAIN cs[b] = 1..Len(cs[b])
      BY <1>0, <1>2, Chains
    <2>2. Places(cs, k) = {}
      BY <1>1, <1>4, <2>1 DEF Places, Listed
    <2> QED  BY <2>2, <1>2, FindIs
  <1>5. ASSUME NEW j \in Keys, j # k
        PROVE  hashmap_find(cs, j) = hashmap_find(bs, j)
    <2>1. ASSUME NEW w \in Values
          PROVE  Has(cs, j, w) <=> Has(bs, j, w)
      <3>1. CASE Hash[j] # b
        BY <3>1, <1>0, <1>1 DEF Has
      <3>2. CASE Hash[j] = b
        <4>1. Record(j, w) \in Nodes /\ Record(j, w).key # k
          BY <1>5 DEF Record, Nodes
        <4>2. In(Record(j, w), d) <=> In(Record(j, w), bs[b])
          BY <4>1 DEF SameBut
        <4> QED  BY <3>2, <4>2, <1>1 DEF Has
      <3> QED  BY <3>1, <3>2
    <2> QED  BY <2>1, <1>2, SameValue
  <1> QED  BY <1>2, <1>3, <1>4, <1>5

LEMMA InsertNew ==
    ASSUME NEW bs \in Tables, NEW k \in Keys, NEW v \in Values, Places(bs, k) = {}
    PROVE  /\ hashmap_insert(bs, k, v) \in Tables
           /\ hashmap_find(hashmap_insert(bs, k, v), k) = v
           /\ \A j \in Keys : j # k => hashmap_find(hashmap_insert(bs, k, v), j) = hashmap_find(bs, j)
  <1> DEFINE c == bs[Hash[k]]
             r == Record(k, v)
             d == <<r>> \o c
  <1>0. Hash[k] \in Buckets /\ bs \in [Buckets -> Seq(Nodes)]
    BY KvAssumption DEF Tables
  <1>1. hashmap_insert(bs, k, v) = [bs EXCEPT ![Hash[k]] = d]
    BY <1>0 DEF hashmap_insert
  <1>2. /\ c \in Seq(Nodes) /\ Len(c) \in Nat
        /\ \A i \in 1..Len(c) : c[i] \in Nodes /\ Hash[c[i].key] = Hash[k]
        /\ \A i, j \in 1..Len(c) : c[i].key = c[j].key => i = j
    BY <1>0, Chains
  <1>3. r \in Nodes /\ r.key = k /\ r.val = v /\ r = Record(k, v)
    BY DEF Nodes, Record
  <1>4. \A i \in 1..Len(c) : c[i].key # k
    BY NoPlace
  <1> HIDE DEF r
  <1>5. /\ d \in Seq(Nodes) /\ Len(d) = Len(c) + 1 /\ d[1] = r
        /\ \A i \in 1..Len(c) : i + 1 \in 1..(Len(c) + 1) /\ d[i + 1] = c[i]
        /\ \A i \in 1..(Len(c) + 1) : i # 1 => i - 1 \in 1..Len(c) /\ d[i] = c[i - 1]
    BY <1>2, <1>3, Longer
  <1> HIDE DEF d, c
  <1>6. ChainOf(Hash[k], d)
    <2>1. ASSUME NEW i \in 1..Len(d) PROVE Hash[d[i].key] = Hash[k]
      <3>1. CASE i = 1
        BY <3>1, <1>3, <1>5
      <3>2. CASE i # 1
        <4>1. i - 1 \in 1..Len(c) /\ d[i] = c[i - 1]
          BY <3>2, <1>5
        <4> QED  BY <4>1, <1>2
      <3> QED  BY <3>1, <3>2
    <2>2. ASSUME NEW i \in 1..Len(d), NEW j \in 1..Len(d), d[i].key = d[j].key
          PROVE  i = j
      <3>1. i # 1 => i - 1 \in 1..Len(c) /\ d[i] = c[i - 1]
        BY <1>5
      <3>2. j # 1 => j - 1 \in 1..Len(c) /\ d[j] = c[j - 1]
        BY <1>5
      <3>3. i # 1 /\ j # 1 => i - 1 = j - 1
        BY <3>1, <3>2, <2>2, <1>2
      <3> QED  BY <3>1, <3>2, <3>3, <2>2, <1>3, <1>4, <1>5
    <2> QED  BY <2>1, <2>2, <1>5 DEF ChainOf
  <1>7. SameBut(k, c, d)
    <2> SUFFICES ASSUME NEW n \in Nodes, n.key # k PROVE In(n, d) <=> In(n, c)
      BY DEF SameBut
    <2>1. ASSUME NEW i \in 1..Len(d), d[i] = n PROVE In(n, c)
      <3>1. i # 1
        BY <1>3, <1>5, <2>1
      <3>2. i - 1 \in 1..Len(c) /\ d[i] = c[i - 1]
        BY <3>1, <1>5
      <3> QED  BY <3>2, <2>1, Zenon DEF In
    <2>2. ASSUME NEW i \in 1..Len(c), c[i] = n PROVE In(n, d)
      BY <1>5, <2>2 DEF In
    <2> QED  BY <2>1, <2>2 DEF In
  <1>8. In(Record(k, v), d)
    BY <1>2, <1>3, <1>5 DEF In
  <1> DEFINE cs == hashmap_insert(bs, k, v)
  <1>9. SameBut(k, bs[Hash[k]], d)
    BY <1>7 DEF c
  <1>10. Rechained(bs, k, d, cs)
    BY <1>0, <1>1, <1>5, <1>6, <1>9 DEF Rechained
  <1> HIDE DEF cs
  <1>11. /\ cs \in Tables /\ hashmap_find(cs, k) = v
         /\ \A j \in Keys : j # k => hashmap_find(cs, j) = hashmap_find(bs, j)
    <2>1. /\ cs \in Tables
          /\ \A w \in Values : In(Record(k, w), d) => hashmap_find(cs, k) = w
          /\ \A j \in Keys : j # k => hashmap_find(cs, j) = hashmap_find(bs, j)
      BY <1>10, Rechain
    <2> QED  BY <2>1, <1>8
  <1> QED  BY <1>11 DEF cs

LEMMA InsertOld ==
    ASSUME NEW bs \in Tables, NEW k \in Keys, NEW v \in Values, Places(bs, k) # {}
    PROVE  /\ hashmap_insert(bs, k, v) \in Tables
           /\ hashmap_find(hashmap_insert(bs, k, v), k) = v
           /\ \A j \in Keys : j # k => hashmap_find(hashmap_insert(bs, k, v), j) = hashmap_find(bs, j)
  <1> DEFINE c == bs[Hash[k]]
             p == Min(Places(bs, k))
             d == [c EXCEPT ![p].val = v]
  <1>0. Hash[k] \in Buckets /\ bs \in [Buckets -> Seq(Nodes)]
    BY KvAssumption DEF Tables
  <1>1. hashmap_insert(bs, k, v) = [bs EXCEPT ![Hash[k]] = d]
    BY <1>0 DEF hashmap_insert
  <1>2. /\ c \in Seq(Nodes) /\ Len(c) \in Nat
        /\ \A i \in 1..Len(c) : c[i] \in Nodes /\ Hash[c[i].key] = Hash[k]
        /\ \A i, j \in 1..Len(c) : c[i].key = c[j].key => i = j
    BY <1>0, Chains
  <1>3. p \in 1..Len(c) /\ c[p].key = k
    BY PlaceOf
  <1> HIDE DEF c, p
  <1>4. [c[p] EXCEPT !.val = v] = Record(k, v)
    <2>1. c[p] \in Nodes
      BY <1>2, <1>3
    <2> QED  BY <2>1, <1>3 DEF Nodes, Record
  <1>5. Record(k, v) \in Nodes /\ Record(k, v).key = k
    BY DEF Nodes, Record
  <1>6. d \in Seq(Nodes) /\ Len(d) = Len(c) /\ d[p] = Record(k, v)
        /\ \A i \in 1..Len(c) : i # p => d[i] = c[i]
    BY <1>2, <1>3, <1>4, <1>5
  <1> HIDE DEF d
  <1>7. \A i \in 1..Len(d) : d[i].key = c[i].key
    BY <1>3, <1>5, <1>6
  <1>8. ChainOf(Hash[k], d)
    BY <1>2, <1>6, <1>7 DEF ChainOf
  <1>9. SameBut(k, c, d)
    BY <1>3, <1>5, <1>6 DEF SameBut, In
  <1>10. In(Record(k, v), d)
    BY <1>3, <1>6 DEF In
  <1> DEFINE cs == hashmap_insert(bs, k, v)
  <1>11. SameBut(k, bs[Hash[k]], d)
    BY <1>9 DEF c
  <1>12. Rechained(bs, k, d, cs)
    BY <1>0, <1>1, <1>6, <1>8, <1>11 DEF Rechained
  <1> HIDE DEF cs
  <1>13. /\ cs \in Tables /\ hashmap_find(cs, k) = v
         /\ \A j \in Keys : j # k => hashmap_find(cs, j) = hashmap_find(bs, j)
    <2>1. /\ cs \in Tables
          /\ \A w \in Values : In(Record(k, w), d) => hashmap_find(cs, k) = w
          /\ \A j \in Keys : j # k => hashmap_find(cs, j) = hashmap_find(bs, j)
      BY <1>12, Rechain
    <2> QED  BY <2>1, <1>10
  <1> QED  BY <1>13 DEF cs

LEMMA Insertion ==
    ASSUME NEW bs \in Tables, NEW k \in Keys, NEW v \in Values
    PROVE  /\ hashmap_insert(bs, k, v) \in Tables
           /\ Contents(hashmap_insert(bs, k, v)) = [Contents(bs) EXCEPT ![k] = v]
  <1>1. /\ hashmap_insert(bs, k, v) \in Tables
        /\ hashmap_find(hashmap_insert(bs, k, v), k) = v
        /\ \A j \in Keys : j # k => hashmap_find(hashmap_insert(bs, k, v), j) = hashmap_find(bs, j)
    BY InsertNew, InsertOld
  <1> QED  BY <1>1, Zenon DEF Contents

Cat(s, c) == s \o c

LEMMA CatIs ==
    ASSUME NEW s \in Seq(Nodes), NEW c \in Seq(Nodes)
    PROVE  /\ Cat(s, c) \in Seq(Nodes) /\ Len(Cat(s, c)) = Len(s) + Len(c)
           /\ \A i \in 1..(Len(s) + Len(c)) : Cat(s, c)[i] = IF i <= Len(s) THEN s[i] ELSE c[i - Len(s)]
  BY DEF Cat

\* A chain without its node at p.
LEMMA Shorter ==
    ASSUME NEW c \in Seq(Nodes), NEW p \in 1..Len(c)
    PROVE  /\ Unlinked(c, p) \in Seq(Nodes) /\ Len(Unlinked(c, p)) = Len(c) - 1
           /\ \A i \in 1..(Len(c) - 1) : Unlinked(c, p)[i] = IF i < p THEN c[i] ELSE c[i + 1]
  <1> DEFINE u == SubSeq(c, 1, p - 1)
             w == SubSeq(c, p + 1, Len(c))
  <1>1. u \in Seq(Nodes) /\ Len(u) = p - 1 /\ \A i \in 1..(p - 1) : u[i] = c[i]
    OBVIOUS
  <1>2. w \in Seq(Nodes) /\ Len(w) = Len(c) - p /\ \A i \in 1..(Len(c) - p) : w[i] = c[p + i]
    OBVIOUS
  <1>3. Unlinked(c, p) = Cat(u, w)
    BY DEF Unlinked, Cat
  <1> HIDE DEF u, w
  <1>4. Cat(u, w) \in Seq(Nodes) /\ Len(Cat(u, w)) = Len(u) + Len(w)
        /\ \A i \in 1..(Len(u) + Len(w)) : Cat(u, w)[i] = IF i <= Len(u) THEN u[i] ELSE w[i - Len(u)]
    BY <1>1, <1>2, CatIs
  <1>5. ASSUME NEW i \in 1..(Len(c) - 1)
        PROVE  Cat(u, w)[i] = IF i < p THEN c[i] ELSE c[i + 1]
    <2>1. i \in 1..(Len(u) + Len(w))
      BY <1>1, <1>2
    <2>2. CASE i < p
      BY <2>1, <2>2, <1>1, <1>4
    <2>3. CASE ~(i < p)
      <3>1. i - (p - 1) \in 1..(Len(c) - p) /\ p + (i - (p - 1)) = i + 1
        BY <2>3
      <3>2. Cat(u, w)[i] = w[i - (p - 1)]
        BY <2>1, <2>3, <1>1, <1>4
      <3> QED  BY <2>3, <3>1, <3>2, <1>2
    <2> QED  BY <2>2, <2>3, Zenon
  <1> QED  BY <1>1, <1>2, <1>3, <1>4, <1>5

LEMMA Removal ==
    ASSUME NEW bs \in Tables, NEW k \in Keys, Places(bs, k) # {}
    PROVE  /\ hashmap_remove(bs, k) \in Tables
           /\ Contents(hashmap_remove(bs, k)) = [Contents(bs) EXCEPT ![k] = None]
  <1> DEFINE c == bs[Hash[k]]
             p == Min(Places(bs, k))
             d == Unlinked(c, p)
             cs == hashmap_remove(bs, k)
  <1>0. Hash[k] \in Buckets /\ bs \in [Buckets -> Seq(Nodes)]
    BY KvAssumption DEF Tables
  <1>1. cs = [bs EXCEPT ![Hash[k]] = d]
    BY <1>0 DEF hashmap_remove
  <1>2. /\ c \in Seq(Nodes) /\ Len(c) \in Nat
        /\ \A i \in 1..Len(c) : c[i] \in Nodes /\ Hash[c[i].key] = Hash[k]
        /\ \A i, j \in 1..Len(c) : c[i].key = c[j].key => i = j
    BY <1>0, Chains
  <1>3. p \in 1..Len(c) /\ c[p].key = k
    BY PlaceOf
  <1> HIDE DEF c, p
  <1>4. d \in Seq(Nodes) /\ Len(d) = Len(c) - 1
        /\ \A i \in 1..(Len(c) - 1) : d[i] = IF i < p THEN c[i] ELSE c[i + 1]
    BY <1>2, <1>3, Shorter
  <1> HIDE DEF d
  <1> DEFINE at(i) == IF i < p THEN i ELSE i + 1
  <1>5. \A i \in 1..Len(d) : at(i) \in 1..Len(c) /\ at(i) # p /\ d[i] = c[at(i)]
    BY <1>2, <1>3, <1>4
  <1>6. \A i, j \in 1..Len(d) : at(i) = at(j) => i = j
    BY <1>2, <1>3, <1>4
  <1>7. \A j \in 1..Len(c) : j # p => \E i \in 1..Len(d) : at(i) = j
    <2> SUFFICES ASSUME NEW j \in 1..Len(c), j # p PROVE \E i \in 1..Len(d) : at(i) = j
      OBVIOUS
    <2>1. CASE j < p
      <3>1. j \in 1..Len(d) /\ at(j) = j
        BY <2>1, <1>2, <1>3, <1>4
      <3> QED  BY <3>1
    <2>2. CASE ~(j < p)
      <3>1. j - 1 \in 1..Len(d) /\ at(j - 1) = j
        BY <2>2, <1>2, <1>3, <1>4
      <3> QED  BY <3>1
    <2> QED  BY <2>1, <2>2
  <1> HIDE DEF at
  <1>8. ChainOf(Hash[k], d)
    BY <1>2, <1>4, <1>5, <1>6 DEF ChainOf
  <1>9. SameBut(k, c, d)
    <2> SUFFICES ASSUME NEW n \in Nodes, n.key # k PROVE In(n, d) <=> In(n, c)
      BY DEF SameBut
    <2>1. In(n, d) => In(n, c)
      BY <1>5 DEF In
    <2>2. ASSUME NEW j \in 1..Len(c), c[j] = n PROVE In(n, d)
      <3>1. j # p
        BY <2>2, <1>3
      <3>2. PICK i \in 1..Len(d) : at(i) = j
        BY <3>1, <1>7
      <3> QED  BY <3>2, <2>2, <1>5 DEF In
    <2> QED  BY <2>1, <2>2 DEF In
  <1>10. ~Listed(d, k)
    <2> SUFFICES ASSUME NEW i \in 1..Len(d), d[i].key = k PROVE FALSE
      BY DEF Listed
    <2> QED  BY <1>2, <1>3, <1>5
  <1>11. SameBut(k, bs[Hash[k]], d)
    BY <1>9 DEF c
  <1>12. Rechained(bs, k, d, cs)
    BY <1>0, <1>1, <1>4, <1>8, <1>11 DEF Rechained
  <1> HIDE DEF cs
  <1>13. /\ cs \in Tables
         /\ ~Listed(d, k) => hashmap_find(cs, k) = None
         /\ \A j \in Keys : j # k => hashmap_find(cs, j) = hashmap_find(bs, j)
    BY <1>12, Rechain
  <1>14. Contents(cs) = [Contents(bs) EXCEPT ![k] = None]
    BY <1>10, <1>13, Zenon DEF Contents
  <1>15. hashmap_remove(bs, k) = cs
    BY DEF cs
  <1> QED  BY <1>13, <1>14, <1>15

(***************************************************************************)
(* The load loop of kvdb_open.                                             *)
(***************************************************************************)
Inserts(file) ==
    [n \in 1..Len(file) |-> [bs \in Tables |-> hashmap_insert(bs, file[n].key, file[n].val)]]
LoadRun(file, g) == LoopRun(Tables, Empty, Len(file), Inserts(file), g)

LEMMA LoadRuns ==
    ASSUME NEW file \in Seq(Nodes)
    PROVE  /\ Len(file) \in Nat
           /\ \E g : LoadRun(file, g) /\ Load(file) = g[Len(file)]
  <1> DEFINE N == Len(file)
             Ins(n, bs) == hashmap_insert(bs, file[n].key, file[n].val)
             body(f) == [n \in 0..N |-> IF n = 0 THEN Empty
                                        ELSE hashmap_insert(f[n - 1], file[n].key, file[n].val)]
             load == CHOOSE f : f = body(f)
             F == Inserts(file)
  <1>1. N \in Nat /\ \A n \in 1..N : file[n].key \in Keys /\ file[n].val \in Values
    <2>1. \A r \in Nodes : r.key \in Keys /\ r.val \in Values
      BY DEF Nodes
    <2>2. N \in Nat /\ \A n \in 1..N : file[n] \in Nodes
      OBVIOUS
    <2> QED  BY <2>1, <2>2
  <1>2. \A n \in 1..N : \A bs \in Tables : Ins(n, bs) \in Tables
    BY <1>1, Insertion
  <1>3. F \in [1..N -> [Tables -> Tables]] /\ \A n \in 1..N : \A bs \in Tables : F[n][bs] = Ins(n, bs)
    BY <1>2 DEF Inserts
  <1> HIDE DEF F
  <1>4. Loop(Tables, Empty, N, F)
    BY <1>1, <1>3, EmptyTable DEF Loop
  <1>5. PICK g : LoopRun(Tables, Empty, N, F, g)
    <2> HIDE DEF N
    <2> QED  BY <1>4, LoopRuns
  <1>6. g \in [0..N -> Tables] /\ g[0] = Empty /\ \A n \in 1..N : g[n] = F[n][g[n - 1]]
    BY <1>5 DEF LoopRun
  <1>7. ASSUME NEW n \in 1..N PROVE g[n] = Ins(n, g[n - 1])
    <2>1. g[n - 1] \in Tables
      BY <1>1, <1>6
    <2> QED  BY <2>1, <1>3, <1>6
  <1>8. g = body(g)
    BY <1>1, <1>6, <1>7
  <1>9. load = body(load)
    BY <1>8
  <1>10. Load(file) = load[N]
    BY KvAssumption DEF Load
  <1> HIDE DEF load
  <1>11. LoopEqs(Tables, Empty, N, F, load)
    <2>1. body(load)[0] = Empty /\ body(load) = [n \in 0..N |-> body(load)[n]]
      BY <1>1
    <2>2. \A n \in 1..N : body(load)[n] = Ins(n, load[n - 1])
      BY <1>1
    <2>3. \A n \in 1..N : load[n] = Ins(n, load[n - 1])
      BY <1>9, <2>2
    <2>4. \A n \in 1..N : load[n - 1] \in Tables => load[n] = F[n][load[n - 1]]
      BY <1>3, <2>3
    <2>5. load = [n \in 0..N |-> load[n]] /\ load[0] = Empty
      BY <1>9, <2>1
    <2> QED  BY <1>4, <2>4, <2>5 DEF LoopEqs
  <1>12. LoopRun(Tables, Empty, N, F, load)
    <2> HIDE DEF N
    <2> QED  BY <1>11, LoopIs
  <1> QED  BY <1>1, <1>10, <1>12 DEF LoadRun, F

LEMMA LoadEmpty == Load(<<>>) = Empty /\ Load(None) = Empty
  <1> DEFINE file == <<>>
  <1>0. file \in Seq(Nodes)
    OBVIOUS
  <1>1. Len(file) = 0
    OBVIOUS
  <1> HIDE DEF file
  <1>2. PICK g : LoadRun(file, g) /\ Load(file) = g[Len(file)]
    BY <1>0, LoadRuns, Zenon
  <1>3. g[0] = Empty
    BY <1>2 DEF LoadRun, LoopRun
  <1>4. Load(file) = Empty
    BY <1>1, <1>2, <1>3
  <1> QED  BY <1>4 DEF Load, file

LEMMA LoadTable ==
    ASSUME NEW file \in Seq(Nodes)
    PROVE  Load(file) \in Tables
  <1>1. PICK g : LoadRun(file, g) /\ Load(file) = g[Len(file)]
    BY LoadRuns
  <1>2. g \in [0..Len(file) -> Tables] /\ Len(file) \in Nat
    BY <1>1, LoadRuns DEF LoadRun, LoopRun
  <1>3. Len(file) \in 0..Len(file)
    BY <1>2
  <1> QED  BY <1>1, <1>2, <1>3

\* One record more is one insertion more.
LEMMA LoadAppend ==
    ASSUME NEW file \in Seq(Nodes), NEW r \in Nodes
    PROVE  Load(Append(file, r)) = hashmap_insert(Load(file), r.key, r.val)
  <1> DEFINE N == Len(file)
             long == Append(file, r)
  <1>1. /\ long \in Seq(Nodes) /\ N \in Nat /\ Len(long) = N + 1 /\ long[N + 1] = r
        /\ \A n \in 1..N : n \in 1..(N + 1) /\ long[n] = file[n]
    OBVIOUS
  <1>2. PICK g : LoadRun(file, g) /\ Load(file) = g[N]
    BY LoadRuns
  <1> HIDE DEF long
  <1>3. PICK h : LoadRun(long, h) /\ Load(long) = h[Len(long)]
    BY <1>1, LoadRuns
  <1> HIDE DEF N
  <1>4. LoopRun(Tables, Empty, N, Inserts(file), g)
    BY <1>2 DEF LoadRun, N
  <1>5. LoopRun(Tables, Empty, N + 1, Inserts(long), h)
    BY <1>1, <1>3 DEF LoadRun
  <1>6. \A n \in 1..N : Inserts(file)[n] = Inserts(long)[n]
    <2> SUFFICES ASSUME NEW n \in 1..N PROVE Inserts(file)[n] = Inserts(long)[n]
      OBVIOUS
    <2>1. Inserts(file)[n] = [bs \in Tables |-> hashmap_insert(bs, file[n].key, file[n].val)]
      BY DEF Inserts, N
    <2>2. n \in 1..Len(long) /\ long[n] = file[n]
      BY <1>1
    <2>3. Inserts(long)[n] = [bs \in Tables |-> hashmap_insert(bs, long[n].key, long[n].val)]
      BY <2>2 DEF Inserts
    <2> QED  BY <2>1, <2>2, <2>3
  <1>7. g[N] = h[N]
    <2>1. N + 1 \in Nat /\ N <= N + 1
      BY <1>1
    <2> QED  BY <1>1, <1>4, <1>5, <1>6, <2>1, LoopLonger
  <1>8. h[N + 1] = Inserts(long)[N + 1][h[N]] /\ h[N] \in Tables /\ N + 1 \in 1..(N + 1)
    BY <1>1, <1>5 DEF LoopRun
  <1>9. Inserts(long)[N + 1] = [bs \in Tables |-> hashmap_insert(bs, r.key, r.val)]
    <2>1. N + 1 \in 1..Len(long)
      BY <1>1
    <2>2. Inserts(long)[N + 1] =
              [bs \in Tables |-> hashmap_insert(bs, long[N + 1].key, long[N + 1].val)]
      BY <2>1 DEF Inserts
    <2> QED  BY <2>2, <1>1
  <1>10. h[N + 1] = hashmap_insert(h[N], r.key, r.val)
    BY <1>8, <1>9
  <1> QED  BY <1>1, <1>2, <1>3, <1>7, <1>10 DEF long

(***************************************************************************)
(* The write loop of kvdb_close.                                           *)
(***************************************************************************)
LEMMA ConcatIn ==
    ASSUME NEW s \in Seq(Nodes), NEW c \in Seq(Nodes)
    PROVE  /\ Cat(s, c) \in Seq(Nodes)
           /\ \A r : In(r, Cat(s, c)) <=> In(r, s) \/ In(r, c)
  <1>0. Len(s) \in Nat /\ Len(c) \in Nat
    OBVIOUS
  <1>1. /\ Len(s) \in Nat /\ Len(c) \in Nat
        /\ Cat(s, c) \in Seq(Nodes) /\ Len(Cat(s, c)) = Len(s) + Len(c)
        /\ \A i \in 1..(Len(s) + Len(c)) : Cat(s, c)[i] = IF i <= Len(s) THEN s[i] ELSE c[i - Len(s)]
    BY <1>0, CatIs, Zenon
  <1>2. ASSUME NEW r, NEW i \in 1..(Len(s) + Len(c)), Cat(s, c)[i] = r
        PROVE  In(r, s) \/ In(r, c)
    <2>1. CASE i <= Len(s)
      BY <1>1, <1>2, <2>1 DEF In
    <2>2. CASE ~(i <= Len(s))
      <3>1. i - Len(s) \in 1..Len(c) /\ c[i - Len(s)] = r
        BY <1>1, <1>2, <2>2
      <3> QED  BY <3>1 DEF In
    <2> QED  BY <2>1, <2>2
  <1>3. ASSUME NEW r, NEW i \in 1..Len(s), s[i] = r
        PROVE  In(r, Cat(s, c))
    <2>1. i \in 1..Len(Cat(s, c)) /\ Cat(s, c)[i] = r
      BY <1>1, <1>3
    <2> QED  BY <2>1 DEF In
  <1>4. ASSUME NEW r, NEW i \in 1..Len(c), c[i] = r
        PROVE  In(r, Cat(s, c))
    <2>1. i + Len(s) \in 1..Len(Cat(s, c)) /\ ~(i + Len(s) <= Len(s)) /\ (i + Len(s)) - Len(s) = i
      BY <1>1
    <2>2. Cat(s, c)[i + Len(s)] = r
      BY <1>1, <1>4, <2>1
    <2> QED  BY <2>1, <2>2, Zenon DEF In
  <1>5. \A r : In(r, Cat(s, c)) => In(r, s) \/ In(r, c)
    BY <1>1, <1>2 DEF In
  <1>6. \A r : In(r, s) => In(r, Cat(s, c))
    BY <1>3 DEF In
  <1>7. \A r : In(r, c) => In(r, Cat(s, c))
    BY <1>4 DEF In
  <1> QED  BY <1>1, <1>5, <1>6, <1>7

Concats(bs) == [n \in 1..Capacity |-> [s \in Seq(Nodes) |-> Cat(s, bs[n - 1])]]

LEMMA RecordsRun ==
    ASSUME NEW bs \in Tables
    PROVE  \E g : LoopRun(Seq(Nodes), <<>>, Capacity, Concats(bs), g) /\ Records(bs) = g[Capacity]
  <1> DEFINE e == <<>>
             body(f) == [n \in 0..Capacity |-> IF n = 0 THEN e ELSE Cat(f[n - 1], bs[n - 1])]
             upto == CHOOSE f : f = body(f)
             F == Concats(bs)
  <1>1. Capacity \in Nat /\ \A n \in 1..Capacity : n - 1 \in Buckets /\ bs[n - 1] \in Seq(Nodes)
    BY KvAssumption DEF Buckets, Tables
  <1>2. /\ F \in [1..Capacity -> [Seq(Nodes) -> Seq(Nodes)]]
        /\ \A n \in 1..Capacity : \A s \in Seq(Nodes) : F[n][s] = Cat(s, bs[n - 1])
    <2>1. \A n \in 1..Capacity : \A s \in Seq(Nodes) : Cat(s, bs[n - 1]) \in Seq(Nodes)
      BY <1>1, ConcatIn
    <2> QED  BY <2>1 DEF Concats
  <1> HIDE DEF F, e
  <1>0. e \in Seq(Nodes)
    BY DEF e
  <1>3. Loop(Seq(Nodes), e, Capacity, F)
    BY <1>0, <1>1, <1>2 DEF Loop
  <1>4. PICK g : LoopRun(Seq(Nodes), e, Capacity, F, g)
    BY <1>3, LoopRuns
  <1>5. g \in [0..Capacity -> Seq(Nodes)] /\ g[0] = e /\ \A n \in 1..Capacity : g[n] = F[n][g[n - 1]]
    BY <1>4 DEF LoopRun
  <1>6. ASSUME NEW n \in 1..Capacity PROVE g[n] = Cat(g[n - 1], bs[n - 1])
    <2>1. g[n - 1] \in Seq(Nodes)
      BY <1>1, <1>5
    <2> QED  BY <2>1, <1>2, <1>5
  <1>7. g = body(g)
    BY <1>1, <1>5, <1>6
  <1>8. Records(bs) = upto[Capacity]
    BY DEF Records, Cat, e
  <1> HIDE DEF body
  <1>9. upto = body(upto)
    BY <1>7
  <1> HIDE DEF upto
  <1>10. LoopEqs(Seq(Nodes), e, Capacity, F, upto)
    <2>1. body(upto)[0] = e /\ body(upto) = [n \in 0..Capacity |-> body(upto)[n]]
      BY <1>1 DEF body
    <2>2. \A n \in 1..Capacity : body(upto)[n] = Cat(upto[n - 1], bs[n - 1])
      BY <1>1 DEF body
    <2>3. \A n \in 1..Capacity : upto[n] = Cat(upto[n - 1], bs[n - 1])
      BY <1>9, <2>2
    <2>4. \A n \in 1..Capacity : upto[n - 1] \in Seq(Nodes) => upto[n] = F[n][upto[n - 1]]
      BY <1>2, <2>3
    <2>5. upto = [n \in 0..Capacity |-> upto[n]] /\ upto[0] = e
      BY <1>9, <2>1, Zenon
    <2> QED  BY <1>3, <2>4, <2>5, Zenon DEF LoopEqs
  <1>11. LoopRun(Seq(Nodes), e, Capacity, F, upto)
    BY <1>10, LoopIs
  <1> QED  BY <1>8, <1>11 DEF F, e

\* kvdb_close writes the nodes of the table and nothing else.
LEMMA RecordsAre ==
    ASSUME NEW bs \in Tables
    PROVE  /\ Records(bs) \in Seq(Nodes)
           /\ \A r : In(r, Records(bs)) <=> \E b \in Buckets : In(r, bs[b])
  <1>1. Capacity \in Nat /\ \A n \in 1..Capacity : n - 1 \in Buckets /\ bs[n - 1] \in Seq(Nodes)
    BY KvAssumption DEF Buckets, Tables
  <1>2. PICK g : LoopRun(Seq(Nodes), <<>>, Capacity, Concats(bs), g) /\ Records(bs) = g[Capacity]
    BY RecordsRun
  <1>3. /\ g \in [0..Capacity -> Seq(Nodes)] /\ g[0] = <<>>
        /\ \A n \in 1..Capacity : g[n] = Concats(bs)[n][g[n - 1]]
    BY <1>2 DEF LoopRun
  <1>4. ASSUME NEW n \in 1..Capacity
        PROVE  g[n - 1] \in Seq(Nodes) /\ g[n] = Cat(g[n - 1], bs[n - 1])
    <2>1. g[n - 1] \in Seq(Nodes)
      BY <1>1, <1>3
    <2>2. Concats(bs)[n] = [s \in Seq(Nodes) |-> Cat(s, bs[n - 1])]
      BY DEF Concats
    <2> QED  BY <2>1, <2>2, <1>3
  <1> DEFINE Good(n) == \A r : In(r, g[n]) <=> \E b \in 0..(n - 1) : In(r, bs[b])
             S == {n \in 0..Capacity : Good(n)}
  <1>5. 0 \in S
    <2>1. \A r : ~In(r, g[0])
      BY <1>3 DEF In
    <2> QED  BY <2>1, <1>1
  <1>6. ASSUME NEW n \in 1..Capacity, n - 1 \in S PROVE n \in S
    <2>1. \A r : In(r, g[n - 1]) <=> \E b \in 0..((n - 1) - 1) : In(r, bs[b])
      BY <1>6
    <2>2. \A r : In(r, g[n]) <=> In(r, g[n - 1]) \/ In(r, bs[n - 1])
      BY <1>1, <1>4, ConcatIn
    <2>3. \A b : b \in 0..(n - 1) <=> b \in 0..((n - 1) - 1) \/ b = n - 1
      BY <1>1
    <2>4. Good(n)
      BY <2>1, <2>2, <2>3
    <2> HIDE DEF Good
    <2> QED  BY <2>4
  <1> HIDE DEF Good
  <1>7. Capacity \in S
    <2> HIDE DEF S
    <2>1. Inductive(Capacity, S)
      BY <1>1, <1>5, <1>6 DEF Inductive
    <2>2. Capacity \in 0..Capacity
      BY <1>1
    <2> QED  BY <2>1, <2>2, UpTo
  <1>8. \A r : In(r, g[Capacity]) <=> \E b \in Buckets : In(r, bs[b])
    BY <1>7 DEF Good, Buckets
  <1> QED  BY <1>1, <1>2, <1>3, <1>8

LEMMA RecordsMatch ==
    ASSUME NEW bs \in Tables
    PROVE  /\ \A i \in 1..Len(Records(bs)) :
                 Records(bs)[i].val = Contents(bs)[Records(bs)[i].key]
           /\ \A k \in Keys : Contents(bs)[k] # None => Listed(Records(bs), k)
  <1> DEFINE rs == Records(bs)
  <1>1. rs \in Seq(Nodes) /\ \A r : In(r, rs) <=> \E b \in Buckets : In(r, bs[b])
    BY RecordsAre
  <1> HIDE DEF rs
  <1>2. ASSUME NEW i \in 1..Len(rs) PROVE rs[i].val = Contents(bs)[rs[i].key]
    <2>0. In(rs[i], rs)
      BY DEF In
    <2>1. PICK b \in Buckets : In(rs[i], bs[b])
      BY <1>1, <2>0
    <2>2. PICK j \in 1..Len(bs[b]) : bs[b][j] = rs[i]
      BY <2>1 DEF In
    <2>3. /\ rs[i].key \in Keys /\ rs[i].val \in Values /\ rs[i] = Record(rs[i].key, rs[i].val)
          /\ Hash[rs[i].key] = b
      BY <2>2, Chains
    <2>4. Has(bs, rs[i].key, rs[i].val)
      BY <2>1, <2>3 DEF Has
    <2>5. hashmap_find(bs, rs[i].key) = rs[i].val
      BY <2>3, <2>4, FindIs
    <2> QED  BY <2>3, <2>5 DEF Contents
  <1>3. ASSUME NEW k \in Keys, Contents(bs)[k] # None PROVE Listed(rs, k)
    <2> DEFINE v == hashmap_find(bs, k)
    <2>1. v \in Values /\ Has(bs, k, v)
      BY <1>3, FindIs DEF Contents
    <2> HIDE DEF v
    <2>2. Hash[k] \in Buckets
      BY KvAssumption
    <2>3. In(Record(k, v), rs)
      BY <1>1, <2>1, <2>2 DEF Has
    <2>4. Record(k, v).key = k
      BY DEF Record
    <2> QED  BY <2>3, <2>4 DEF In, Listed
  <1> QED  BY <1>2, <1>3 DEF rs

(***************************************************************************)
(* The number of nodes is the number of keys.                              *)
(***************************************************************************)
LEMMA BoundFinite ==
    ASSUME NEW bs
    PROVE  IsFiniteSet(Bound(bs)) /\ Cardinality(Bound(bs)) \in Nat
  <1>1. IsFiniteSet(Keys) /\ Bound(bs) \subseteq Keys
    BY KvAssumption DEF Bound
  <1>2. IsFiniteSet(Bound(bs))
    BY <1>1, FS_Subset
  <1> QED  BY <1>2, FS_CardinalityType

LEMMA TableSize ==
    ASSUME NEW bs \in Tables
    PROVE  NodeCount(bs) = Cardinality(Bound(bs))
  <1> DEFINE S == Bound(bs)
             T == UNION {{b} \X DOMAIN bs[b] : b \in Buckets}
             f == [k \in S |-> <<Hash[k], Min(Places(bs, k))>>]
  <1>1. \A b \in Buckets : DOMAIN bs[b] = 1..Len(bs[b])
    BY Chains
  <1>2. \A k \in S : /\ k \in Keys /\ Hash[k] \in Buckets
                     /\ Min(Places(bs, k)) \in DOMAIN bs[Hash[k]]
                     /\ bs[Hash[k]][Min(Places(bs, k))].key = k
    BY <1>1, PlaceOf, FindIs DEF Bound
  <1>3. f \in [S -> T]
    <2>1. \A k \in S : <<Hash[k], Min(Places(bs, k))>> \in {Hash[k]} \X DOMAIN bs[Hash[k]]
      BY <1>2
    <2>2. \A k \in S : <<Hash[k], Min(Places(bs, k))>> \in T
      BY <1>2, <2>1
    <2> QED  BY <2>2
  <1>4. ASSUME NEW j \in S, NEW k \in S, f[j] = f[k] PROVE j = k
    <2>1. Hash[j] = Hash[k] /\ Min(Places(bs, j)) = Min(Places(bs, k))
      BY <1>4
    <2> QED  BY <1>2, <2>1
  <1>5. ASSUME NEW x \in T PROVE \E k \in S : f[k] = x
    <2>1. PICK b \in Buckets : x \in {b} \X DOMAIN bs[b]
      OBVIOUS
    <2>2. PICK i \in DOMAIN bs[b] : x = <<b, i>>
      BY <2>1
    <2> DEFINE k == bs[b][i].key
    <2>3. k \in Keys /\ Hash[k] = b
      BY <1>1, <2>2, Chains
    <2> HIDE DEF k
    <2>4. Places(bs, k) = {i} /\ Min(Places(bs, k)) = i
      BY <1>1, <2>2, <2>3, PlaceOf DEF k
    <2>5. k \in S
      BY <2>3, <2>4, FindIs DEF Bound
    <2>6. f[k] = x
      BY <2>2, <2>3, <2>4, <2>5
    <2> HIDE DEF f
    <2> QED  BY <2>5, <2>6
  <1> HIDE DEF f, S, T
  <1>6. f \in Bijection(S, T)
    BY <1>3, <1>4, <1>5 DEF Bijection, Injection, IsInjective, Surjection
  <1>7. ExistsBijection(S, T)
    BY <1>6 DEF ExistsBijection
  <1>8. IsFiniteSet(S)
    BY BoundFinite DEF S
  <1>9. Cardinality(T) = Cardinality(S)
    BY <1>7, <1>8, FS_Bijection
  <1> QED  BY <1>9 DEF S, T, NodeCount

LEMMA InsertSize ==
    ASSUME NEW bs \in Tables, NEW k \in Keys, NEW v \in Values
    PROVE  Cardinality(Bound(hashmap_insert(bs, k, v)))
              = IF Places(bs, k) = {} THEN Cardinality(Bound(bs)) + 1 ELSE Cardinality(Bound(bs))
  <1> DEFINE cs == hashmap_insert(bs, k, v)
  <1>1. cs \in Tables /\ \A j \in Keys : hashmap_find(cs, j) = IF j = k THEN v ELSE hashmap_find(bs, j)
    BY InsertNew, InsertOld
  <1> HIDE DEF cs
  <1>2. Bound(cs) = Bound(bs) \cup {k}
    BY <1>1, KvAssumption DEF Bound
  <1>3. k \in Bound(bs) <=> Places(bs, k) # {}
    BY FindIs DEF Bound
  <1>4. IsFiniteSet(Bound(bs))
    BY BoundFinite
  <1>5. Cardinality(Bound(bs) \cup {k})
           = IF k \in Bound(bs) THEN Cardinality(Bound(bs)) ELSE Cardinality(Bound(bs)) + 1
    <2> DEFINE B == Bound(bs)
    <2>1. IsFiniteSet(B)
      BY <1>4
    <2> HIDE DEF B
    <2>2. Cardinality(B \cup {k}) = IF k \in B THEN Cardinality(B) ELSE Cardinality(B) + 1
      BY <2>1, FS_AddElement, Zenon
    <2> QED  BY <2>2 DEF B
  <1> QED  BY <1>2, <1>3, <1>5 DEF cs

LEMMA RemoveSize ==
    ASSUME NEW bs \in Tables, NEW k \in Keys, Places(bs, k) # {}
    PROVE  Cardinality(Bound(hashmap_remove(bs, k))) = Cardinality(Bound(bs)) - 1
  <1> DEFINE cs == hashmap_remove(bs, k)
  <1>1. Contents(cs) = [Contents(bs) EXCEPT ![k] = None]
    BY Removal
  <1>2. \A j \in Keys : hashmap_find(cs, j) = IF j = k THEN None ELSE hashmap_find(bs, j)
    <2> HIDE DEF cs
    <2>1. DOMAIN Contents(bs) = Keys
      BY DEF Contents
    <2>2. \A j \in Keys : Contents(cs)[j] = IF j = k THEN None ELSE Contents(bs)[j]
      BY <1>1, <2>1
    <2> QED  BY <2>2 DEF Contents
  <1> HIDE DEF cs
  <1>3. Bound(cs) = Bound(bs) \ {k} /\ k \in Bound(bs)
    BY <1>2, FindIs DEF Bound
  <1>4. IsFiniteSet(Bound(bs))
    BY BoundFinite
  <1>5. Cardinality(Bound(bs) \ {k})
           = IF k \in Bound(bs) THEN Cardinality(Bound(bs)) - 1 ELSE Cardinality(Bound(bs))
    <2> DEFINE B == Bound(bs)
    <2>1. IsFiniteSet(B)
      BY <1>4
    <2> HIDE DEF B
    <2>2. Cardinality(B \ {k}) = IF k \in B THEN Cardinality(B) - 1 ELSE Cardinality(B)
      BY <2>1, FS_RemoveElement, Zenon
    <2> QED  BY <2>2 DEF B
  <1> QED  BY <1>3, <1>5 DEF cs

LEMMA EmptySize == Cardinality(Bound(Empty)) = 0
  <1>1. Bound(Empty) = {}
    BY EmptyTable DEF Bound
  <1> QED  BY <1>1, FS_EmptySet

(***************************************************************************)
(* Replaying the log.                                                      *)
(***************************************************************************)
Maps == [Keys -> Values \cup {None}]
Applies(es) == [n \in 1..Len(es) |-> [m \in Maps |-> Apply(m, es[n])]]
ReplayRun(m, es, g) == LoopRun(Maps, m, Len(es), Applies(es), g)

LEMMA ContentsMap ==
    ASSUME NEW bs \in Tables
    PROVE  Contents(bs) \in Maps
  <1>1. \A k \in Keys : hashmap_find(bs, k) \in Values \cup {None}
    BY FindIs
  <1> QED  BY <1>1 DEF Contents, Maps

LEMMA ReplayRuns ==
    ASSUME NEW m \in Maps, NEW es \in Seq(Entries)
    PROVE  /\ Len(es) \in Nat
           /\ \E g : ReplayRun(m, es, g) /\ Replay(m, es) = g[Len(es)]
  <1> DEFINE N == Len(es)
             body(f) == [n \in 0..N |-> IF n = 0 THEN m ELSE Apply(f[n - 1], es[n])]
             after == CHOOSE f : f = body(f)
             F == Applies(es)
  <1>1. N \in Nat /\ \A n \in 1..N : es[n] \in Entries
    OBVIOUS
  <1>2. ASSUME NEW x \in Maps, NEW e \in Entries PROVE Apply(x, e) \in Maps
    <2>1. e.key \in Keys /\ e.val \in Values \cup {None}
      BY DEF Entries
    <2> QED  BY <2>1 DEF Apply, Maps
  <1>3. F \in [1..N -> [Maps -> Maps]] /\ \A n \in 1..N : \A x \in Maps : F[n][x] = Apply(x, es[n])
    BY <1>1, <1>2 DEF Applies
  <1>8. Replay(m, es) = after[N]
    BY DEF Replay
  <1> HIDE DEF F, N
  <1>4. Loop(Maps, m, N, F)
    BY <1>1, <1>3 DEF Loop
  <1>5. PICK g : LoopRun(Maps, m, N, F, g)
    BY <1>4, LoopRuns
  <1>6. g \in [0..N -> Maps] /\ g[0] = m /\ \A n \in 1..N : g[n] = F[n][g[n - 1]]
    BY <1>5 DEF LoopRun
  <1>7. g = body(g)
    <2>1. \A n \in 1..N : g[n - 1] \in Maps
      BY <1>1, <1>6
    <2>2. \A n \in 1..N : g[n] = Apply(g[n - 1], es[n])
      BY <2>1, <1>3, <1>6
    <2> QED  BY <1>1, <1>6, <2>2
  <1> HIDE DEF body
  <1>9. after = body(after)
    BY <1>7
  <1> HIDE DEF after
  <1>10. LoopEqs(Maps, m, N, F, after)
    <2>1. body(after)[0] = m /\ body(after) = [n \in 0..N |-> body(after)[n]]
      BY <1>1 DEF body
    <2>2. \A n \in 1..N : body(after)[n] = Apply(after[n - 1], es[n])
      BY <1>1 DEF body
    <2>3. \A n \in 1..N : after[n] = Apply(after[n - 1], es[n])
      BY <1>9, <2>2
    <2>4. \A n \in 1..N : after[n - 1] \in Maps => after[n] = F[n][after[n - 1]]
      BY <1>3, <2>3
    <2>5. after = [n \in 0..N |-> after[n]] /\ after[0] = m
      BY <1>9, <2>1, Zenon
    <2> QED  BY <1>4, <2>4, <2>5, Zenon DEF LoopEqs
  <1>11. LoopRun(Maps, m, N, F, after)
    BY <1>10, LoopIs
  <1> QED  BY <1>1, <1>8, <1>11 DEF ReplayRun, F, N

LEMMA ReplayNothing ==
    ASSUME NEW m \in Maps
    PROVE  Replay(m, <<>>) = m
  <1> DEFINE es == <<>>
  <1>1. es \in Seq(Entries)
    OBVIOUS
  <1>2. Len(es) = 0
    OBVIOUS
  <1> HIDE DEF es
  <1>3. PICK g : ReplayRun(m, es, g) /\ Replay(m, es) = g[Len(es)]
    BY <1>1, ReplayRuns, Zenon
  <1>4. g[0] = m
    BY <1>3 DEF ReplayRun, LoopRun
  <1>5. Replay(m, es) = m
    BY <1>2, <1>3, <1>4
  <1> QED  BY <1>5 DEF es

\* One entry more is one change more.
LEMMA ReplayAppend ==
    ASSUME NEW m \in Maps, NEW es \in Seq(Entries), NEW e \in Entries
    PROVE  Replay(m, Append(es, e)) = Apply(Replay(m, es), e)
  <1> DEFINE N == Len(es)
             long == Append(es, e)
  <1>1. /\ long \in Seq(Entries) /\ N \in Nat /\ Len(long) = N + 1 /\ long[N + 1] = e
        /\ \A n \in 1..N : n \in 1..(N + 1) /\ long[n] = es[n]
    OBVIOUS
  <1>2. PICK g : ReplayRun(m, es, g) /\ Replay(m, es) = g[N]
    BY ReplayRuns
  <1> HIDE DEF long
  <1>3. PICK h : ReplayRun(m, long, h) /\ Replay(m, long) = h[Len(long)]
    BY <1>1, ReplayRuns
  <1> HIDE DEF N
  <1>4. LoopRun(Maps, m, N, Applies(es), g)
    BY <1>2 DEF ReplayRun, N
  <1>5. LoopRun(Maps, m, N + 1, Applies(long), h)
    BY <1>1, <1>3 DEF ReplayRun
  <1>6. ASSUME NEW n \in 1..N PROVE Applies(es)[n] = Applies(long)[n]
    <2>1. Applies(es)[n] = [x \in Maps |-> Apply(x, es[n])]
      BY DEF Applies, N
    <2>2. n \in 1..Len(long) /\ long[n] = es[n]
      BY <1>1
    <2>3. Applies(long)[n] = [x \in Maps |-> Apply(x, long[n])]
      BY <2>2 DEF Applies
    <2> QED  BY <2>1, <2>2, <2>3
  <1>7. g[N] = h[N]
    <2>1. N + 1 \in Nat /\ N <= N + 1
      BY <1>1
    <2> QED  BY <1>1, <1>4, <1>5, <1>6, <2>1, LoopLonger
  <1>8. h[N + 1] = Applies(long)[N + 1][h[N]] /\ h[N] \in Maps
    BY <1>1, <1>5 DEF LoopRun
  <1>9. Applies(long)[N + 1] = [x \in Maps |-> Apply(x, long[N + 1])]
    <2>1. N + 1 \in 1..Len(long)
      BY <1>1
    <2> QED  BY <2>1 DEF Applies
  <1>10. Replay(m, long) = Apply(Replay(m, es), e)
    BY <1>1, <1>2, <1>3, <1>7, <1>8, <1>9
  <1> QED  BY <1>10 DEF long

LEMMA EmptyFile == <<>> \in Seq(Nodes) /\ \A f \in Seq(Nodes) : f # None
  BY KvAssumption

(***************************************************************************)
(* The invariant is inductive.                                             *)
(***************************************************************************)
LEMMA InitIInv == Init => IInv
  <1> SUFFICES ASSUME Init PROVE IInv
    OBVIOUS
  <1> USE DEF Init
  <1>1. buckets \in Tables /\ size = Cardinality(Bound(buckets))
    BY EmptyTable, EmptySize
  <1>2. Types
    BY <1>1 DEF Types
  <1> QED  BY <1>2 DEF IInv, Calls, Quiet, Closed, Readonly, Saving

\* Steps that leave the handle and the file alone.
LEMMA CallSteps ==
    ASSUME IInv, UNCHANGED db,
           phase = "open" \/ UNCHANGED pc,
           pc' \in [Threads -> {"idle", "log", "read", "write"}]
    PROVE  IInv'
  <1> USE DEF db
  <1>1. Types'
    BY DEF IInv, Types
  <1>2. Calls'
    BY DEF IInv, Calls, Quiet
  <1>3. Closed' /\ Readonly'
    BY DEF IInv, Closed, Readonly
  <1>4. Saving'
    BY DEF IInv, Saving
  <1> QED  BY <1>1, <1>2, <1>3, <1>4 DEF IInv

\* kvdb_set, kvdb_delete and kvdb_clear change the table of an open handle.
LEMMA TableSteps ==
    ASSUME IInv, phase = "open", mode # "ro",
           buckets' \in Tables, size' = Cardinality(Bound(buckets')),
           UNCHANGED <<phase, mode, data, todo, before>>,
           pc' \in [Threads -> {"idle", "log", "read", "write"}]
    PROVE  IInv'
  <1>1. Types'
    BY DEF IInv, Types
  <1>2. Calls' /\ Closed' /\ Readonly' /\ Saving'
    BY DEF IInv, Calls, Closed, Readonly, Saving
  <1> QED  BY <1>1, <1>2 DEF IInv

\* kvdb_close has released the handle, or the process is gone.
LEMMA ReleaseSteps ==
    ASSUME IInv, Released, UNCHANGED <<mode, data, before>>, todo' \in Seq(Nodes),
           \/ Quiet /\ UNCHANGED pc
           \/ pc' = [t \in Threads |-> "idle"]
    PROVE  IInv'
  <1> USE DEF Released
  <1>1. buckets' \in Tables /\ size' = Cardinality(Bound(buckets'))
    BY EmptyTable, EmptySize
  <1>2. pc' \in [Threads -> {"idle", "log", "read", "write"}] /\ Quiet'
    BY DEF IInv, Types, Quiet
  <1>3. Types'
    BY <1>1, <1>2 DEF IInv, Types
  <1>4. Calls' /\ Closed' /\ Readonly' /\ Saving'
    BY <1>2 DEF IInv, Calls, Closed, Readonly, Saving
  <1> QED  BY <1>3, <1>4 DEF IInv

LEMMA OpenStep ==
    ASSUME IInv, NEW m \in {"rw", "ro", "create"}, Open(m)
    PROVE  IInv'
  <1>1. data' \in Seq(Nodes) /\ data' # None
    <2>1. data \in Seq(Nodes) \/ data = None
      BY DEF IInv, Types
    <2>2. data' = <<>> \/ (data # None /\ data' = data)
      BY DEF Open
    <2> QED  BY <2>1, <2>2, EmptyFile, Zenon
  <1>2. buckets' \in Tables
    <2>1. buckets' = Load(data')
      BY DEF Open
    <2> QED  BY <1>1, <2>1, LoadTable
  <1>3. size' = Cardinality(Bound(buckets'))
    BY <1>2, TableSize DEF Open
  <1>4. Types'
    BY <1>1, <1>2, <1>3 DEF IInv, Types, Open
  <1>5. Calls' /\ Closed' /\ Readonly' /\ Saving'
    BY <1>1 DEF IInv, Calls, Closed, Readonly, Saving, Open
  <1> QED  BY <1>4, <1>5 DEF IInv

LEMMA TruncateStep ==
    ASSUME IInv, CloseTruncate
    PROVE  IInv'
  <1> USE DEF CloseTruncate
  <1>1. buckets \in Tables
    BY DEF IInv, Types
  <1>2. todo' \in Seq(Nodes)
    BY <1>1, RecordsAre
  <1>3. data' \in Seq(Nodes) /\ data' # None
    BY EmptyFile, Zenon
  <1>4. Types'
    <2>1. before' \in Seq(Nodes) \cup {None} /\ UNCHANGED pc /\ phase' = "closing"
      BY DEF IInv, Types, stat
    <2>2. UNCHANGED <<mode, buckets, size>>
      OBVIOUS
    <2> QED  BY <1>2, <1>3, <2>1, <2>2 DEF IInv, Types
  <1>5. Calls' /\ Closed' /\ Readonly'
    BY DEF IInv, Calls, Closed, Readonly, stat, Quiet
  <1>6. Saving'
    <2>2. \A k \in Keys : Contents(Load(data'))[k] = None
      BY EmptyTable, LoadEmpty DEF Contents
    <2>3. \A i \in 1..Len(todo') : todo'[i].val = Contents(buckets)[todo'[i].key]
      BY <1>1, RecordsMatch
    <2>4. \A k \in Keys : Contents(buckets)[k] # None => Listed(todo', k)
      BY <1>1, RecordsMatch
    <2> QED  BY <1>3, <2>2, <2>3, <2>4 DEF Saving
  <1> QED  BY <1>4, <1>5, <1>6 DEF IInv

LEMMA WriteStep ==
    ASSUME IInv, CloseWrite
    PROVE  IInv'
  <1> USE DEF CloseWrite
  <1> DEFINE r == Head(todo)
  <1>1. data \in Seq(Nodes) /\ todo \in Seq(Nodes) /\ buckets \in Tables
    BY DEF IInv, Types, Saving
  <1>2. /\ Len(todo) \in Nat /\ 1 \in 1..Len(todo) /\ r = todo[1] /\ r \in Nodes
        /\ todo' \in Seq(Nodes) /\ Len(todo') = Len(todo) - 1
        /\ \A i \in 1..Len(todo') : i + 1 \in 1..Len(todo) /\ todo'[i] = todo[i + 1]
    BY <1>1
  <1>3. r.key \in Keys /\ r.val \in Values
    BY <1>2 DEF Nodes
  <1>4. data' \in Seq(Nodes) /\ data' # None
    BY <1>1, <1>2, KvAssumption
  <1>5. Types'
    <2>1. UNCHANGED <<phase, mode, buckets, size, before, pc>>
      BY DEF stat
    <2> QED  BY <1>2, <1>4, <2>1 DEF IInv, Types
  <1>6. Calls' /\ Closed' /\ Readonly'
    BY DEF IInv, Calls, Closed, Readonly, stat, Quiet
  <1>7. /\ \A i \in 1..Len(todo) : todo[i].val = Contents(buckets)[todo[i].key]
        /\ \A k \in Keys :
              \/ Contents(Load(data))[k] = Contents(buckets)[k]
              \/ Contents(Load(data))[k] = None /\ Listed(todo, k)
    BY DEF IInv, Saving
  <1>8. r.val = Contents(buckets)[r.key]
    BY <1>2, <1>7
  <1> HIDE DEF r
  <1>9. \A k \in Keys : Contents(Load(data'))[k] = IF k = r.key THEN r.val ELSE Contents(Load(data))[k]
    <2>1. Load(data') = hashmap_insert(Load(data), r.key, r.val)
      BY <1>1, <1>2, LoadAppend DEF r
    <2>2. Load(data) \in Tables
      BY <1>1, LoadTable
    <2>3. Contents(Load(data')) = [Contents(Load(data)) EXCEPT ![r.key] = r.val]
      BY <1>3, <2>1, <2>2, Insertion
    <2>4. DOMAIN Contents(Load(data)) = Keys
      BY DEF Contents
    <2> QED  BY <2>3, <2>4
  <1>10. ASSUME NEW k \in Keys, k # r.key, Listed(todo, k) PROVE Listed(todo', k)
    <2>1. PICK i \in 1..Len(todo) : todo[i].key = k
      BY <1>10 DEF Listed
    <2>2. i # 1
      BY <1>2, <1>10, <2>1
    <2>3. i - 1 \in 1..Len(todo') /\ (i - 1) + 1 = i
      BY <1>2, <2>2
    <2>4. todo'[i - 1] = todo[i]
      BY <1>2, <2>3
    <2>5. todo'[i - 1].key = k
      BY <2>1, <2>4, Zenon
    <2> QED  BY <2>3, <2>5, Zenon DEF Listed
  <1>11. \A i \in 1..Len(todo') : todo'[i].val = Contents(buckets)[todo'[i].key]
    BY <1>2, <1>7
  <1>12. \A k \in Keys :
            \/ Contents(Load(data'))[k] = Contents(buckets)[k]
            \/ Contents(Load(data'))[k] = None /\ Listed(todo', k)
    BY <1>7, <1>8, <1>9, <1>10
  <1>13. Saving'
    BY <1>4, <1>11, <1>12 DEF Saving
  <1> QED  BY <1>5, <1>6, <1>13 DEF IInv

LEMMA SetStep ==
    ASSUME IInv, NEW t \in Threads, NEW k \in Keys, NEW v \in Values, Set(t, k, v)
    PROVE  IInv'
  <1>1. buckets \in Tables /\ size = Cardinality(Bound(buckets))
    BY DEF IInv, Types
  <1>2. buckets' = hashmap_insert(buckets, k, v) /\ buckets' \in Tables
    BY <1>1, Insertion DEF Set
  <1>3. size' = Cardinality(Bound(buckets'))
    BY <1>1, <1>2, InsertSize DEF Set
  <1>4. pc' \in [Threads -> {"idle", "log", "read", "write"}]
    BY DEF Set, ThenLog, IInv, Types
  <1>5. phase = "open" /\ mode # "ro" /\ UNCHANGED <<phase, mode, data, todo, before>>
    BY DEF Set, Writable, ThenLog
  <1> QED  BY <1>2, <1>3, <1>4, <1>5, TableSteps

LEMMA DeleteStep ==
    ASSUME IInv, NEW t \in Threads, NEW k \in Keys, Delete(t, k)
    PROVE  IInv'
  <1>1. buckets \in Tables /\ size = Cardinality(Bound(buckets)) /\ Places(buckets, k) # {}
    BY DEF IInv, Types, Delete
  <1>2. buckets' = hashmap_remove(buckets, k) /\ buckets' \in Tables
    BY <1>1, Removal DEF Delete
  <1>3. size' = Cardinality(Bound(buckets'))
    BY <1>1, <1>2, RemoveSize DEF Delete
  <1>4. pc' \in [Threads -> {"idle", "log", "read", "write"}]
    BY DEF Delete, ThenLog, IInv, Types
  <1>5. phase = "open" /\ mode # "ro" /\ UNCHANGED <<phase, mode, data, todo, before>>
    BY DEF Delete, Writable, ThenLog
  <1> QED  BY <1>2, <1>3, <1>4, <1>5, TableSteps

LEMMA ClearStep ==
    ASSUME IInv, NEW t \in Threads, Clear(t)
    PROVE  IInv'
  <1>1. buckets' \in Tables /\ size' = Cardinality(Bound(buckets'))
    BY EmptyTable, EmptySize DEF Clear
  <1>2. pc' \in [Threads -> {"idle", "log", "read", "write"}]
    BY DEF Clear, stat, IInv, Types
  <1>3. phase = "open" /\ mode # "ro" /\ UNCHANGED <<phase, mode, data, todo, before>>
    BY DEF Clear, Writable
  <1> QED  BY <1>1, <1>2, <1>3, TableSteps

LEMMA NextIInv == IInv /\ [Next]_vars => IInv'
  <1> SUFFICES ASSUME IInv, [Next]_vars PROVE IInv'
    OBVIOUS
  <1>1. CASE \E m \in {"rw", "ro", "create"} : Open(m)
    BY <1>1, OpenStep
  <1>2. CASE CloseReadonly \/ CloseFails \/ CloseDone
    <2>1. todo' \in Seq(Nodes) /\ Quiet /\ UNCHANGED pc
      BY <1>2 DEF CloseReadonly, CloseFails, CloseDone, stat, IInv, Types, Calls
    <2> QED  BY <1>2, <2>1, ReleaseSteps DEF CloseReadonly, CloseFails, CloseDone
  <1>3. CASE CloseTruncate
    BY <1>3, TruncateStep
  <1>4. CASE CloseWrite
    BY <1>4, WriteStep
  <1>5. CASE Crash
    <2>1. todo' \in Seq(Nodes)
      BY <1>5 DEF Crash
    <2> QED  BY <1>5, <2>1, ReleaseSteps DEF Crash
  <1>6. ASSUME NEW t \in Threads, \E k \in Keys : Delete(t, k) \/ \E v \in Values : Set(t, k, v)
        PROVE  IInv'
    BY <1>6, DeleteStep, SetStep
  <1>7. ASSUME NEW t \in Threads, Clear(t) PROVE IInv'
    BY <1>7, ClearStep
  <1>8. ASSUME NEW t \in Threads, LogAppend(t) \/ CountRead(t) \/ CountWrite(t) PROVE IInv'
    <2>1. /\ UNCHANGED db /\ phase = "open"
          /\ pc' \in [Threads -> {"idle", "log", "read", "write"}]
      BY <1>8 DEF LogAppend, CountRead, CountWrite, IInv, Types
    <2> QED  BY <2>1, CallSteps
  <1>9. CASE UNCHANGED vars
    <2>1. UNCHANGED db /\ UNCHANGED pc /\ pc' \in [Threads -> {"idle", "log", "read", "write"}]
      BY <1>9 DEF vars, stat, IInv, Types
    <2> QED  BY <2>1, CallSteps
  <1> QED  BY <1>1, <1>2, <1>3, <1>4, <1>5, <1>6, <1>7, <1>8, <1>9 DEF Next

\* Through opens, sets, deletes, clears, closes and crashes, the table is well
\* formed, size counts its keys, a handle opened for reading still holds what
\* was loaded, and what kvdb_close has written and has to write is the table.
THEOREM KvInvariant == Spec => []IInv
  BY InitIInv, NextIInv, PTL DEF Spec

\* The hash table of hashmap_insert and hashmap_remove stays a map, and size,
\* which kvdb_count returns, is the number of its keys.
THEOREM HashTableIsMap == Spec => []TableIsMap
  <1>1. IInv => TableIsMap
    <2> SUFFICES ASSUME IInv PROVE TableIsMap
      OBVIOUS
    <2>0. buckets \in Tables
      BY DEF IInv, Types
    <2>1. ASSUME NEW k \in Keys PROVE Cardinality(Places(buckets, k)) <= 1
      <3>1. CASE Places(buckets, k) = {}
        <4>1. Cardinality({}) = 0
          BY FS_EmptySet
        <4> QED  BY <3>1, <4>1
      <3>2. CASE Places(buckets, k) # {}
        <4> DEFINE p == Min(Places(buckets, k))
        <4>1. Places(buckets, k) = {p}
          BY <2>0, <3>2, PlaceOf
        <4> HIDE DEF p
        <4>2. Cardinality({p}) = 1
          BY FS_Singleton, Zenon
        <4> QED  BY <4>1, <4>2
      <3> QED  BY <3>1, <3>2
    <2>2. \A b \in Buckets : \A i \in DOMAIN buckets[b] : Hash[buckets[b][i].key] = b
      BY <2>0, Chains
    <2>3. size = Cardinality({k \in Keys : hashmap_find(buckets, k) # None})
      BY DEF IInv, Types, Bound
    <2> QED  BY <2>1, <2>2, <2>3 DEF TableIsMap
  <1> QED  BY <1>1, KvInvariant, PTL

\* Whatever ends kvdb_close, the file it leaves holds no value but the current
\* ones, and all of them once the last record was written.
THEOREM CloseSavesOnlyCurrent == Spec => SavesOnlyCurrent
  <1> DEFINE Saved == phase = "closing" /\ phase' = "closed" =>
                         \A k \in Keys :
                            \/ Contents(Load(data'))[k] = Contents(buckets)[k]
                            \/ todo # <<>> /\ Contents(Load(data'))[k] = None
  <1>1. IInv /\ [Next]_vars => [Saved]_vars
    <2> SUFFICES ASSUME IInv, Next, phase = "closing", phase' = "closed", NEW k \in Keys
                 PROVE  \/ Contents(Load(data'))[k] = Contents(buckets)[k]
                        \/ todo # <<>> /\ Contents(Load(data'))[k] = None
      BY Zenon
    <2>1. CloseDone \/ Crash
      BY Zenon DEF Next, Open, CloseReadonly, CloseTruncate, CloseFails, CloseWrite,
                   Set, Delete, Clear, Writable, LogAppend, CountRead, CountWrite
    <2>2. data' = data
      BY <2>1 DEF CloseDone, Crash
    <2>3. \/ Contents(Load(data))[k] = Contents(buckets)[k]
          \/ Contents(Load(data))[k] = None /\ Listed(todo, k)
      BY DEF IInv, Saving
    <2>4. Listed(todo, k) => todo # <<>>
      BY DEF Listed
    <2> QED  BY <2>2, <2>3, <2>4
  <1> QED  BY <1>1, KvInvariant, PTL DEF Spec, SavesOnlyCurrent

(***************************************************************************)
(* The log.                                                                *)
(***************************************************************************)
\* One thread uses the handle and never calls kvdb_clear.
OneWriter == ~Clears /\ \A s, t \in Threads : s = t

LEMMA InitLogged == Init => Logged
  <1> SUFFICES ASSUME Init PROVE Logged
    OBVIOUS
  <1>1. base \in Maps
    BY EmptyTable, ContentsMap DEF Init
  <1>2. wal \in Seq(Entries)
    BY DEF Init
  <1>3. entry \in [Threads -> Entries \cup {NoEntry}]
    BY DEF Init
  <1> QED  BY <1>1, <1>2, <1>3 DEF Logged, Init, Maps

\* kvdb_set and kvdb_delete change the table as their log entry says.
LEMMA LoggedChange ==
    ASSUME OneWriter, Logged, NEW t \in Threads, NEW e \in Entries,
           Writable(t), pc \in [Threads -> {"idle", "log", "read", "write"}],
           ThenLog(t, e), Apply(Contents(buckets), e) = Contents(buckets')
    PROVE  Logged'
  <1>1. \A u \in Threads : u = t
    BY DEF OneWriter
  <1>2. pc[t] = "idle" /\ phase = "open"
    BY DEF Writable
  <1>3. Replay(base, wal) = Contents(buckets)
    BY <1>1, <1>2 DEF Logged
  <1>4. /\ pc'[t] = "log" /\ entry'[t] = e /\ base' = base /\ wal' = wal
        /\ entry' \in [Threads -> Entries \cup {NoEntry}]
    BY DEF ThenLog, log, Logged
  <1>5. Apply(Replay(base', wal'), entry'[t]) = Contents(buckets')
    BY <1>3, <1>4
  <1> QED  BY <1>1, <1>4, <1>5 DEF Logged

\* Steps after which the handle is not open.
LEMMA LoggedClosed ==
    ASSUME Logged, phase' # "open", UNCHANGED log,
           \/ UNCHANGED <<pc, entry>>
           \/ pc' = [t \in Threads |-> "idle"] /\ entry' = [t \in Threads |-> NoEntry]
    PROVE  Logged'
  <1>1. UNCHANGED <<base, wal>>
    BY DEF log
  <1>2. entry' \in [Threads -> Entries \cup {NoEntry}]
    BY DEF Logged
  <1>3. \A t \in Threads : pc'[t] = "log" => entry'[t] \in Entries
    BY DEF Logged
  <1> QED  BY <1>1, <1>2, <1>3 DEF Logged

LEMMA NextLogged == OneWriter /\ IInv /\ Logged /\ [Next]_vars => Logged'
  <1> SUFFICES ASSUME OneWriter, IInv, Logged, [Next]_vars PROVE Logged'
    OBVIOUS
  <1>0. buckets \in Tables /\ pc \in [Threads -> {"idle", "log", "read", "write"}]
    BY DEF IInv, Types
  <1>a. base \in Maps /\ wal \in Seq(Entries)
    BY DEF Logged, Maps
  <1>1. ASSUME NEW m \in {"rw", "ro", "create"}, Open(m) PROVE Logged'
    <2>1. buckets' \in Tables
      BY <1>1, OpenStep DEF IInv, Types
    <2>2. base' = Contents(buckets') /\ base' \in Maps /\ wal' = <<>>
      BY <1>1, <2>1, ContentsMap DEF Open
    <2>3. Replay(base', wal') = Contents(buckets')
      BY <2>2, ReplayNothing
    <2>4. UNCHANGED <<pc, entry>> /\ \A t \in Threads : pc[t] = "idle"
      BY <1>1 DEF Open, IInv, Calls, Quiet
    <2>5. wal' \in Seq(Entries)
      BY <2>2
    <2> QED  BY <2>2, <2>3, <2>4, <2>5 DEF Logged, Maps
  <1>2. CASE CloseReadonly \/ CloseTruncate \/ CloseFails \/ CloseWrite \/ CloseDone
    <2>1. phase' # "open" /\ UNCHANGED log /\ UNCHANGED <<pc, entry>>
      BY <1>2 DEF CloseReadonly, CloseTruncate, CloseFails, CloseWrite, CloseDone, Released, stat
    <2> QED  BY <2>1, LoggedClosed
  <1>3. CASE Crash
    BY <1>3, LoggedClosed DEF Crash, Released
  <1>4. ASSUME NEW t \in Threads, NEW k \in Keys, NEW v \in Values, Set(t, k, v) PROVE Logged'
    <2> DEFINE e == [op |-> "set", key |-> k, val |-> v]
    <2>1. Contents(buckets') = [Contents(buckets) EXCEPT ![k] = v]
      BY <1>0, <1>4, Insertion DEF Set
    <2>2. e \in Entries
      BY DEF Entries
    <2>3. Apply(Contents(buckets), e) = Contents(buckets')
      BY <2>1 DEF Apply
    <2>4. Writable(t) /\ ThenLog(t, e)
      BY <1>4 DEF Set
    <2> HIDE DEF e
    <2> QED  BY <1>0, <2>2, <2>3, <2>4, LoggedChange
  <1>5. ASSUME NEW t \in Threads, NEW k \in Keys, Delete(t, k) PROVE Logged'
    <2> DEFINE e == [op |-> "delete", key |-> k, val |-> None]
    <2>1. Contents(buckets') = [Contents(buckets) EXCEPT ![k] = None]
      BY <1>0, <1>5, Removal DEF Delete
    <2>2. e \in Entries
      BY DEF Entries
    <2>3. Apply(Contents(buckets), e) = Contents(buckets')
      BY <2>1 DEF Apply
    <2>4. Writable(t) /\ ThenLog(t, e)
      BY <1>5 DEF Delete
    <2> HIDE DEF e
    <2> QED  BY <1>0, <2>2, <2>3, <2>4, LoggedChange
  <1>6. ASSUME NEW t \in Threads, Clear(t) PROVE Logged'
    BY <1>6, Zenon DEF Clear, OneWriter
  <1>7. ASSUME NEW t \in Threads, LogAppend(t) PROVE Logged'
    <2>1. \A u \in Threads : u = t
      BY DEF OneWriter
    <2>2. pc[t] = "log" /\ phase = "open" /\ entry[t] \in Entries
      BY <1>7 DEF LogAppend, Logged
    <2>3. /\ wal' = Append(wal, entry[t]) /\ base' = base
          /\ buckets' = buckets /\ pc'[t] = "read"
          /\ entry' \in [Threads -> Entries \cup {NoEntry}]
      BY <1>0, <1>7 DEF LogAppend, db, Logged
    <2>4. Apply(Replay(base, wal), entry[t]) = Contents(buckets)
      BY <2>2 DEF Logged
    <2>5. Replay(base', wal') = Contents(buckets')
      BY <1>a, <2>2, <2>3, <2>4, ReplayAppend
    <2>6. wal' \in Seq(Entries)
      BY <1>a, <2>2, <2>3
    <2>7. \A u \in Threads : pc'[u] # "log"
      <3>1. pc'[t] # "log"
        BY <2>3
      <3> QED  BY <2>1, <3>1, Zenon
    <2> QED  BY <1>a, <2>3, <2>5, <2>6, <2>7 DEF Logged, Maps
  <1>8. ASSUME NEW t \in Threads, CountRead(t) \/ CountWrite(t) PROVE Logged'
    <2>1. \A u \in Threads : u = t
      BY DEF OneWriter
    <2>2. /\ pc[t] # "log" /\ pc'[t] # "log" /\ phase = "open"
          /\ UNCHANGED <<base, wal, buckets, entry, phase>>
      BY <1>0, <1>8 DEF CountRead, CountWrite, db, log
    <2>3. \A u \in Threads : pc[u] # "log" /\ pc'[u] # "log"
      BY <2>1, <2>2
    <2> QED  BY <2>2, <2>3 DEF Logged
  <1>9. CASE UNCHANGED vars
    BY <1>9 DEF vars, db, log, stat, Logged
  <1> QED  BY <1>1, <1>2, <1>3, <1>4, <1>5, <1>6, <1>7, <1>8, <1>9 DEF Next

\* With one thread and without kvdb_clear, whose changes are not logged, the
\* entries kvdb_set and kvdb_delete append tell what became of the table.
THEOREM LogTellsTruth == OneWriter => (Spec => []LogReplays)
  <1> SUFFICES ASSUME OneWriter PROVE Spec => []LogReplays
    OBVIOUS
  <1>1. Init => Logged
    BY InitLogged
  <1>2. IInv /\ Logged /\ [Next]_vars => Logged'
    BY NextLogged
  <1>3. Logged => LogReplays
    <2>1. Quiet => \A t \in Threads : pc[t] # "log"
      BY DEF Quiet
    <2> QED  BY <2>1 DEF Logged, LogReplays
  <1> QED  BY <1>1, <1>2, <1>3, KvInvariant, PTL DEF Spec

(***************************************************************************)
(* While nothing fails, the database implements KvMap.                     *)
(***************************************************************************)
\* The file a later kvdb_open is promised: the old one until kvdb_close is done.
kept == IF phase = "closing" THEN before ELSE data

\* The three variables of KvMap, under the refinement mapping.
LEMMA Mapping ==
    /\ Store!Init <=> /\ Contents(buckets) = Store!Nothing /\ Contents(Load(kept)) = Store!Nothing
                      /\ (phase # "closed") = FALSE
    /\ (UNCHANGED <<buckets, kept, phase>>) => UNCHANGED Store!mvars
  BY DEF Store!Init, Store!mvars, kept

LEMMA NothingStored == Contents(Empty) = Store!Nothing
  BY EmptyTable DEF Contents, Store!Nothing

LEMMA OpenMaps ==
    ASSUME IInv, NEW m \in {"rw", "ro", "create"}, Open(m)
    PROVE  Store!Open \/ Store!Create
  <1>1. phase = "closed" /\ phase' = "open" /\ kept = data /\ kept' = data'
    BY DEF Open, kept
  <1>2. buckets' = Load(data')
    BY DEF Open
  <1>3. CASE m = "create"
    <2>1. data' = <<>>
      BY <1>3 DEF Open
    <2>2. Contents(buckets') = Store!Nothing /\ Contents(Load(kept')) = Store!Nothing
      BY <1>1, <1>2, <2>1, LoadEmpty, NothingStored
    <2>3. Store!Create
      BY <1>1, <2>2 DEF Store!Create, kept
    <2> QED  BY <2>3
  <1>4. CASE m # "create"
    <2>1. Load(data') = Load(data)
      <3>1. data' = data \/ (data = None /\ data' = <<>>)
        BY <1>4 DEF Open
      <3> QED  BY <3>1, LoadEmpty
    <2>2. Contents(buckets') = Contents(Load(kept)) /\ Contents(Load(kept')) = Contents(Load(kept))
      BY <1>1, <1>2, <2>1
    <2>3. Store!Open
      BY <1>1, <2>2 DEF Store!Open, kept
    <2> QED  BY <2>3
  <1> QED  BY <1>3, <1>4

\* kvdb_close ends with the table in the kept.
LEMMA CloseMaps ==
    ASSUME IInv, phase # "closed", Released, UNCHANGED data,
           Contents(Load(data)) = Contents(buckets)
    PROVE  Store!Close
  <1>1. phase' = "closed" /\ kept' = data'
    BY DEF Released, kept
  <1>2. Contents(buckets') = Store!Nothing
    BY NothingStored DEF Released
  <1>3. Contents(Load(kept')) = Contents(buckets)
    BY <1>1
  <1> QED  BY <1>1, <1>2, <1>3 DEF Store!Close, kept

LEMMA NextMaps == ~Faults /\ IInv /\ [Next]_vars => [Store!Next]_Store!mvars
  <1> SUFFICES ASSUME ~Faults, IInv, [Next]_vars PROVE Store!Next \/ UNCHANGED Store!mvars
    OBVIOUS
  <1>0. buckets \in Tables
    BY DEF IInv, Types
  <1>1. ASSUME NEW m \in {"rw", "ro", "create"}, Open(m) PROVE Store!Next
    BY <1>1, OpenMaps DEF Store!Next
  <1>2. CASE CloseReadonly
    <2>1. Contents(Load(data)) = Contents(buckets)
      BY <1>2 DEF CloseReadonly, IInv, Readonly
    <2>2. phase # "closed" /\ Released /\ UNCHANGED data
      BY <1>2 DEF CloseReadonly
    <2> QED  BY <2>1, <2>2, CloseMaps DEF Store!Next
  <1>3. CASE CloseTruncate
    <2>1. UNCHANGED buckets /\ kept' = kept /\ phase # "closed" /\ phase' # "closed"
      BY <1>3 DEF CloseTruncate, kept
    <2> QED  BY <2>1 DEF Store!mvars, kept
  <1>4. CASE CloseWrite
    <2>1. UNCHANGED <<buckets, kept, phase>>
      BY <1>4 DEF CloseWrite, kept
    <2> QED  BY <2>1, Mapping
  <1>5. CASE CloseDone
    <2>1. phase = "closing" /\ todo = <<>> /\ Released /\ UNCHANGED data
      BY <1>5 DEF CloseDone
    <2>2. \A k \in Keys : ~Listed(todo, k)
      BY <2>1 DEF Listed
    <2>3. \A k \in Keys : Contents(Load(data))[k] = Contents(buckets)[k]
      BY <2>1, <2>2 DEF IInv, Saving
    <2>4. Contents(Load(data)) = Contents(buckets)
      BY <2>3 DEF Contents
    <2> QED  BY <2>1, <2>4, CloseMaps DEF Store!Next
  <1>6. CASE CloseFails \/ Crash
    BY <1>6 DEF CloseFails, Crash
  <1>7. ASSUME NEW t \in Threads, NEW k \in Keys, NEW v \in Values, Set(t, k, v) PROVE Store!Next
    <2>1. Contents(buckets') = [Contents(buckets) EXCEPT ![k] = v]
      BY <1>0, <1>7, Insertion DEF Set
    <2>2. phase = "open" /\ UNCHANGED <<phase, kept>>
      BY <1>7 DEF Set, Writable, ThenLog, kept
    <2>3. Store!Set(k, v)
      BY <2>1, <2>2 DEF Store!Set, kept
    <2> QED  BY <2>3 DEF Store!Next
  <1>8. ASSUME NEW t \in Threads, NEW k \in Keys, Delete(t, k) PROVE Store!Next
    <2>1. Contents(buckets') = [Contents(buckets) EXCEPT ![k] = None]
      BY <1>0, <1>8, Removal DEF Delete
    <2>2. phase = "open" /\ UNCHANGED <<phase, kept>>
      BY <1>8 DEF Delete, Writable, ThenLog, kept
    <2>3. Contents(buckets)[k] # None
      BY <1>0, <1>8, FindIs DEF Contents, Delete
    <2>4. Store!Delete(k)
      BY <2>1, <2>2, <2>3 DEF Store!Delete, kept
    <2> QED  BY <2>4 DEF Store!Next
  <1>9. ASSUME NEW t \in Threads, Clear(t) PROVE Store!Next
    <2>1. Contents(buckets') = Store!Nothing
      BY <1>9, NothingStored DEF Clear
    <2>2. phase = "open" /\ UNCHANGED <<phase, kept>>
      BY <1>9 DEF Clear, Writable, kept
    <2>3. Store!Clear
      BY <2>1, <2>2 DEF Store!Clear, kept
    <2> QED  BY <2>3 DEF Store!Next
  <1>10. ASSUME NEW t \in Threads, LogAppend(t) \/ CountRead(t) \/ CountWrite(t)
         PROVE  UNCHANGED Store!mvars
    <2>1. UNCHANGED <<buckets, kept, phase>>
      BY <1>10 DEF LogAppend, CountRead, CountWrite, db, kept
    <2> QED  BY <2>1, Mapping
  <1>11. CASE UNCHANGED vars
    <2>1. UNCHANGED <<buckets, kept, phase>>
      BY <1>11 DEF vars, db, kept
    <2> QED  BY <2>1, Mapping
  <1> QED  BY <1>1, <1>2, <1>3, <1>4, <1>5, <1>6, <1>7, <1>8, <1>9, <1>10, <1>11 DEF Next

\* While no process dies and fopen does not fail, the chains, the lock, the
\* data file and the record by record rewriting of kvdb_close implement a map
\* that is saved whole when it is closed and found again when it is opened.
THEOREM DatabaseIsMap == ~Faults => (Spec => ImplementsMap)
  <1> SUFFICES ASSUME ~Faults PROVE Spec => ImplementsMap
    OBVIOUS
  <1>1. Init => Store!Init
    <2> SUFFICES ASSUME Init PROVE Store!Init
      OBVIOUS
    <2>1. Contents(buckets) = Store!Nothing
      BY NothingStored DEF Init
    <2>2. kept = None
      BY DEF Init, kept
    <2>3. Contents(Load(kept)) = Store!Nothing
      BY <2>2, LoadEmpty, NothingStored
    <2> QED  BY <2>1, <2>3, Mapping DEF Init
  <1>2. IInv /\ [Next]_vars => [Store!Next]_Store!mvars
    BY NextMaps
  <1> QED  BY <1>1, <1>2, KvInvariant, PTL DEF Spec, ImplementsMap, Store!Spec
=============================================================================
