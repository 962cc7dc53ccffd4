------------------------- MODULE ModuleTableProofs --------------------------
(***************************************************************************)
(* Proof that the plug-in table matches what is initialised and open, for  *)
(* a table of any size and any names and libraries.                        *)
(***************************************************************************)
EXTENDS ModuleTable, FiniteSetTheorems, TLAPS

Entries == [name : Names \cup {""}, path : Paths \cup {""}, loaded : BOOLEAN]

TableTypes ==
    /\ count \in 0 .. MaxModules
    /\ modules \in [Slots -> Entries]
    /\ users \in [Paths -> Int]
    /\ lives \in [Names -> Int]

\* The entries before count, and no others, are in use.
Front == \A s \in Slots : s <= count => modules[s].loaded /\ modules[s].name \in Names /\ modules[s].path \in Paths

Distinct == \A s, t \in Slots : s <= count /\ t <= count /\ modules[s].name = modules[t].name => s = t

At(p) == {s \in Slots : s <= count /\ modules[s].path = p}
Has(n) == \E s \in Slots : s <= count /\ modules[s].name = n

UsersMatch == \A p \in Paths : users[p] = Cardinality(At(p))
LivesMatch == \A n \in Names : lives[n] = IF Has(n) THEN 1 ELSE 0

TableInv == TableTypes /\ Front /\ Distinct /\ UsersMatch /\ LivesMatch

\* The slots of a library are finitely many, and one more or one less changes their
\* number by one.
LEMMA SlotCount ==
    ASSUME MaxModules \in Nat, NEW S \in SUBSET Slots, NEW s \in Slots
    PROVE  /\ Cardinality(S) \in Int
           /\ s \notin S => Cardinality(S \cup {s}) = Cardinality(S) + 1
           /\ s \in S => Cardinality(S \ {s}) = Cardinality(S) - 1
  <1>1. IsFiniteSet(Slots)
    BY FS_Interval DEF Slots
  <1>2. IsFiniteSet(S)
    BY <1>1, FS_Subset
  <1>3. Cardinality(S) \in Nat
    BY <1>2, FS_CardinalityType
  <1>4. s \notin S => Cardinality(S \cup {s}) = Cardinality(S) + 1
    BY <1>2, FS_AddElement
  <1>5. s \in S => Cardinality(S \ {s}) = Cardinality(S) - 1
    BY <1>2, FS_RemoveElement
  <1> QED
    BY <1>3, <1>4, <1>5

\* module_manager_init leaves an empty table.
LEMMA TableInit == ASSUME MaxModules \in Nat, Init PROVE TableInv
  <1>1. TableTypes
    <2>1. Empty \in Entries
      BY DEF Empty, Entries
    <2> QED
      BY <2>1 DEF Init, TableTypes
  <1>5. Front /\ Distinct
    BY DEF Init, Front, Distinct, Slots
  <1>2. \A p \in Paths : At(p) = {}
    BY DEF Init, At, Slots
  <1>3. UsersMatch
    BY <1>2, FS_EmptySet DEF Init, UsersMatch
  <1>4. LivesMatch
    BY DEF Init, LivesMatch, Has, Slots
  <1> QED
    BY <1>1, <1>3, <1>4, <1>5 DEF TableInv

\* module_load adds one entry behind the others, with a name none of them has.
LEMMA LoadKeeps ==
    ASSUME MaxModules \in Nat, TableInv, NEW n \in Names, NEW p \in Paths, Load(n, p)
    PROVE  TableInv'
  <1> USE DEF TableInv, TableTypes
  <1>1. count + 1 \in Slots /\ count' = count + 1 /\ \A s \in Slots : s \in Int
    BY DEF Load, Slots
  <1>2. /\ modules' \in [Slots -> Entries]
        /\ modules'[count + 1] = [name |-> n, path |-> p, loaded |-> TRUE]
        /\ \A s \in Slots : s # count + 1 => modules'[s] = modules[s]
    BY <1>1 DEF Load, Entries
  <1>3. \A s \in Slots : s <= count => modules[s].name # n
    BY DEF Load, Front, InUse
  <1>4. \A s \in Slots : s <= count' <=> s <= count \/ s = count + 1
    BY <1>1
  <1>5. TableTypes'
    BY <1>1, <1>2 DEF Load, Slots
  <1>6. Front' /\ Distinct'
    BY <1>1, <1>2, <1>3, <1>4 DEF Front, Distinct
  <1>7. ASSUME NEW q \in Paths PROVE users'[q] = Cardinality(At(q)')
    <2>1. At(q) \in SUBSET Slots /\ count + 1 \notin At(q)
      BY <1>1 DEF At
    <2>2. CASE q = p
      <3>1. At(q)' = At(q) \cup {count + 1}
        BY <1>1, <1>2, <1>4, <2>2 DEF At
      <3>2. users'[q] = users[q] + 1
        BY <2>2 DEF Load
      <3> QED
        BY <1>1, <2>1, <3>1, <3>2, SlotCount DEF UsersMatch
    <2>3. CASE q # p
      <3>1. At(q)' = At(q)
        BY <1>1, <1>2, <1>4, <2>3 DEF At
      <3> QED
        BY <2>3, <3>1 DEF Load, UsersMatch
    <2> QED
      BY <2>2, <2>3
  <1>8. ASSUME NEW m \in Names PROVE lives'[m] = IF Has(m)' THEN 1 ELSE 0
    <2>1. CASE m = n
      <3>1. ~Has(m) /\ Has(m)'
        BY <1>1, <1>2, <1>3, <1>4, <2>1 DEF Has
      <3> QED
        BY <2>1, <3>1 DEF Load, LivesMatch
    <2>2. CASE m # n
      <3>1. Has(m)' <=> Has(m)
        BY <1>1, <1>2, <1>4, <2>2 DEF Has
      <3> QED
        BY <2>2, <3>1 DEF Load, LivesMatch
    <2> QED
      BY <2>1, <2>2
  <1> QED
    BY <1>5, <1>6, <1>7, <1>8 DEF UsersMatch, LivesMatch

\* module_unload moves the last entry into the gap and drops one from the end.
LEMMA UnloadKeeps ==
    ASSUME MaxModules \in Nat, TableInv, NEW s \in Slots, Unload(s)
    PROVE  TableInv'
  <1> USE DEF TableInv, TableTypes
  <1>1. /\ s <= count /\ count \in Slots /\ count' = count - 1
        /\ \A t \in Slots : t \in Int /\ (t <= count' <=> t <= count /\ t # count)
    BY DEF Unload, InUse, Slots
  <1>2. modules[s].name \in Names /\ modules[s].path \in Paths
    BY <1>1 DEF Front
  <1>3. /\ modules' \in [Slots -> Entries]
        /\ s # count => modules'[s] = modules[count]
        /\ \A t \in Slots : t # s /\ t # count => modules'[t] = modules[t]
    <2>1. CASE s < count
      <3>1. Empty \in Entries
        BY DEF Empty, Entries
      <3> QED
        BY <1>1, <2>1, <3>1 DEF Unload
    <2>2. CASE ~(s < count)
      <3>1. modules' = [modules EXCEPT ![s].loaded = FALSE] /\ s = count
        BY <1>1, <2>2 DEF Unload
      <3> QED
        BY <3>1 DEF Entries
    <2> QED
      BY <2>1, <2>2
  <1>4. TableTypes'
    <2>1. count' \in 0 .. MaxModules
      BY <1>1 DEF Slots
    <2>2. users' \in [Paths -> Int] /\ lives' \in [Names -> Int]
      BY <1>2 DEF Unload
    <2> QED
      BY <1>3, <2>1, <2>2
  <1>5. Front'
    BY <1>1, <1>3 DEF Front
  <1>6. Distinct'
    BY <1>1, <1>3 DEF Distinct
  <1>7. ASSUME NEW q \in Paths PROVE users'[q] = Cardinality(At(q)')
    <2>1. At(q) \in SUBSET Slots /\ users[q] = Cardinality(At(q))
      BY DEF At, UsersMatch
    <2>6. /\ At(q)' \in SUBSET Slots
          /\ \A t \in Slots : t \in At(q) <=> t <= count /\ modules[t].path = q
          /\ \A t \in Slots : t \in At(q)' <=> /\ t <= count /\ t # count
                                             /\ modules[IF t = s THEN count ELSE t].path = q
      <3>1. At(q)' = {t \in Slots : t <= count' /\ modules'[t].path = q}
        BY DEF At
      <3> QED
        BY <1>1, <1>3, <3>1 DEF At
    <2>2. CASE modules[s].path = q /\ modules[count].path = q
      <3>1. At(q)' = At(q) \ {count} /\ count \in At(q)
        <4>1. \A t \in Slots : t \in At(q)' <=> t \in At(q) /\ t # count
          BY <1>1, <2>2, <2>6
        <4>2. count \in At(q)
          BY <1>1, <2>2, <2>6
        <4>3. At(q) \in SUBSET Slots /\ At(q)' \in SUBSET Slots
          BY <2>1, <2>6
        <4> QED
          BY <4>1, <4>2, <4>3
      <3>2. users'[q] = users[q] - 1
        BY <2>2 DEF Unload
      <3> QED
        BY <1>1, <2>1, <3>1, <3>2, SlotCount
    <2>3. CASE modules[s].path = q /\ modules[count].path # q
      <3>1. At(q)' = At(q) \ {s} /\ s \in At(q)
        BY <1>1, <2>1, <2>6, <2>3
      <3>2. users'[q] = users[q] - 1
        BY <2>3 DEF Unload
      <3> QED
        BY <2>1, <3>1, <3>2, SlotCount
    <2>4. CASE modules[s].path # q /\ modules[count].path = q
      <3>1. At(q)' = (At(q) \ {count}) \cup {s} /\ count \in At(q) /\ s \notin At(q)
        <4>1. count \in At(q) /\ s \notin At(q) /\ s # count
          BY <1>1, <2>4, <2>6
        <4>2. \A t \in Slots : t \in At(q)' <=> (t \in At(q) /\ t # count) \/ t = s
          BY <1>1, <2>4, <2>6, <4>1
        <4> QED
          BY <2>1, <2>6, <4>1, <4>2
      <3>2. users'[q] = users[q]
        BY <2>4 DEF Unload
      <3>3. Cardinality(At(q) \ {count}) = Cardinality(At(q)) - 1 /\ Cardinality(At(q)) \in Int
        BY <1>1, <2>1, <3>1, SlotCount
      <3>4. Cardinality((At(q) \ {count}) \cup {s}) = Cardinality(At(q) \ {count}) + 1
        BY <2>1, <3>1, SlotCount
      <3> QED
        BY <2>1, <3>1, <3>2, <3>3, <3>4
    <2>5. CASE modules[s].path # q /\ modules[count].path # q
      <3>1. At(q)' = At(q)
        BY <1>1, <1>3, <2>5 DEF At
      <3> QED
        BY <2>1, <2>5, <3>1 DEF Unload
    <2> QED
      BY <2>2, <2>3, <2>4, <2>5
  <1>8. ASSUME NEW m \in Names PROVE lives'[m] = IF Has(m)' THEN 1 ELSE 0
    <2>1. CASE m = modules[s].name
      <3>1. Has(m)
        BY <1>1, <2>1 DEF Has
      <3>2. ASSUME NEW t \in Slots, t <= count', modules'[t].name = m PROVE FALSE
        BY <1>1, <1>3, <2>1, <3>2 DEF Distinct
      <3>3. ~Has(m)'
        BY <3>2 DEF Has
      <3> QED
        BY <2>1, <3>1, <3>3 DEF Unload, LivesMatch
    <2>2. CASE m # modules[s].name
      <3>1. ASSUME Has(m) PROVE Has(m)'
        <4>1. PICK t \in Slots : t <= count /\ modules[t].name = m
          BY <3>1 DEF Has
        <4>2. CASE t = count
          BY <1>1, <1>3, <2>2, <4>1, <4>2 DEF Has
        <4>3. CASE t # count
          BY <1>1, <1>3, <2>2, <4>1, <4>3 DEF Has
        <4> QED
          BY <4>2, <4>3
      <3>2. ASSUME Has(m)' PROVE Has(m)
        BY <1>1, <1>3, <3>2 DEF Has
      <3> QED
        BY <2>2, <3>1, <3>2 DEF Unload, LivesMatch
    <2> QED
      BY <2>1, <2>2
  <1> QED
    BY <1>4, <1>5, <1>6, <1>7, <1>8 DEF UsersMatch, LivesMatch

\* module_unload_all closes as many as the table holds.
LEMMA UnloadAllKeeps == ASSUME MaxModules \in Nat, TableInv, UnloadAll PROVE TableInv'
  <1> USE DEF TableInv, TableTypes
  <1>1. \A t \in Slots : t \in Int /\ ~(t <= count') /\ (InUse(t) <=> t <= count)
    BY DEF UnloadAll, Slots, Front, InUse
  <1>2. modules' \in [Slots -> Entries]
    <2>1. \A t \in Slots : [modules[t] EXCEPT !.loaded = FALSE] \in Entries
      BY DEF Entries
    <2> QED
      BY <2>1 DEF UnloadAll
  <1>3. ASSUME NEW q \in Paths PROVE users'[q] = 0 /\ At(q)' = {}
    <2>1. At(q)' = {}
      BY <1>1 DEF At
    <2>2. {t \in Slots : InUse(t) /\ modules[t].path = q} = At(q)
      BY <1>1 DEF At
    <2>3. users'[q] = users[q] - Cardinality(At(q))
      BY <2>2 DEF UnloadAll
    <2> QED
      BY <2>1, <2>3 DEF UsersMatch
  <1>4. ASSUME NEW m \in Names PROVE lives'[m] = 0 /\ ~Has(m)'
    <2> DEFINE E == {t \in Slots : InUse(t) /\ modules[t].name = m}
    <2>1. lives'[m] = lives[m] - Cardinality(E)
      BY DEF UnloadAll
    <2>4. ~Has(m)'
      BY <1>1 DEF Has
    <2> HIDE DEF E
    <2>2. CASE Has(m)
      <3>1. PICK t \in Slots : t <= count /\ modules[t].name = m
        BY <2>2 DEF Has
      <3>2. E = {t}
        BY <1>1, <3>1 DEF Distinct, E
      <3> QED
        <4>1. Cardinality(E) = 1
          BY <3>2, FS_Singleton
        <4>2. lives[m] = 1
          BY <2>2 DEF LivesMatch
        <4> QED
          BY <2>1, <2>4, <4>1, <4>2
    <2>3. CASE ~Has(m)
      <3>1. E = {}
        BY <1>1, <2>3 DEF Has, E
      <3> QED
        BY <2>1, <2>3, <2>4, <3>1, FS_EmptySet DEF LivesMatch
    <2> QED
      BY <2>2, <2>3
  <1>5. TableTypes'
    <2>1. users' \in [Paths -> Int] /\ lives' \in [Names -> Int]
      BY <1>3, <1>4 DEF UnloadAll
    <2> QED
      BY <1>2, <2>1 DEF UnloadAll
  <1>6. Front' /\ Distinct'
    BY <1>1 DEF Front, Distinct
  <1> QED
    BY <1>3, <1>4, <1>5, <1>6, FS_EmptySet DEF UsersMatch, LivesMatch

\* A failed init fills in an entry that is not counted.
LEMMA InitFailsKeeps ==
    ASSUME MaxModules \in Nat, TableInv, NEW n \in Names, NEW p \in Paths, InitFails(n, p)
    PROVE  TableInv'
  <1> USE DEF TableInv, TableTypes
  <1>1. /\ modules' \in [Slots -> Entries] /\ count' = count
        /\ \A s \in Slots : s <= count => modules'[s] = modules[s]
    <2>1. /\ count + 1 \in Slots /\ \A s \in Slots : s \in Int
          /\ [name |-> n, path |-> p, loaded |-> FALSE] \in Entries
      <3>1. count + 1 \in Slots /\ \A s \in Slots : s \in Int
        BY DEF InitFails, Slots
      <3>2. [name |-> n, path |-> p, loaded |-> FALSE] \in Entries
        BY DEF Entries
      <3> QED
        BY <3>1, <3>2
    <2> QED
      BY <2>1 DEF InitFails
  <1>2. TableTypes' /\ Front' /\ Distinct'
    BY <1>1 DEF InitFails, Front, Distinct
  <1>3. \A q \in Paths : At(q)' = At(q)
    BY <1>1 DEF At
  <1>4. \A m \in Names : Has(m)' <=> Has(m)
    BY <1>1 DEF Has
  <1> QED
    BY <1>2, <1>3, <1>4 DEF InitFails, UsersMatch, LivesMatch

\* For a table of any size, whatever is loaded and unloaded in whatever order: the
\* entries module_dispatch looks at are initialised, have different names and
\* belong to open libraries, and what is not in the table is cleaned up and closed.
THEOREM TableIsRight == ASSUME MaxModules \in Nat PROVE Spec => []TableMatchesLibraries
  <1>1. Init => TableInv
    BY TableInit
  <1>2. TableInv /\ [Next]_vars => TableInv'
    <2> SUFFICES ASSUME TableInv, [Next]_vars PROVE TableInv'
      OBVIOUS
    <2>1. CASE UNCHANGED vars
      BY <2>1 DEF vars, TableInv, TableTypes, Front, Distinct, UsersMatch, LivesMatch, At, Has
    <2> QED
      BY <2>1, LoadKeeps, InitFailsKeeps, UnloadKeeps, UnloadAllKeeps DEF Next
  <1>3. TableInv => TableMatchesLibraries
    <2> SUFFICES ASSUME TableInv PROVE TableMatchesLibraries
      OBVIOUS
    <2>1. \A s \in Slots : InUse(s) <=> s <= count
      BY DEF TableInv, Front, InUse
    <2>2. \A p \in Paths : {s \in Slots : InUse(s) /\ modules[s].path = p} = At(p)
      BY <2>1 DEF At
    <2>3. \A n \in Names : (\E s \in Slots : InUse(s) /\ modules[s].name = n) <=> Has(n)
      BY <2>1 DEF Has
    <2> QED
      BY <2>1, <2>2, <2>3 DEF TableInv, Front, Distinct, UsersMatch, LivesMatch, TableMatchesLibraries
  <1> QED
    BY <1>1, <1>2, <1>3, PTL DEF Spec
=============================================================================
