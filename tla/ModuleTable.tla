---------------------------- MODULE ModuleTable -----------------------------
(***************************************************************************)
(* The plug-in table of the file server (module.c): an array filled from   *)
(* the front, whose last entry fills the gap an unloaded one leaves.  A    *)
(* library may be loaded under several names; dlopen counts its users.     *)
(* Entries beyond count keep what they held last.                          *)
(***************************************************************************)
EXTENDS Integers, FiniteSets

CONSTANTS Names, Paths, MaxModules

VARIABLES
    modules,    \* mgr->modules
    count,      \* mgr->count
    users,      \* dlopen's count for each library
    lives       \* history: successful inits less cleanups, for each name

vars == <<modules, count, users, lives>>

Slots == 1 .. MaxModules
Empty == [name |-> "", path |-> "", loaded |-> FALSE]
InUse(s) == s <= count /\ modules[s].loaded

Init ==
    /\ modules = [s \in Slots |-> Empty]
    /\ count = 0
    /\ users = [p \in Paths |-> 0]
    /\ lives = [n \in Names |-> 0]

\* module_load; a full table, a name in use or a library that does not open
\* change nothing.
Load(n, p) ==
    /\ count < MaxModules
    /\ \A s \in Slots : InUse(s) => modules[s].name # n
    /\ modules' = [modules EXCEPT ![count + 1] = [name |-> n, path |-> p, loaded |-> TRUE]]
    /\ count' = count + 1
    /\ users' = [users EXCEPT ![p] = @ + 1]
    /\ lives' = [lives EXCEPT ![n] = @ + 1]

\* The module's init fails: the library is closed, the entry stays filled in.
InitFails(n, p) ==
    /\ count < MaxModules
    /\ \A s \in Slots : InUse(s) => modules[s].name # n
    /\ modules' = [modules EXCEPT ![count + 1] = [name |-> n, path |-> p, loaded |-> FALSE]]
    /\ UNCHANGED <<count, users, lives>>

\* Mutant: the last entry is not moved into the gap.
UnloadNoMove(s) ==
    /\ InUse(s)
    /\ users' = [users EXCEPT ![modules[s].path] = @ - 1]
    /\ lives' = [lives EXCEPT ![modules[s].name] = @ - 1]
    /\ modules' = [modules EXCEPT ![s].loaded = FALSE]
    /\ count' = count - 1

\* module_unload of the module in slot s.
Unload(s) ==
    /\ InUse(s)
    /\ users' = [users EXCEPT ![modules[s].path] = @ - 1]
    /\ lives' = [lives EXCEPT ![modules[s].name] = @ - 1]
    /\ modules' = IF s < count
                  THEN [modules EXCEPT ![s] = modules[count], ![count] = Empty]
                  ELSE [modules EXCEPT ![s].loaded = FALSE]
    /\ count' = count - 1

\* module_unload_all
UnloadAll ==
    /\ LET gone(p) == Cardinality({s \in Slots : InUse(s) /\ modules[s].path = p})
           ended(n) == Cardinality({s \in Slots : InUse(s) /\ modules[s].name = n})
       IN  /\ users' = [p \in Paths |-> users[p] - gone(p)]
           /\ lives' = [n \in Names |-> lives[n] - ended(n)]
    /\ modules' = [s \in Slots |-> IF InUse(s) THEN [modules[s] EXCEPT !.loaded = FALSE] ELSE modules[s]]
    /\ count' = 0

Next ==
    \/ \E n \in Names, p \in Paths : Load(n, p) \/ InitFails(n, p)
    \/ \E s \in Slots : Unload(s)
    \/ UnloadAll

Spec == Init /\ [][Next]_vars

-----------------------------------------------------------------------------
\* Whatever is loaded and unloaded in whatever order: the entries before count
\* are loaded and have different names, each module whose init succeeded is in
\* the table and not cleaned up yet, and a library is open as often as it is in
\* the table, so that module_dispatch never calls into a closed one.
TableMatchesLibraries ==
    /\ \A s \in Slots : s <= count => modules[s].loaded
    /\ \A s, t \in Slots : InUse(s) /\ InUse(t) /\ s # t => modules[s].name # modules[t].name
    /\ \A n \in Names : lives[n] = IF \E s \in Slots : InUse(s) /\ modules[s].name = n THEN 1 ELSE 0
    /\ \A p \in Paths : users[p] = Cardinality({s \in Slots : InUse(s) /\ modules[s].path = p})
=============================================================================
