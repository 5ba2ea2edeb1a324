----------------------------- MODULE ComServer -----------------------------
(* The shell extension as a COM server: reference counts of its factories  *)
(* and menus, the count of the module, and the question whether the module *)
(* may be unloaded, asked while threads of the shell are inside its code.  *)
EXTENDS Naturals, FiniteSets, FiniteSetsExt

CONSTANTS Threads, Objects,  \* threads of the shell; addresses
          Nowhere,
          MaxHeld            \* bound: pointers and locks a thread has

ASSUME FiniteAssumption == IsFiniteSet(Threads) /\ IsFiniteSet(Objects)
ASSUME NowhereAssumption == Nowhere \notin Objects

VARIABLES kind,       \* [Objects -> "free", "factory", "menu"]
          refCount,   \* [Objects -> Nat]
          moduleRefs, \* g_moduleRefs
          held,       \* [Threads -> [Objects -> Nat]]: pointers the shell has
          locks,      \* [Threads -> Nat]: LockServer(TRUE) without LockServer(FALSE)
          at, this    \* where a thread is in the module, and the object it works on

comVars == <<kind, refCount, moduleRefs, held, locks, at, this>>
client  == <<held, locks>>

ComInit ==
    /\ kind = [o \in Objects |-> "free"] /\ refCount = [o \in Objects |-> 0] /\ moduleRefs = 0
    /\ held = [t \in Threads |-> [o \in Objects |-> 0]] /\ locks = [t \in Threads |-> 0]
    /\ at = [t \in Threads |-> "out"] /\ this = [t \in Threads |-> Nowhere]

Enter(t, where, o) == at' = [at EXCEPT ![t] = where] /\ this' = [this EXCEPT ![t] = o]
HeldBy(t) == MapThenSumSet(LAMBDA o : held[t][o], Objects) + locks[t]

\* DllGetClassObject and CreateInstance: a new object with one reference, and
\* one more for the module.
New(t, k, o) ==
    /\ at[t] = "out" /\ HeldBy(t) < MaxHeld /\ kind[o] = "free"
    /\ k = "menu" => \E f \in Objects : held[t][f] > 0 /\ kind[f] = "factory"
    /\ kind' = [kind EXCEPT ![o] = k] /\ refCount' = [refCount EXCEPT ![o] = 1]
    /\ moduleRefs' = moduleRefs + 1 /\ Enter(t, "query", o) /\ UNCHANGED client

\* QueryInterface gives the caller a pointer of its own, or has no such
\* interface.
Query(t) ==
    /\ at[t] = "query"
    /\ \/ /\ refCount' = [refCount EXCEPT ![this[t]] = @ + 1]
          /\ held' = [held EXCEPT ![t][this[t]] = @ + 1]
       \/ UNCHANGED <<refCount, held>>
    /\ Enter(t, "release", this[t]) /\ UNCHANGED <<kind, moduleRefs, locks>>

\* Release: the count goes down, and who takes the last reference deletes.
Decrement(t, o) ==
    /\ refCount' = [refCount EXCEPT ![o] = @ - 1]
    /\ IF refCount[o] = 1 THEN Enter(t, "last", o) ELSE Enter(t, "out", Nowhere)

\* Mutant: the reference the object was made with is kept.
KeepOwn(t) == Enter(t, "out", Nowhere) /\ UNCHANGED refCount

\* factory->Release(), menu->Release()
ReleaseOwn(t) == Decrement(t, this[t])

Made(t) ==
    /\ at[t] = "release" /\ ReleaseOwn(t) /\ UNCHANGED <<kind, moduleRefs, client>>

\* The last reference: the module's count goes down, and the object goes.
ReleaseModule(t) ==
    /\ at[t] = "last" /\ moduleRefs' = moduleRefs - 1 /\ Enter(t, "delete", this[t])
    /\ UNCHANGED <<kind, refCount, client>>

Delete(t) ==
    /\ at[t] = "delete" /\ kind' = [kind EXCEPT ![this[t]] = "free"] /\ Enter(t, "out", Nowhere)
    /\ UNCHANGED <<refCount, moduleRefs, client>>

\* The shell copies a pointer (AddRef), gives it to another thread, or lets it
\* go (Release).
AddRef(t, u, o) ==
    /\ at[t] = "out" /\ held[t][o] > 0 /\ HeldBy(u) < MaxHeld
    /\ refCount' = [refCount EXCEPT ![o] = @ + 1] /\ held' = [held EXCEPT ![u][o] = @ + 1]
    /\ UNCHANGED <<kind, moduleRefs, locks, at, this>>

Release(t, o) ==
    /\ at[t] = "out" /\ held[t][o] > 0 /\ held' = [held EXCEPT ![t][o] = @ - 1]
    /\ Decrement(t, o) /\ UNCHANGED <<kind, moduleRefs, locks>>

\* LockServer, by who holds a factory, or undoes its own lock.
LockServer(t) ==
    /\ at[t] = "out"
    /\ \/ /\ \E f \in Objects : held[t][f] > 0 /\ kind[f] = "factory"
          /\ HeldBy(t) < MaxHeld
          /\ locks' = [locks EXCEPT ![t] = @ + 1] /\ moduleRefs' = moduleRefs + 1
       \/ /\ locks[t] > 0
          /\ locks' = [locks EXCEPT ![t] = @ - 1] /\ moduleRefs' = moduleRefs - 1
    /\ UNCHANGED <<kind, refCount, held, at, this>>

DllCanUnloadNow == moduleRefs = 0

ComNext ==
    \E t \in Threads :
      \/ Query(t) \/ Made(t) \/ ReleaseModule(t) \/ Delete(t) \/ LockServer(t)
      \/ \E o \in Objects :
           \/ New(t, "factory", o) \/ New(t, "menu", o) \/ Release(t, o)
           \/ \E u \in Threads : AddRef(t, u, o)

ComSpec == ComInit /\ [][ComNext]_comVars

-----------------------------------------------------------------------------
\* The module says it can be unloaded only when the shell has no pointer into
\* it and no lock on it, in the middle of any call of any thread; and when no
\* thread is inside, it says so exactly then: no object outlives its last
\* pointer. (A thread may still be deleting an object when it says so.)
UnloadIsSafe ==
    LET inUse == \E t \in Threads : locks[t] > 0 \/ \E o \in Objects : held[t][o] > 0
    IN  /\ DllCanUnloadNow => ~inUse
        /\ (\A t \in Threads : at[t] = "out") =>
             /\ DllCanUnloadNow = ~inUse
             /\ \A o \in Objects : kind[o] # "free" <=> \E t \in Threads : held[t][o] > 0
=============================================================================
