----------------------------- MODULE CachePool -----------------------------
(***************************************************************************)
(* The caches a process keeps open: cache.New, Close and the goroutine     *)
(* Close starts, on openedCachesMu and the usedByMu of each cache.         *)
(*                                                                         *)
(* New holds openedCachesMu from its lookup to its return and takes        *)
(* usedByMu inside; Close takes usedByMu only; the teardown takes both, in *)
(* the order of New.  A section under usedByMu that takes no other lock is *)
(* one step, except the teardown's, whose steps a Close or a New can meet. *)
(***************************************************************************)
EXTENDS Integers, FiniteSets

CONSTANTS
    Clients,    \* goroutines that use the cache: New, queries, Close
    Sigs,       \* option values, the keys of openedCaches
    Handles,    \* the Cache objects there may be at a time
    None,       \* no handle, no signature; an unlocked mutex
    MaxTimers   \* bound: teardown goroutines asleep on a handle when New is called

ASSUME PoolAssumption ==
    /\ IsFiniteSet(Clients)
    /\ Clients \cap Handles = {}
    /\ None \notin Clients \cup Sigs \cup Handles
    /\ MaxTimers \in Nat

VARIABLES
    pc,             \* where a client is
    want,           \* the options a client calls New with
    handle,         \* the *Cache a client has
    openedCaches,   \* the map from options to the opened cache
    sig,            \* c.sig
    usedBy,         \* c.usedBy
    dbOpen,         \* is c.db open
    timers,         \* goroutines of Close that sleep or wait for openedCachesMu
    master,         \* who holds openedCachesMu: a client, or the teardown of a handle
    stage           \* how far that teardown is

clientVars == <<pc, want, handle>>
poolVars == <<openedCaches, sig, usedBy, dbOpen>>
vars == <<clientVars, poolVars, timers, master, stage>>

\* Outside; waiting for openedCachesMu; looking the options up; waiting for the
\* usedByMu of the cache found; between New and Close; waiting in Close.
Pcs == {"idle", "new", "lookup", "reuse", "using", "closing"}
Stages == {"none", "check", "close", "delete"}

TypeOK ==
    /\ pc \in [Clients -> Pcs]
    /\ want \in [Clients -> Sigs \cup {None}]
    /\ handle \in [Clients -> Handles \cup {None}]
    /\ openedCaches \in [Sigs -> Handles \cup {None}]
    /\ sig \in [Handles -> Sigs \cup {None}]
    /\ usedBy \in [Handles -> Int]
    /\ dbOpen \in [Handles -> BOOLEAN]
    /\ timers \in [Handles -> Nat]
    /\ master \in {None} \cup Clients \cup Handles
    /\ stage \in Stages

Init ==
    /\ pc = [c \in Clients |-> "idle"]
    /\ want = [c \in Clients |-> None]
    /\ handle = [c \in Clients |-> None]
    /\ openedCaches = [s \in Sigs |-> None]
    /\ sig = [i \in Handles |-> None]
    /\ usedBy = [i \in Handles |-> 0]
    /\ dbOpen = [i \in Handles |-> FALSE]
    /\ timers = [i \in Handles |-> 0]
    /\ master = None
    /\ stage = "none"

\* The teardown of i is past its usedByMu.Lock().
UsedByLocked(i) == master = i /\ stage \in {"close", "delete"}

\* An object nobody refers to any more: the garbage collector's, or never made.
Unreferenced(i) ==
    /\ ~dbOpen[i] /\ timers[i] = 0 /\ master # i
    /\ \A c \in Clients : handle[c] # i
    /\ \A s \in Sigs : openedCaches[s] # i

-----------------------------------------------------------------------------
(* New.                                                                    *)

CallNew(c, s) ==
    /\ pc[c] = "idle"
    /\ \A i \in Handles : timers[i] < MaxTimers
    /\ pc' = [pc EXCEPT ![c] = "new"]
    /\ want' = [want EXCEPT ![c] = s]
    /\ UNCHANGED <<handle, poolVars, timers, master, stage>>

NewLocks(c) ==
    /\ pc[c] = "new" /\ master = None
    /\ master' = c
    /\ pc' = [pc EXCEPT ![c] = "lookup"]
    /\ UNCHANGED <<want, handle, poolVars, timers, stage>>

NewFinds(c) ==
    /\ pc[c] = "lookup" /\ openedCaches[want[c]] # None
    /\ handle' = [handle EXCEPT ![c] = openedCaches[want[c]]]
    /\ pc' = [pc EXCEPT ![c] = "reuse"]
    /\ UNCHANGED <<want, poolVars, timers, master, stage>>

\* Mutant: the count is not raised.
NewReuses_NotCounted(c) ==
    /\ pc[c] = "reuse" /\ ~UsedByLocked(handle[c])
    /\ master' = None
    /\ pc' = [pc EXCEPT ![c] = "using"]
    /\ UNCHANGED <<want, handle, poolVars, timers, stage>>

NewReuses(c) ==
    /\ pc[c] = "reuse" /\ ~UsedByLocked(handle[c])
    /\ usedBy' = [usedBy EXCEPT ![handle[c]] = @ + 1]
    /\ master' = None
    /\ pc' = [pc EXCEPT ![c] = "using"]
    /\ UNCHANGED <<want, handle, openedCaches, sig, dbOpen, timers, stage>>

NewOpens(c) ==
    /\ pc[c] = "lookup" /\ openedCaches[want[c]] = None
    /\ \E i \in Handles :
        /\ Unreferenced(i)
        /\ dbOpen' = [dbOpen EXCEPT ![i] = TRUE]
        /\ sig' = [sig EXCEPT ![i] = want[c]]
        /\ usedBy' = [usedBy EXCEPT ![i] = 1]
        /\ openedCaches' = [openedCaches EXCEPT ![want[c]] = i]
        /\ handle' = [handle EXCEPT ![c] = i]
    /\ master' = None
    /\ pc' = [pc EXCEPT ![c] = "using"]
    /\ UNCHANGED <<want, timers, stage>>

\* No shadow group, initDB or cleanUpDB fails: the map is left alone.
NewFails(c) ==
    /\ pc[c] = "lookup" /\ openedCaches[want[c]] = None
    /\ master' = None
    /\ pc' = [pc EXCEPT ![c] = "idle"]
    /\ want' = [want EXCEPT ![c] = None]
    /\ UNCHANGED <<handle, poolVars, timers, stage>>

-----------------------------------------------------------------------------
(* Close and its goroutine.                                                *)

CallClose(c) ==
    /\ pc[c] = "using"
    /\ pc' = [pc EXCEPT ![c] = "closing"]
    /\ UNCHANGED <<want, handle, poolVars, timers, master, stage>>

\* Mutant: the timer starts when one user is left.
Closes_OneLeft(c) ==
    /\ pc[c] = "closing" /\ ~UsedByLocked(handle[c])
    /\ usedBy' = [usedBy EXCEPT ![handle[c]] = @ - 1]
    /\ timers' = IF usedBy'[handle[c]] = 1 THEN [timers EXCEPT ![handle[c]] = @ + 1] ELSE timers
    /\ pc' = [pc EXCEPT ![c] = "idle"]
    /\ want' = [want EXCEPT ![c] = None]
    /\ handle' = [handle EXCEPT ![c] = None]
    /\ UNCHANGED <<openedCaches, sig, dbOpen, master, stage>>

Closes(c) ==
    /\ pc[c] = "closing" /\ ~UsedByLocked(handle[c])
    /\ usedBy' = [usedBy EXCEPT ![handle[c]] = @ - 1]
    /\ timers' = IF usedBy'[handle[c]] = 0 THEN [timers EXCEPT ![handle[c]] = @ + 1] ELSE timers
    /\ pc' = [pc EXCEPT ![c] = "idle"]
    /\ want' = [want EXCEPT ![c] = None]
    /\ handle' = [handle EXCEPT ![c] = None]
    /\ UNCHANGED <<openedCaches, sig, dbOpen, master, stage>>

\* Mutant: the goroutine does not wait for anything.
TimerFires_Unarmed(i) ==
    /\ master = None
    /\ timers' = [timers EXCEPT ![i] = @ - 1]
    /\ master' = i
    /\ stage' = "check"
    /\ UNCHANGED <<clientVars, poolVars>>

\* teardownDuration has passed and openedCachesMu is free.
TimerFires(i) ==
    /\ timers[i] > 0 /\ master = None
    /\ timers' = [timers EXCEPT ![i] = @ - 1]
    /\ master' = i
    /\ stage' = "check"
    /\ UNCHANGED <<clientVars, poolVars>>

\* The cache is in use again, or another timer has closed it already.
TeardownLeaves(i) ==
    /\ master = i /\ stage = "check" /\ usedBy[i] # 0
    /\ master' = None
    /\ stage' = "none"
    /\ UNCHANGED <<clientVars, poolVars, timers>>

\* Mutant: the timer does not look whether the cache is in use again.
TeardownGoesOn_Unchecked(i) ==
    /\ master = i /\ stage = "check"
    /\ stage' = "close"
    /\ UNCHANGED <<clientVars, poolVars, timers, master>>

TeardownGoesOn(i) ==
    /\ master = i /\ stage = "check" /\ usedBy[i] = 0
    /\ stage' = "close"
    /\ UNCHANGED <<clientVars, poolVars, timers, master>>

TeardownCloses(i) ==
    /\ master = i /\ stage = "close"
    /\ dbOpen' = [dbOpen EXCEPT ![i] = FALSE]
    /\ stage' = "delete"
    /\ UNCHANGED <<clientVars, openedCaches, sig, usedBy, timers, master>>

\* Mutant: the count is left at zero for the next timer of the same cache.
TeardownDeletes_NotMarked(i) ==
    /\ master = i /\ stage = "delete"
    /\ openedCaches' = [openedCaches EXCEPT ![sig[i]] = None]
    /\ master' = None
    /\ stage' = "none"
    /\ UNCHANGED <<clientVars, sig, usedBy, dbOpen, timers>>

TeardownDeletes(i) ==
    /\ master = i /\ stage = "delete"
    /\ openedCaches' = [openedCaches EXCEPT ![sig[i]] = None]
    /\ usedBy' = [usedBy EXCEPT ![i] = -1]
    /\ master' = None
    /\ stage' = "none"
    /\ UNCHANGED <<clientVars, sig, dbOpen, timers>>

Teardown(i) ==
    TimerFires(i) \/ TeardownLeaves(i) \/ TeardownGoesOn(i) \/ TeardownCloses(i) \/ TeardownDeletes(i)

ClientStep(c) ==
    \/ NewLocks(c) \/ NewFinds(c) \/ NewReuses(c) \/ NewOpens(c) \/ NewFails(c)
    \/ CallClose(c) \/ Closes(c)

Next ==
    \/ \E c \in Clients : (\E s \in Sigs : CallNew(c, s)) \/ ClientStep(c)
    \/ \E i \in Handles : Teardown(i)

Spec == Init /\ [][Next]_vars

\* A critical section is left, a sleeping goroutine wakes up, and Go's mutexes
\* are starvation free: who waits for openedCachesMu gets it.  Nothing is said of
\* the clients that hold no lock: one may keep its cache for ever.
FairSpec ==
    /\ Spec
    /\ \A c \in Clients :
        /\ WF_vars(NewFinds(c) \/ NewReuses(c) \/ NewOpens(c) \/ NewFails(c))
        /\ SF_vars(NewLocks(c))
        /\ WF_vars(Closes(c))
    /\ \A i \in Handles :
        /\ SF_vars(TimerFires(i))
        /\ WF_vars(TeardownLeaves(i) \/ TeardownGoesOn(i) \/ TeardownCloses(i) \/ TeardownDeletes(i))

-----------------------------------------------------------------------------
Holders(i) == {c \in Clients : pc[c] \in {"using", "closing"} /\ handle[c] = i}

\* Nobody is ever left with a closed database: from New's return to its Close a
\* client's cache stays open, whatever timers of earlier uses are pending.
UsedIsOpen == \A i \in Handles : Holders(i) # {} => dbOpen[i]

\* usedBy counts the clients between New and Close, as long as the cache is open.
CountIsExact == \A i \in Handles : dbOpen[i] => usedBy[i] = Cardinality(Holders(i))

\* An open cache is the one the map has for its options, so a second New with
\* the same options never opens the files twice; and what the map has is open,
\* but for the moment between db.Close and delete.
OpenIsRegistered ==
    /\ \A i \in Handles : dbOpen[i] => sig[i] # None /\ openedCaches[sig[i]] = i
    /\ \A s \in Sigs : openedCaches[s] # None =>
          LET i == openedCaches[s] IN sig[i] = s /\ (dbOpen[i] \/ UsedByLocked(i))

\* An open cache nobody uses has a teardown to come: it is not left open.
IdleHasTimer ==
    \A i \in Handles : dbOpen[i] /\ usedBy[i] = 0 => timers[i] > 0 \/ master = i

\* A caller has a cache from New's return to Close's.
Service == INSTANCE SharedCache WITH
    uses <- [c \in Clients |-> IF pc[c] \in {"using", "closing"} THEN want[c] ELSE None],
    open <- {sig[i] : i \in {j \in Handles : dbOpen[j]}}

\* The pool is what New's comment says it is: whatever the mutexes, counts and timers
\* do, who asks for a cache has an open one of these options until Close, and none is
\* closed while a caller has it.  That callers with the same options share one is
\* OpenIsRegistered; that an idle one is closed in the end is IdleCloses.
ImplementsService == Service!Spec

\* A released cache is closed on idle, or used again.
IdleCloses == \A i \in Handles : dbOpen[i] /\ usedBy[i] = 0 ~> ~dbOpen[i] \/ usedBy[i] > 0
=============================================================================
