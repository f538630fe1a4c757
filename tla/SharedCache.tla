---------------------------- MODULE SharedCache ----------------------------
(***************************************************************************)
(* What New and Close promise their callers, without the mutexes, counts   *)
(* and timers of CachePool: a cache that is asked for is open until all who*)
(* asked for it have closed it, and only a released one is closed.  Safety *)
(* only, and one cache for each option value stands for however many are   *)
(* open: CachePool!OpenIsRegistered says that it is one.                   *)
(***************************************************************************)
CONSTANTS
    Clients,    \* callers
    Sigs,       \* option values
    None        \* no cache

VARIABLES
    uses,       \* the options of the cache a caller has
    open        \* the options a cache is open for

vars == <<uses, open>>

Init ==
    /\ uses = [c \in Clients |-> None]
    /\ open = {}

New(c, s) ==
    /\ uses[c] = None
    /\ uses' = [uses EXCEPT ![c] = s]
    /\ open' = open \cup {s}

Close(c) ==
    /\ uses[c] # None
    /\ uses' = [uses EXCEPT ![c] = None]
    /\ UNCHANGED open

CloseIdle(s) ==
    /\ s \in open
    /\ \A c \in Clients : uses[c] # s
    /\ open' = open \ {s}
    /\ UNCHANGED uses

Next ==
    \/ \E c \in Clients : (\E s \in Sigs : New(c, s)) \/ Close(c)
    \/ \E s \in Sigs : CloseIdle(s)

Spec == Init /\ [][Next]_vars
=============================================================================
