-------------------------- MODULE CachePoolProofs --------------------------
(***************************************************************************)
(* For any finite set of clients, any options and any number of cache      *)
(* objects, a cache is open while somebody uses it, counted exactly,       *)
(* registered once, and has a teardown to come when idle.                  *)
(***************************************************************************)
EXTENDS CachePool, FiniteSetTheorems, TLAPS

\* openedCachesMu is held exactly by who is between its Lock and its Unlock.
MasterHeld ==
    /\ \A c \in Clients : pc[c] \in {"lookup", "reuse"} <=> master = c
    /\ stage # "none" <=> master \in Handles

\* What a client has in hand is what it asked for.
ClientsServed ==
    /\ \A c \in Clients : pc[c] # "idle" => want[c] \in Sigs
    /\ \A c \in Clients : pc[c] = "reuse" =>
          handle[c] \in Handles /\ openedCaches[want[c]] = handle[c]
    /\ \A c \in Clients : pc[c] \in {"using", "closing"} =>
          handle[c] \in Handles /\ dbOpen[handle[c]] /\ sig[handle[c]] = want[c]

\* The teardown works on an idle cache that is still registered.
TeardownIdle ==
    \A i \in Handles : master = i =>
        /\ stage = "close" => usedBy[i] = 0 /\ dbOpen[i]
        /\ stage = "delete" => usedBy[i] = 0 /\ ~dbOpen[i] /\ sig[i] \in Sigs /\ openedCaches[sig[i]] = i

\* A timer that comes too late finds -1.
ClosedIsMarked ==
    \A i \in Handles :
        ~dbOpen[i] /\ ~(master = i /\ stage = "delete") =>
            \/ usedBy[i] = -1
            \/ timers[i] = 0 /\ master # i

\* The map and its caches, in the form the steps use.
Registered ==
    /\ \A i \in Handles : dbOpen[i] => sig[i] \in Sigs /\ openedCaches[sig[i]] = i
    /\ \A s \in Sigs, i \in Handles : openedCaches[s] = i =>
          sig[i] = s /\ (dbOpen[i] \/ (master = i /\ stage = "delete"))

IndInv ==
    /\ TypeOK /\ MasterHeld /\ ClientsServed /\ TeardownIdle
    /\ ClosedIsMarked /\ Registered /\ CountIsExact /\ IdleHasTimer

-----------------------------------------------------------------------------
\* The holders of a cache are a finite set.
LEMMA HoldersFinite == \A i : IsFiniteSet(Holders(i)) /\ Cardinality(Holders(i)) \in Nat
  BY PoolAssumption, FS_Subset, FS_CardinalityType DEF Holders

\* A client that starts to use a cache adds one holder.
LEMMA OneMore ==
    ASSUME NEW S, IsFiniteSet(S), NEW c, c \notin S
    PROVE  Cardinality(S \cup {c}) = Cardinality(S) + 1
  BY FS_AddElement

\* A client that closes it takes one away.
LEMMA OneLess ==
    ASSUME NEW S, IsFiniteSet(S), NEW c \in S
    PROVE  Cardinality(S \ {c}) = Cardinality(S) - 1
  BY FS_RemoveElement

\* The initial state has the inductive invariant.
LEMMA InitInv == Init => IndInv
  <1> SUFFICES ASSUME Init PROVE IndInv
    OBVIOUS
  <1>1. TypeOK
    BY DEF Init, TypeOK, Pcs, Stages
  <1>2. MasterHeld /\ ClientsServed /\ TeardownIdle
    BY PoolAssumption DEF Init, MasterHeld, ClientsServed, TeardownIdle
  <1>3. ClosedIsMarked /\ Registered /\ CountIsExact /\ IdleHasTimer
    BY PoolAssumption DEF Init, ClosedIsMarked, Registered, CountIsExact, IdleHasTimer
  <1> QED
    BY <1>1, <1>2, <1>3 DEF IndInv

\* Every step preserves the inductive invariant.
LEMMA NextInv == IndInv /\ [Next]_vars => IndInv'
  <1> SUFFICES ASSUME IndInv, [Next]_vars PROVE IndInv'
    OBVIOUS
  <1>0. /\ TypeOK /\ MasterHeld /\ ClientsServed /\ TeardownIdle
        /\ ClosedIsMarked /\ Registered /\ CountIsExact /\ IdleHasTimer
    BY DEF IndInv
  <1>1. ASSUME NEW c \in Clients, NEW s \in Sigs, CallNew(c, s) PROVE IndInv'
    <2> USE <1>0, <1>1 DEF CallNew, poolVars
    <2>1. \A i \in Handles : Holders(i)' = Holders(i)
      BY DEF Holders, TypeOK
    <2>2. TypeOK' /\ MasterHeld'
      BY DEF TypeOK, MasterHeld, Pcs
    <2>3. ClientsServed'
      BY DEF TypeOK, ClientsServed
    <2>4. TeardownIdle' /\ ClosedIsMarked' /\ Registered' /\ IdleHasTimer'
      BY DEF TeardownIdle, ClosedIsMarked, Registered, IdleHasTimer
    <2>5. CountIsExact'
      BY <2>1 DEF CountIsExact
    <2> QED
      BY <2>2, <2>3, <2>4, <2>5 DEF IndInv
  <1>2. ASSUME NEW c \in Clients, NewLocks(c) PROVE IndInv'
    <2> USE <1>0, <1>2 DEF NewLocks, poolVars
    <2>1. \A i \in Handles : Holders(i)' = Holders(i)
      BY DEF Holders, TypeOK
    <2>2. TypeOK'
      BY DEF TypeOK, Pcs
    <2>3. MasterHeld'
      BY PoolAssumption DEF TypeOK, MasterHeld
    <2>4. ClientsServed'
      BY DEF TypeOK, ClientsServed
    <2>5. TeardownIdle' /\ ClosedIsMarked' /\ Registered' /\ IdleHasTimer'
      BY PoolAssumption DEF TeardownIdle, ClosedIsMarked, Registered, IdleHasTimer, MasterHeld
    <2>6. CountIsExact'
      BY <2>1 DEF CountIsExact
    <2> QED
      BY <2>2, <2>3, <2>4, <2>5, <2>6 DEF IndInv
  <1>3. ASSUME NEW c \in Clients, NewFinds(c) PROVE IndInv'
    <2> USE <1>0, <1>3 DEF NewFinds, poolVars
    <2>1. \A i \in Handles : Holders(i)' = Holders(i)
      BY DEF Holders, TypeOK
    <2>2. TypeOK' /\ MasterHeld'
      BY DEF TypeOK, Pcs, MasterHeld, ClientsServed
    <2>3. ClientsServed'
      BY DEF TypeOK, ClientsServed
    <2>4. TeardownIdle' /\ ClosedIsMarked' /\ Registered' /\ IdleHasTimer'
      BY DEF TeardownIdle, ClosedIsMarked, Registered, IdleHasTimer
    <2>5. CountIsExact'
      BY <2>1 DEF CountIsExact
    <2> QED
      BY <2>2, <2>3, <2>4, <2>5 DEF IndInv
  <1>4. ASSUME NEW c \in Clients, NewReuses(c) PROVE IndInv'
    <2> USE <1>0, <1>4 DEF NewReuses
    <2> DEFINE h == handle[c]
    <2>1. master = c /\ c \notin Handles /\ h \in Handles /\ dbOpen[h]
      BY PoolAssumption DEF MasterHeld, ClientsServed, Registered, TypeOK
    <2>2. Holders(h)' = Holders(h) \cup {c} /\ c \notin Holders(h)
      BY <2>1 DEF Holders, TypeOK
    <2>3. \A i \in Handles \ {h} : Holders(i)' = Holders(i)
      BY <2>1 DEF Holders, TypeOK
    <2>4. CountIsExact'
      <3> SUFFICES ASSUME NEW i \in Handles, dbOpen'[i]
                   PROVE  usedBy'[i] = Cardinality(Holders(i)')
        BY DEF CountIsExact
      <3>1. CASE i = h
        BY <3>1, <2>1, <2>2, HoldersFinite, OneMore DEF CountIsExact, TypeOK
      <3>2. CASE i # h
        BY <3>2, <2>1, <2>3 DEF CountIsExact, TypeOK
      <3> QED
        BY <3>1, <3>2
    <2>5. TypeOK'
      BY <2>1 DEF TypeOK, Pcs
    <2>6. MasterHeld'
      BY <2>1, PoolAssumption DEF TypeOK, MasterHeld
    <2>7. ClientsServed' /\ Registered'
      BY <2>1 DEF TypeOK, ClientsServed, Registered
    <2>8. TeardownIdle' /\ ClosedIsMarked'
      BY <2>1, PoolAssumption DEF TypeOK, TeardownIdle, ClosedIsMarked
    <2>9. IdleHasTimer'
      <3>1. usedBy[h] \in Nat
        BY <2>1, HoldersFinite DEF CountIsExact
      <3> QED
        BY <3>1, <2>1 DEF IdleHasTimer, TypeOK
    <2> QED
      BY <2>4, <2>5, <2>6, <2>7, <2>8, <2>9 DEF IndInv
  <1>5. ASSUME NEW c \in Clients, NewOpens(c) PROVE IndInv'
    <2> USE <1>0, <1>5 DEF NewOpens
    <2>1. PICK i \in Handles :
            /\ Unreferenced(i)
            /\ dbOpen' = [dbOpen EXCEPT ![i] = TRUE]
            /\ sig' = [sig EXCEPT ![i] = want[c]]
            /\ usedBy' = [usedBy EXCEPT ![i] = 1]
            /\ openedCaches' = [openedCaches EXCEPT ![want[c]] = i]
            /\ handle' = [handle EXCEPT ![c] = i]
      OBVIOUS
    <2>2. master = c /\ c \notin Handles /\ want[c] \in Sigs
      BY PoolAssumption DEF MasterHeld, ClientsServed
    <2>3. Holders(i)' = {c}
      BY <2>1 DEF Holders, TypeOK, Unreferenced
    <2>4. \A j \in Handles \ {i} : Holders(j)' = Holders(j)
      BY <2>1 DEF Holders, TypeOK
    <2>5. CountIsExact'
      BY <2>1, <2>3, <2>4, FS_Singleton DEF CountIsExact, TypeOK
    <2>6. TypeOK'
      BY <2>1, <2>2 DEF TypeOK, Pcs
    <2>7. MasterHeld'
      BY <2>2, PoolAssumption DEF TypeOK, MasterHeld
    <2>8. ClientsServed'
      BY <2>1, <2>2 DEF TypeOK, ClientsServed, Unreferenced, MasterHeld
    <2>9. Registered'
      BY <2>1, <2>2, PoolAssumption DEF TypeOK, Registered, Unreferenced
    <2>10. TeardownIdle' /\ ClosedIsMarked'
      BY <2>1, <2>2, PoolAssumption DEF TypeOK, TeardownIdle, ClosedIsMarked
    <2>11. IdleHasTimer'
      BY <2>1, <2>2 DEF IdleHasTimer, TypeOK
    <2> QED
      BY <2>5, <2>6, <2>7, <2>8, <2>9, <2>10, <2>11 DEF IndInv
  <1>6. ASSUME NEW c \in Clients, NewFails(c) PROVE IndInv'
    <2> USE <1>0, <1>6 DEF NewFails, poolVars
    <2>1. \A i \in Handles : Holders(i)' = Holders(i)
      BY DEF Holders, TypeOK
    <2>2. master = c /\ c \notin Handles
      BY PoolAssumption DEF MasterHeld
    <2>3. TypeOK'
      BY DEF TypeOK, Pcs
    <2>4. MasterHeld'
      BY <2>2, PoolAssumption DEF TypeOK, MasterHeld
    <2>5. ClientsServed'
      BY DEF TypeOK, ClientsServed
    <2>6. TeardownIdle' /\ ClosedIsMarked' /\ Registered' /\ IdleHasTimer'
      BY <2>2, PoolAssumption DEF TeardownIdle, ClosedIsMarked, Registered, IdleHasTimer
    <2>7. CountIsExact'
      BY <2>1 DEF CountIsExact
    <2> QED
      BY <2>3, <2>4, <2>5, <2>6, <2>7 DEF IndInv
  <1>7. ASSUME NEW c \in Clients, CallClose(c) PROVE IndInv'
    <2> USE <1>0, <1>7 DEF CallClose, poolVars
    <2>1. \A i \in Handles : Holders(i)' = Holders(i)
      BY DEF Holders, TypeOK
    <2>2. TypeOK' /\ MasterHeld'
      BY DEF TypeOK, Pcs, MasterHeld
    <2>3. ClientsServed'
      BY DEF TypeOK, ClientsServed
    <2>4. TeardownIdle' /\ ClosedIsMarked' /\ Registered' /\ IdleHasTimer'
      BY DEF TeardownIdle, ClosedIsMarked, Registered, IdleHasTimer
    <2>5. CountIsExact'
      BY <2>1 DEF CountIsExact
    <2> QED
      BY <2>2, <2>3, <2>4, <2>5 DEF IndInv
  <1>8. ASSUME NEW c \in Clients, Closes(c) PROVE IndInv'
    <2> USE <1>0, <1>8 DEF Closes
    <2>1. PICK h \in Handles : h = handle[c] /\ dbOpen[h]
      BY DEF ClientsServed
    <2>2. Holders(h)' = Holders(h) \ {c} /\ c \in Holders(h)
      BY <2>1, PoolAssumption DEF Holders, TypeOK
    <2>3. \A i \in Handles \ {h} : Holders(i)' = Holders(i)
      BY <2>1, PoolAssumption DEF Holders, TypeOK
    <2>4. CountIsExact'
      <3> SUFFICES ASSUME NEW i \in Handles, dbOpen'[i]
                   PROVE  usedBy'[i] = Cardinality(Holders(i)')
        BY DEF CountIsExact
      <3>1. CASE i = h
        BY <3>1, <2>1, <2>2, HoldersFinite, OneLess DEF CountIsExact, TypeOK
      <3>2. CASE i # h
        BY <3>2, <2>1, <2>3 DEF CountIsExact, TypeOK
      <3> QED
        BY <3>1, <3>2
    <2>5. ~(master = h /\ stage = "close") /\ ~(master = h /\ stage = "delete")
      BY <2>1 DEF UsedByLocked
    <2>6. TypeOK'
      BY <2>1 DEF TypeOK, Pcs
    <2>7. MasterHeld'
      BY DEF TypeOK, MasterHeld
    <2>8. ClientsServed' /\ Registered'
      BY <2>1 DEF TypeOK, ClientsServed, Registered
    <2>9. TeardownIdle' /\ ClosedIsMarked'
      BY <2>1, <2>5 DEF TypeOK, TeardownIdle, ClosedIsMarked
    <2>10. IdleHasTimer'
      BY <2>1 DEF IdleHasTimer, TypeOK
    <2> QED
      BY <2>4, <2>6, <2>7, <2>8, <2>9, <2>10 DEF IndInv
  <1>9. ASSUME NEW i \in Handles, TimerFires(i) PROVE IndInv'
    <2> USE <1>0, <1>9 DEF TimerFires, poolVars, clientVars
    <2>1. \A j \in Handles : Holders(j)' = Holders(j)
      BY DEF Holders
    <2>2. TypeOK'
      BY DEF TypeOK, Stages
    <2>3. MasterHeld'
      BY PoolAssumption DEF TypeOK, MasterHeld
    <2>4. ClientsServed' /\ TeardownIdle'
      BY DEF ClientsServed, TeardownIdle
    <2>5. Registered' /\ ClosedIsMarked' /\ IdleHasTimer'
      BY PoolAssumption DEF Registered, ClosedIsMarked, IdleHasTimer, TypeOK
    <2>6. CountIsExact'
      BY <2>1 DEF CountIsExact
    <2> QED
      BY <2>2, <2>3, <2>4, <2>5, <2>6 DEF IndInv
  <1>10. ASSUME NEW i \in Handles, TeardownLeaves(i) PROVE IndInv'
    <2> USE <1>0, <1>10 DEF TeardownLeaves, poolVars, clientVars
    <2>1. \A j \in Handles : Holders(j)' = Holders(j)
      BY DEF Holders
    <2>2. TypeOK' /\ MasterHeld'
      BY PoolAssumption DEF TypeOK, Stages, MasterHeld
    <2>3. ClientsServed' /\ TeardownIdle' /\ Registered' /\ ClosedIsMarked' /\ IdleHasTimer'
      BY PoolAssumption DEF ClientsServed, TeardownIdle, Registered, ClosedIsMarked, IdleHasTimer
    <2>4. CountIsExact'
      BY <2>1 DEF CountIsExact
    <2> QED
      BY <2>2, <2>3, <2>4 DEF IndInv
  <1>11. ASSUME NEW i \in Handles, TeardownGoesOn(i) PROVE IndInv'
    <2> USE <1>0, <1>11 DEF TeardownGoesOn, poolVars, clientVars
    <2>1. \A j \in Handles : Holders(j)' = Holders(j)
      BY DEF Holders
    <2>2. TypeOK' /\ MasterHeld'
      BY DEF TypeOK, Stages, MasterHeld
    <2>3. ClientsServed' /\ TeardownIdle' /\ Registered' /\ ClosedIsMarked' /\ IdleHasTimer'
      BY DEF ClientsServed, TeardownIdle, Registered, ClosedIsMarked, IdleHasTimer
    <2>4. CountIsExact'
      BY <2>1 DEF CountIsExact
    <2> QED
      BY <2>2, <2>3, <2>4 DEF IndInv
  <1>12. ASSUME NEW i \in Handles, TeardownCloses(i) PROVE IndInv'
    <2> USE <1>0, <1>12 DEF TeardownCloses, clientVars
    <2>1. \A j \in Handles : Holders(j)' = Holders(j)
      BY DEF Holders
    <2>2. Holders(i) = {}
      BY HoldersFinite, FS_EmptySet DEF TeardownIdle, CountIsExact
    <2>3. TypeOK' /\ MasterHeld'
      BY DEF TypeOK, Stages, MasterHeld
    <2>4. ClientsServed'
      BY <2>2 DEF ClientsServed, Holders, TypeOK
    <2>5. TeardownIdle' /\ Registered'
      BY DEF TeardownIdle, Registered, TypeOK
    <2>6. ClosedIsMarked' /\ IdleHasTimer'
      BY DEF ClosedIsMarked, IdleHasTimer, TypeOK
    <2>7. CountIsExact'
      BY <2>1 DEF CountIsExact, TypeOK
    <2> QED
      BY <2>3, <2>4, <2>5, <2>6, <2>7 DEF IndInv
  <1>13. ASSUME NEW i \in Handles, TeardownDeletes(i) PROVE IndInv'
    <2> USE <1>0, <1>13 DEF TeardownDeletes, clientVars
    <2>1. \A j \in Handles : Holders(j)' = Holders(j)
      BY DEF Holders
    <2>2. ~dbOpen[i] /\ sig[i] \in Sigs /\ openedCaches[sig[i]] = i
      BY DEF TeardownIdle
    <2>3. TypeOK' /\ MasterHeld'
      BY <2>2, PoolAssumption DEF TypeOK, Stages, MasterHeld
    <2>4. ClientsServed'
      BY <2>2, PoolAssumption DEF ClientsServed, MasterHeld, TypeOK
    <2>5. Registered'
      BY <2>2, PoolAssumption DEF Registered, TypeOK
    <2>6. TeardownIdle' /\ ClosedIsMarked'
      BY <2>2, PoolAssumption DEF TeardownIdle, ClosedIsMarked, TypeOK
    <2>7. IdleHasTimer'
      BY <2>2 DEF IdleHasTimer, TypeOK
    <2>8. CountIsExact'
      BY <2>1, <2>2 DEF CountIsExact, TypeOK
    <2> QED
      BY <2>3, <2>4, <2>5, <2>6, <2>7, <2>8 DEF IndInv
  <1>14. CASE UNCHANGED vars
    <2>1. \A j \in Handles : Holders(j)' = Holders(j)
      BY <1>14 DEF Holders, vars, clientVars
    <2> QED
      BY <1>0, <1>14, <2>1 DEF IndInv, vars, clientVars, poolVars, TypeOK, MasterHeld, ClientsServed,
         TeardownIdle, ClosedIsMarked, Registered, CountIsExact, IdleHasTimer
  <1> QED
    BY <1>1, <1>2, <1>3, <1>4, <1>5, <1>6, <1>7, <1>8, <1>9, <1>10, <1>11, <1>12, <1>13, <1>14
       DEF Next, ClientStep, Teardown

\* IndInv is an invariant of the pool.
LEMMA PoolInv == Spec => []IndInv
  BY InitInv, NextInv, PTL DEF Spec

\* What the inductive invariant says in the words of the specification.
LEMMA IndInvImplies == IndInv => UsedIsOpen /\ CountIsExact /\ OpenIsRegistered /\ IdleHasTimer
  <1> SUFFICES ASSUME IndInv
               PROVE  UsedIsOpen /\ CountIsExact /\ OpenIsRegistered /\ IdleHasTimer
    OBVIOUS
  <1>1. UsedIsOpen
    BY DEF IndInv, ClientsServed, UsedIsOpen, Holders
  <1>2. OpenIsRegistered
    BY PoolAssumption DEF IndInv, Registered, OpenIsRegistered, UsedByLocked, TypeOK
  <1> QED
    BY <1>1, <1>2 DEF IndInv

\* From New's return to its Close, a client's cache is never closed under it.
THEOREM PoolUsedIsOpen == Spec => []UsedIsOpen
  BY PoolInv, IndInvImplies, PTL

\* The reference count of Close and New is exact while the cache is open.
THEOREM PoolCountIsExact == Spec => []CountIsExact
  BY PoolInv, IndInvImplies, PTL

\* One open cache for given options, and the map knows it.
THEOREM PoolOpenIsRegistered == Spec => []OpenIsRegistered
  BY PoolInv, IndInvImplies, PTL

\* No idle cache is forgotten.
THEOREM PoolIdleHasTimer == Spec => []IdleHasTimer
  BY PoolInv, IndInvImplies, PTL

\* Types: the mutexes, counts and handles of any number of clients.
THEOREM PoolTyping == Spec => []TypeOK
  <1>1. IndInv => TypeOK
    BY DEF IndInv
  <1> QED
    BY <1>1, PoolInv, PTL

-----------------------------------------------------------------------------
(* The refinement.                                                         *)

\* The cache a caller has and the options that are open, in the words of SharedCache.
AbsUses == [c \in Clients |-> IF pc[c] \in {"using", "closing"} THEN want[c] ELSE None]
AbsOpen == {sig[i] : i \in {j \in Handles : dbOpen[j]}}

\* Steps that touch neither what is open nor who has it.
LEMMA SameService ==
    ASSUME UNCHANGED <<sig, dbOpen>>,
           \A c \in Clients : IF pc'[c] \in {"using", "closing"}
                              THEN pc[c] \in {"using", "closing"} /\ want'[c] = want[c]
                              ELSE pc[c] \notin {"using", "closing"}
    PROVE  AbsUses' = AbsUses /\ AbsOpen' = AbsOpen
  BY DEF AbsUses, AbsOpen

\* A step of the pool is New, Close or CloseIdle, or nothing a caller sees.
LEMMA NextService == IndInv /\ [Next]_vars => [Service!Next]_(Service!vars)
  <1> SUFFICES ASSUME IndInv, [Next]_vars,
                      ~(AbsUses' = AbsUses /\ AbsOpen' = AbsOpen)
               PROVE  Service!Next
    BY DEF Service!vars, AbsUses, AbsOpen
  <1>0. /\ TypeOK /\ MasterHeld /\ ClientsServed /\ TeardownIdle
        /\ ClosedIsMarked /\ Registered /\ CountIsExact /\ IdleHasTimer
    BY DEF IndInv
  <1>1. ASSUME NEW c \in Clients, NewReuses(c) PROVE Service!Next
    <2>1. handle[c] \in Handles /\ want[c] \in Sigs /\ dbOpen[handle[c]] /\ sig[handle[c]] = want[c]
      BY <1>0, <1>1, PoolAssumption DEF NewReuses, ClientsServed, Registered, MasterHeld
    <2>2. AbsUses[c] = None
      BY <1>1 DEF NewReuses, AbsUses
    <2>3. AbsUses' = [AbsUses EXCEPT ![c] = want[c]]
      BY <1>0, <1>1 DEF NewReuses, AbsUses, TypeOK
    <2>4. AbsOpen' = AbsOpen \cup {want[c]}
      BY <1>1, <2>1 DEF NewReuses, AbsOpen
    <2>5. Service!New(c, want[c])
      BY <2>2, <2>3, <2>4 DEF Service!New, AbsUses, AbsOpen
    <2> QED
      BY <2>1, <2>5 DEF Service!Next, Service!New
  <1>2. ASSUME NEW c \in Clients, NewOpens(c) PROVE Service!Next
    <2>1. want[c] \in Sigs
      BY <1>0, <1>2 DEF NewOpens, ClientsServed
    <2>2. AbsUses[c] = None
      BY <1>2 DEF NewOpens, AbsUses
    <2>3. AbsUses' = [AbsUses EXCEPT ![c] = want[c]]
      BY <1>0, <1>2 DEF NewOpens, AbsUses, TypeOK
    <2>4. PICK i \in Handles : /\ ~dbOpen[i]
                               /\ dbOpen' = [dbOpen EXCEPT ![i] = TRUE]
                               /\ sig' = [sig EXCEPT ![i] = want[c]]
      BY <1>2 DEF NewOpens, Unreferenced
    <2>5. AbsOpen' = AbsOpen \cup {want[c]}
      BY <1>0, <2>4 DEF AbsOpen, TypeOK
    <2>6. Service!New(c, want[c])
      BY <2>2, <2>3, <2>5 DEF Service!New, AbsUses, AbsOpen
    <2> QED
      BY <2>1, <2>6 DEF Service!Next, Service!New
  <1>3. ASSUME NEW c \in Clients, Closes(c) PROVE Service!Next
    <2>1. AbsUses[c] # None
      BY <1>0, <1>3, PoolAssumption DEF Closes, AbsUses, ClientsServed
    <2>2. AbsUses' = [AbsUses EXCEPT ![c] = None]
      BY <1>0, <1>3 DEF Closes, AbsUses, TypeOK
    <2>3. AbsOpen' = AbsOpen
      BY <1>3 DEF Closes, AbsOpen
    <2>4. Service!Close(c)
      BY <2>1, <2>2, <2>3 DEF Service!Close, AbsUses, AbsOpen
    <2> QED
      BY <2>4 DEF Service!Next
  <1>4. ASSUME NEW i \in Handles, TeardownCloses(i) PROVE Service!Next
    <2>1. dbOpen[i] /\ sig[i] \in Sigs
      BY <1>0, <1>4 DEF TeardownCloses, TeardownIdle, Registered
    <2>2. Holders(i) = {}
      BY <1>0, <1>4, HoldersFinite, FS_EmptySet DEF TeardownCloses, TeardownIdle, CountIsExact
    <2>3. \A c \in Clients : AbsUses[c] # sig[i]
      BY <1>0, <2>1, <2>2, PoolAssumption DEF AbsUses, ClientsServed, Registered, Holders
    <2>4. AbsUses' = AbsUses
      BY <1>4 DEF TeardownCloses, AbsUses, clientVars
    <2>5. \A j \in Handles : dbOpen[j] /\ sig[j] = sig[i] => j = i
      BY <1>0, <2>1 DEF Registered
    <2>6. AbsOpen' = AbsOpen \ {sig[i]} /\ sig[i] \in AbsOpen
      BY <1>0, <1>4, <2>1, <2>5 DEF TeardownCloses, AbsOpen, TypeOK
    <2>7. Service!CloseIdle(sig[i])
      BY <2>3, <2>4, <2>6 DEF Service!CloseIdle, AbsUses, AbsOpen
    <2> QED
      BY <2>1, <2>7 DEF Service!Next, Service!CloseIdle
  <1>5. ASSUME NEW c \in Clients,
               (\E s \in Sigs : CallNew(c, s)) \/ NewLocks(c) \/ NewFinds(c) \/ NewFails(c) \/ CallClose(c)
        PROVE  FALSE
    BY <1>0, <1>5, SameService
       DEF CallNew, NewLocks, NewFinds, NewFails, CallClose, poolVars, TypeOK
  <1>6. ASSUME NEW i \in Handles,
               TimerFires(i) \/ TeardownLeaves(i) \/ TeardownGoesOn(i) \/ TeardownDeletes(i)
        PROVE  FALSE
    BY <1>6, SameService
       DEF TimerFires, TeardownLeaves, TeardownGoesOn, TeardownDeletes, poolVars, clientVars
  <1>7. ~UNCHANGED vars
    BY SameService DEF vars, poolVars, clientVars
  <1> QED
    BY <1>1, <1>2, <1>3, <1>4, <1>5, <1>6, <1>7 DEF Next, ClientStep, Teardown

\* However New, Close and the timers interleave, their callers have an open cache
\* as SharedCache says.
THEOREM PoolImplementsService == Spec => ImplementsService
  <1>1. Init => Service!Init
    BY DEF Init, Service!Init
  <1> QED
    BY <1>1, NextService, PoolInv, PTL DEF Spec, ImplementsService, Service!Spec
=============================================================================
