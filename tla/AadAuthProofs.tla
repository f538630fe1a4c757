--------------------------- MODULE AadAuthProofs ---------------------------
(***************************************************************************)
(* The tables stay consistent for any number of processes, users,          *)
(* passwords, configurations and uids, whatever the names hash to.         *)
(***************************************************************************)
EXTENDS AadAuth, FiniteSetTheorems, TLAPS

\* The keys of db/passwd.sql and db/shadow.sql.
UniqueKeys ==
    /\ \A r, q \in passwd : r.login = q.login \/ r.uid = q.uid => r = q
    /\ \A g, h \in groups : g.name = h.name \/ g.gid = h.gid => g = h
    /\ \A s, t \in shadow : s.uid = t.uid => s = t

TablesInv == CacheTypeOK /\ UniqueKeys /\ EveryUserComplete /\ ShadowHasUser

Inv == TablesInv /\ PamTypeOK

-----------------------------------------------------------------------------
(* The transactions.                                                       *)

\* The fields of a new row.
LEMMA NewRows ==
    ASSUME NEW u \in Users, NEW id \in Uids
    PROVE  /\ [login |-> u, uid |-> id, gid |-> id, last_online_auth |-> ZeroTime] \in PasswdRows
           /\ [uid |-> id, password |-> EmptyHash] \in ShadowRows
           /\ [name |-> u, gid |-> id] \in GroupRows
  BY DEF PasswdRows, ShadowRows, GroupRows, ZeroTime, Hashes

\* insertUser keeps the tables consistent when no constraint stops it.
LEMMA InsertKeeps ==
    ASSUME TablesInv, NEW u \in Users, NEW id \in Uids,
           InsertAllowed(u, id), insertUser(u, id), now' = now
    PROVE  TablesInv'
  <1> DEFINE np == [login |-> u, uid |-> id, gid |-> id, last_online_auth |-> ZeroTime]
             ns == [uid |-> id, password |-> EmptyHash]
             ng == [name |-> u, gid |-> id]
  <1>1. /\ passwd' = passwd \cup {np} /\ shadow' = shadow \cup {ns}
        /\ groups' = groups \cup {ng} /\ uid_gid' = uid_gid \cup {<<id, id>>}
    BY DEF insertUser, InsertPasswd
  <1>2. np \in PasswdRows /\ ns \in ShadowRows /\ ng \in GroupRows /\ <<id, id>> \in Uids \X Uids
    BY NewRows
  <1>3. np.login = u /\ np.uid = id /\ np.gid = id /\ ns.uid = id /\ ng.name = u /\ ng.gid = id
    OBVIOUS
  <1>4. [name |-> np.login, gid |-> np.uid] = ng
    OBVIOUS
  <1> HIDE DEF np, ns, ng
  <1>5. CacheTypeOK'
    BY <1>1, <1>2 DEF TablesInv, CacheTypeOK
  <1>6. UniqueKeys'
    BY <1>1, <1>3 DEF TablesInv, UniqueKeys, InsertAllowed
  <1>7. EveryUserComplete'
    BY <1>1, <1>3, <1>4 DEF TablesInv, EveryUserComplete
  <1>8. ShadowHasUser'
    BY <1>1, <1>3 DEF TablesInv, ShadowHasUser
  <1> QED
    BY <1>5, <1>6, <1>7, <1>8 DEF TablesInv

\* updateOnlineAuthAndPassword changes no key.
LEMMA UpdateKeeps ==
    ASSUME TablesInv, NEW id \in Uids, NEW h \in Hashes,
           updateOnlineAuthAndPassword(id, h), now' = now
    PROVE  TablesInv'
  <1> DEFINE P(r) == IF r.uid = id THEN [r EXCEPT !.last_online_auth = now] ELSE r
             S(s) == IF s.uid = id THEN [s EXCEPT !.password = h] ELSE s
  <1>1. /\ passwd' = {P(r) : r \in passwd}
        /\ shadow' = {S(s) : s \in shadow}
        /\ groups' = groups /\ uid_gid' = uid_gid
    BY DEF updateOnlineAuthAndPassword, UpdatePasswd
  <1>2. \A r \in passwd : /\ P(r) \in PasswdRows
                          /\ P(r).login = r.login /\ P(r).uid = r.uid /\ P(r).gid = r.gid
    BY DEF TablesInv, CacheTypeOK, PasswdRows
  <1>3. \A s \in shadow : S(s) \in ShadowRows /\ S(s).uid = s.uid
    BY DEF TablesInv, CacheTypeOK, ShadowRows
  <1> HIDE DEF P, S
  <1>4. CacheTypeOK'
    BY <1>1, <1>2, <1>3 DEF TablesInv, CacheTypeOK
  <1>5. UniqueKeys'
    BY <1>1, <1>2, <1>3 DEF TablesInv, UniqueKeys
  <1>6. EveryUserComplete'
    <2> SUFFICES ASSUME NEW r \in passwd
                 PROVE  /\ P(r).gid = P(r).uid
                        /\ [name |-> P(r).login, gid |-> P(r).uid] \in groups
                        /\ <<P(r).uid, P(r).uid>> \in uid_gid
                        /\ \E s \in shadow' : s.uid = P(r).uid
      BY <1>1 DEF EveryUserComplete
    <2>1. PICK s \in shadow : s.uid = r.uid
      BY DEF TablesInv, EveryUserComplete
    <2>2. S(s) \in shadow' /\ S(s).uid = P(r).uid
      BY <1>1, <1>2, <1>3, <2>1
    <2> QED
      BY <1>2, <2>2 DEF TablesInv, EveryUserComplete
  <1>7. ShadowHasUser'
    BY <1>1, <1>2, <1>3 DEF TablesInv, ShadowHasUser
  <1> QED
    BY <1>4, <1>5, <1>6, <1>7 DEF TablesInv

\* Who is not purged shares no uid with who is.
LEMMA FreshIsNotStale ==
    ASSUME TablesInv, NEW t, NEW r \in FreshUsers(t)
    PROVE  r \in passwd /\ r.uid \notin StaleUids(t)
  BY DEF FreshUsers, StaleUids, TablesInv, UniqueKeys

\* A shadow row that is not purged belongs to a user who is not.
LEMMA KeptShadow ==
    ASSUME TablesInv, NEW t, NEW s \in shadow, s.uid \notin StaleUids(t)
    PROVE  \E r \in FreshUsers(t) : r.uid = s.uid
  BY DEF FreshUsers, StaleUids, TablesInv, ShadowHasUser

\* cleanUpDB removes whole users.
LEMMA CleanUpKeeps ==
    ASSUME TablesInv, NEW days, cleanUpDB(days), now' = now
    PROVE  TablesInv'
  <1> DEFINE t == now - days
  <1>1. /\ passwd' = FreshUsers(t)
        /\ shadow' = {s \in shadow : s.uid \notin StaleUids(t)}
        /\ uid_gid' = {m \in uid_gid : m[1] \notin StaleUids(t)}
        /\ groups' = {g \in groups : \E m \in uid_gid' : m[2] = g.gid}
    BY DEF cleanUpDB, CleanUpPasswd
  <1> HIDE DEF t
  <1>2. passwd' \subseteq passwd /\ shadow' \subseteq shadow
    BY <1>1 DEF FreshUsers
  <1>3. groups' \subseteq groups /\ uid_gid' \subseteq uid_gid
    BY <1>1
  <1>4. CacheTypeOK'
    BY <1>2, <1>3 DEF TablesInv, CacheTypeOK
  <1>5. UniqueKeys'
    BY <1>2, <1>3 DEF TablesInv, UniqueKeys
  <1>6. EveryUserComplete'
    <2> SUFFICES ASSUME NEW r \in passwd'
                 PROVE  /\ r.gid = r.uid
                        /\ [name |-> r.login, gid |-> r.uid] \in groups'
                        /\ <<r.uid, r.uid>> \in uid_gid'
                        /\ \E s \in shadow' : s.uid = r.uid
      BY DEF EveryUserComplete
    <2>1. r \in passwd /\ r.uid \notin StaleUids(t)
      BY <1>1, FreshIsNotStale
    <2>2. /\ r.gid = r.uid
          /\ [name |-> r.login, gid |-> r.uid] \in groups
          /\ <<r.uid, r.uid>> \in uid_gid
          /\ \E s \in shadow : s.uid = r.uid
      BY <2>1 DEF TablesInv, EveryUserComplete
    <2>3. <<r.uid, r.uid>> \in uid_gid'
      BY <1>1, <2>1, <2>2
    <2>4. [name |-> r.login, gid |-> r.uid] \in groups'
      BY <1>1, <2>2, <2>3
    <2> QED
      BY <1>1, <2>1, <2>2, <2>3, <2>4
  <1>7. ShadowHasUser'
    BY <1>1, KeptShadow DEF ShadowHasUser
  <1> QED
    BY <1>4, <1>5, <1>6, <1>7 DEF TablesInv

\* So does cleanup_expired_entries, but for what it leaves of them behind.
LEMMA NssCleanUpKeeps ==
    ASSUME TablesInv, NssOpen
    PROVE  TablesInv'
  <1> DEFINE t == purge_time
  <1>1. /\ passwd' = FreshUsers(t)
        /\ shadow' = {s \in shadow : s.uid \notin StaleUids(t)}
        /\ uid_gid' = uid_gid
        /\ groups' = {g \in groups : \E m \in uid_gid : m[2] = g.gid}
        /\ now' = now
    BY DEF NssOpen, cleanup_expired_entries
  <1> HIDE DEF t
  <1>2. passwd' \subseteq passwd /\ shadow' \subseteq shadow
    BY <1>1 DEF FreshUsers
  <1>3. groups' \subseteq groups
    BY <1>1
  <1>4. CacheTypeOK'
    BY <1>1, <1>2, <1>3 DEF TablesInv, CacheTypeOK
  <1>5. UniqueKeys'
    BY <1>2, <1>3 DEF TablesInv, UniqueKeys
  <1>6. EveryUserComplete'
    <2> SUFFICES ASSUME NEW r \in passwd'
                 PROVE  /\ r.gid = r.uid
                        /\ [name |-> r.login, gid |-> r.uid] \in groups'
                        /\ <<r.uid, r.uid>> \in uid_gid'
                        /\ \E s \in shadow' : s.uid = r.uid
      BY DEF EveryUserComplete
    <2>1. r \in passwd /\ r.uid \notin StaleUids(t)
      BY <1>1, FreshIsNotStale
    <2>2. /\ r.gid = r.uid
          /\ [name |-> r.login, gid |-> r.uid] \in groups
          /\ <<r.uid, r.uid>> \in uid_gid
          /\ \E s \in shadow : s.uid = r.uid
      BY <2>1 DEF TablesInv, EveryUserComplete
    <2>3. [name |-> r.login, gid |-> r.uid] \in groups'
      BY <1>1, <2>2
    <2> QED
      BY <1>1, <2>1, <2>2, <2>3
  <1>7. ShadowHasUser'
    BY <1>1, KeptShadow DEF ShadowHasUser
  <1> QED
    BY <1>4, <1>5, <1>6, <1>7 DEF TablesInv

\* A step that leaves the tables alone, the clock apart.
LEMMA SameTables ==
    ASSUME TablesInv, UNCHANGED tables, now' \in Nat
    PROVE  TablesInv'
  BY DEF TablesInv, tables, CacheTypeOK, UniqueKeys, EveryUserComplete, ShadowHasUser

\* cache.New, purge included.
LEMMA OpenKeeps ==
    ASSUME TablesInv, NEW mode, NEW exp, PurgeOnOpen(mode, exp), now' = now
    PROVE  TablesInv'
  <1>1. CASE mode = shadowRWMode /\ exp # 0
    BY <1>1, CleanUpKeeps DEF PurgeOnOpen
  <1>2. CASE ~(mode = shadowRWMode /\ exp # 0)
    BY <1>2, SameTables DEF PurgeOnOpen, TablesInv, CacheTypeOK
  <1> QED
    BY <1>1, <1>2

-----------------------------------------------------------------------------
(* The steps of a login.                                                   *)

\* uid++ stays in 32 bits.
LEMMA NextUidType == ASSUME NEW id \in Uids PROVE NextUid(id) \in Uids
  BY CacheAssumption DEF NextUid, Uids

\* The uids of the code are 32 bits wide.
LEMMA HashUids == \A u \in Users : UidHash[u] \in Uids
  BY CacheAssumption DEF Uids

\* A row of GetUserByName carries a uid.
LEMMA RowUids ==
    ASSUME CacheTypeOK, NEW mode, NEW u, NEW r \in GetUserByName(mode, u)
    PROVE  r.uid \in Uids
  <1>1. CASE mode > shadowNotAvailableMode
    <2>1. PICK j \in passwd \X shadow :
            r = [uid |-> j[1].uid, last_online_auth |-> j[1].last_online_auth, password |-> j[2].password]
      BY <1>1 DEF GetUserByName
    <2>2. j[1] \in PasswdRows
      BY <2>1 DEF CacheTypeOK
    <2> QED
      BY <2>1, <2>2 DEF PasswdRows
  <1>2. CASE ~(mode > shadowNotAvailableMode)
    <2>1. PICK q \in passwd :
            r = [uid |-> q.uid, last_online_auth |-> q.last_online_auth, password |-> EmptyHash]
      BY <1>2 DEF GetUserByName
    <2> QED
      BY <2>1 DEF CacheTypeOK, PasswdRows
  <1> QED
    BY <1>1, <1>2

\* Goto and Return keep the types of a session.
LEMMA GotoType ==
    ASSUME PamTypeOK, NEW p \in Procs, NEW l \in Pcs, NEW id \in Uids, pc[p] # "idle",
           Goto(p, l, id), opened' \in [Procs -> SUBSET Int],
           lastUpdate' \in [Users -> {None} \cup (Hashes \X Int)]
    PROVE  PamTypeOK'
  BY DEF PamTypeOK, Goto

\* A step that ends a login keeps the type of the sessions.
LEMMA ReturnType ==
    ASSUME PamTypeOK, NEW p \in Procs, NEW o \in Outcomes \cup {None},
           Return(p, o), opened' \in [Procs -> SUBSET Int],
           lastUpdate' \in [Users -> {None} \cup (Hashes \X Int)]
    PROVE  PamTypeOK'
  <1>1. 0 \in Uids
    BY CacheAssumption DEF Uids
  <1>2. pc' = [pc EXCEPT ![p] = "idle"] /\ "idle" \in Pcs
    BY DEF Return, Pcs
  <1>3. /\ pc' \in [Procs -> Pcs]
        /\ user' \in [Procs -> Users \cup {None}]
        /\ password' \in [Procs -> Passwords \cup {None}]
        /\ conf' \in [Procs -> Configs \cup {None}]
        /\ uid' \in [Procs -> Uids]
        /\ outcome' \in [Procs -> Outcomes \cup {None}]
    BY <1>1, <1>2 DEF PamTypeOK, Return
  <1>4. \A q \in Procs : pc'[q] # "idle" =>
          user'[q] \in Users /\ password'[q] \in Passwords /\ conf'[q] \in Configs
    BY <1>2 DEF PamTypeOK, Return
  <1> QED
    BY <1>3, <1>4 DEF PamTypeOK

\* The effective expiration of a configuration is a number of days.
LEMMA ExpInt == ASSUME PamTypeOK, NEW p \in Procs, pc[p] # "idle" PROVE Exp(p) \in Int
  BY CacheAssumption, PamAssumption DEF Exp, OfflineExpiration, PamTypeOK

\* The initial state has the invariant.
LEMMA InitInv == Init => Inv
  <1> SUFFICES ASSUME Init PROVE Inv
    OBVIOUS
  <1>1. TablesInv
    BY DEF Init, CacheInit, TablesInv, CacheTypeOK, UniqueKeys, EveryUserComplete, ShadowHasUser
  <1>2. PamTypeOK
    BY CacheAssumption DEF Init, PamInit, PamTypeOK, Pcs, Uids
  <1> QED
    BY <1>1, <1>2 DEF Inv

\* Every step of a login keeps the types of the sessions.
LEMMA PamStepType ==
    ASSUME CacheTypeOK, PamTypeOK, NEW p \in Procs, PamStep(p) \/ PamFailure(p)
    PROVE  PamTypeOK'
  <1>0. /\ opened \in [Procs -> SUBSET Int] /\ uid[p] \in Uids /\ now \in Nat
        /\ lastUpdate \in [Users -> {None} \cup (Hashes \X Int)]
        /\ pc[p] # "idle" => user[p] \in Users /\ password[p] \in Passwords /\ conf[p] \in Configs
    BY DEF PamTypeOK, CacheTypeOK
  <1>1. CASE AadAnswers(p)
    BY <1>0, <1>1, GotoType, ReturnType DEF AadAnswers, Pcs, Outcomes, AuthErrors
  <1>2. CASE NewReuses(p)
    BY <1>0, <1>2, GotoType DEF NewReuses, AfterNew, Pcs
  <1>3. CASE NewOpens(p)
    <2>1. opened' \in [Procs -> SUBSET Int]
      BY <1>0, <1>3, ExpInt DEF NewOpens
    <2> QED
      BY <1>0, <1>3, <2>1, GotoType DEF NewOpens, AfterNew, Pcs
  <1>4. CASE NewFails(p)
    BY <1>0, <1>4, ReturnType DEF NewFails, Outcomes, SystemErrors
  <1>5. CASE CanAuthenticate(p)
    <2>1. OfflineOutcome(p, Rows(p)) \in Outcomes
      BY DEF OfflineOutcome, Outcomes, AuthErrors, Successes
    <2> QED
      BY <1>0, <1>5, <2>1, ReturnType DEF CanAuthenticate
  <1>6. CASE LookUp(p)
    <2>1. \A r \in Rows(p) : r.uid \in Uids
      BY RowUids DEF Rows
    <2> QED
      BY <1>0, <1>6, <2>1, GotoType, HashUids DEF LookUp, Pcs
  <1>7. CASE Probe(p)
    BY <1>0, <1>7, NextUidType, GotoType, ReturnType DEF Probe, Pcs, Outcomes, AuthErrors
  <1>8. CASE InsertUser(p)
    BY <1>0, <1>8, GotoType, ReturnType DEF InsertUser, Pcs, Outcomes, AuthErrors
  <1>9. CASE UpdateUser(p)
    <2>1. encryptPassword(password[p]) \in Hashes
      BY <1>0, <1>9 DEF UpdateUser, Hashes
    <2>2. lastUpdate' \in [Users -> {None} \cup (Hashes \X Int)]
      <3>1. CASE UNCHANGED lastUpdate
        BY <1>0, <3>1
      <3>2. CASE lastUpdate' = [lastUpdate EXCEPT ![user[p]] = <<encryptPassword(password[p]), now>>]
        <4>1. <<encryptPassword(password[p]), now>> \in Hashes \X Int
          BY <1>0, <2>1
        <4> QED
          BY <1>0, <3>2, <4>1
      <3> QED
        BY <1>9, <3>1, <3>2 DEF UpdateUser
    <2> QED
      BY <1>0, <1>9, <2>2, ReturnType DEF UpdateUser, Outcomes, AuthErrors, Successes
  <1>10. CASE DbError(p)
    BY <1>0, <1>10, ReturnType DEF DbError, Outcomes, AuthErrors
  <1> QED
    BY <1>1, <1>2, <1>3, <1>4, <1>5, <1>6, <1>7, <1>8, <1>9, <1>10 DEF PamStep, PamFailure

\* So does every step of the system.
LEMMA NextType ==
    ASSUME CacheTypeOK, PamTypeOK, [Next]_vars
    PROVE  PamTypeOK'
  <1>0. /\ opened \in [Procs -> SUBSET Int]
        /\ lastUpdate \in [Users -> {None} \cup (Hashes \X Int)]
    BY DEF PamTypeOK
  <1>1. ASSUME NEW p \in Procs, NEW u \in Users, NEW pw \in Passwords, NEW c \in Configs,
               Start(p, u, pw, c)
        PROVE  PamTypeOK'
    BY <1>1 DEF Start, PamTypeOK, Pcs
  <1>2. ASSUME NEW p \in Procs, StartFails(p) PROVE PamTypeOK'
    BY <1>0, <1>2, ReturnType DEF StartFails, Outcomes, SystemErrors
  <1>3. ASSUME NEW p \in Procs, NEW e \in opened[p], Teardown(p, e) PROVE PamTypeOK'
    BY <1>3 DEF Teardown, PamTypeOK, session
  <1>4. ASSUME NEW p \in Procs, Crash(p) PROVE PamTypeOK'
    <2>1. opened' \in [Procs -> SUBSET Int]
      BY <1>0, <1>4 DEF Crash
    <2> QED
      BY <1>0, <1>4, <2>1, ReturnType DEF Crash
  <1>5. CASE UNCHANGED pamVars
    BY <1>5 DEF pamVars, session, PamTypeOK
  <1> QED
    BY <1>1, <1>2, <1>3, <1>4, <1>5, PamStepType DEF Next, Step, CliOpen, NssLookup, Tick, vars

\* Every step of a login keeps the tables consistent.
LEMMA PamStepTables ==
    ASSUME Inv, NEW p \in Procs, PamStep(p) \/ PamFailure(p)
    PROVE  TablesInv'
  <1> USE DEF Inv
  <1>0. /\ uid[p] \in Uids /\ now \in Nat
        /\ pc[p] # "idle" => user[p] \in Users /\ password[p] \in Passwords
    BY DEF PamTypeOK, TablesInv, CacheTypeOK
  <1>1. CASE UNCHANGED <<tables, now>>
    BY <1>0, <1>1, SameTables
  <1>2. CASE NewOpens(p)
    BY <1>0, <1>2, OpenKeeps DEF NewOpens
  <1>3. CASE InsertUser(p)
    BY <1>0, <1>3, SameTables, InsertKeeps DEF InsertUser
  <1>4. CASE UpdateUser(p)
    <2>1. encryptPassword(password[p]) \in Hashes
      BY <1>0, <1>4 DEF UpdateUser, Hashes
    <2> QED
      BY <1>0, <1>4, <2>1, SameTables, UpdateKeeps DEF UpdateUser
  <1> QED
    BY <1>1, <1>2, <1>3, <1>4 DEF PamStep, PamFailure, AadAnswers, NewReuses, CanAuthenticate,
       LookUp, Probe, NewFails, DbError

\* Inv is inductive.
LEMMA NextInv == Inv /\ [Next]_vars => Inv'
  <1> SUFFICES ASSUME Inv, [Next]_vars PROVE Inv'
    OBVIOUS
  <1> USE DEF Inv
  <1>0. now \in Nat /\ CacheTypeOK
    BY DEF TablesInv, CacheTypeOK
  <1>1. CASE UNCHANGED <<tables, now>>
    BY <1>0, <1>1, NextType, SameTables
  <1>2. ASSUME NEW p \in Procs, PamStep(p) \/ PamFailure(p) PROVE Inv'
    BY <1>0, <1>2, NextType, PamStepTables
  <1>3. CASE CliOpen
    BY <1>0, <1>3, NextType, OpenKeeps DEF CliOpen
  <1>4. CASE NssLookup
    BY <1>0, <1>4, NextType, NssCleanUpKeeps DEF NssLookup
  <1>5. CASE Tick
    BY <1>0, <1>5, NextType, SameTables DEF Tick
  <1> QED
    BY <1>1, <1>2, <1>3, <1>4, <1>5 DEF Next, Step, Start, StartFails, Teardown, Crash, vars

\* Inv is an invariant of the system.
LEMMA SystemInv == Spec => []Inv
  BY InitInv, NextInv, PTL DEF Spec

\* The keys and the completeness of users leave one name to an id.
LEMMA InvImplies == Inv => OneIdPerName /\ EveryUserComplete /\ ShadowHasUser
  <1> SUFFICES ASSUME Inv
               PROVE  OneIdPerName /\ EveryUserComplete /\ ShadowHasUser
    OBVIOUS
  <1>1. \A id : \A r \in passwd, g \in groups : r.uid = id /\ g.gid = id => r.login = g.name
    <2> SUFFICES ASSUME NEW r \in passwd, NEW g \in groups, r.uid = g.gid
                 PROVE  r.login = g.name
      OBVIOUS
    <2> DEFINE ng == [name |-> r.login, gid |-> r.uid]
    <2>1. ng \in groups /\ ng.gid = r.uid /\ ng.name = r.login
      BY DEF Inv, TablesInv, EveryUserComplete
    <2> HIDE DEF ng
    <2> QED
      BY <2>1 DEF Inv, TablesInv, UniqueKeys
  <1>2. \A id \in Uids : \A m, n \in IdHolders(id) : m = n
    BY <1>1 DEF IdHolders, Inv, TablesInv, UniqueKeys
  <1> QED
    BY <1>2 DEF Inv, TablesInv, UniqueKeys, OneIdPerName

\* Types: what every process and every table may hold.
THEOREM Typing == Spec => []TypeOK
  <1>1. Init => lapsed \in BOOLEAN
    BY DEF Init
  <1>2. lapsed \in BOOLEAN /\ [Next]_vars => (lapsed \in BOOLEAN)'
    BY DEF Next, vars
  <1>3. Inv /\ lapsed \in BOOLEAN => TypeOK
    BY DEF Inv, TablesInv, TypeOK
  <1> QED
    BY <1>1, <1>2, <1>3, SystemInv, PTL DEF Spec

\* No two people share a name or an id of the cache, whatever names hash to and
\* however insertUser, cleanUpDB and the NSS purge are interleaved.
THEOREM UniqueIds == Spec => []OneIdPerName
  BY SystemInv, InvImplies, PTL

\* No interleaving leaves a passwd row without its group, its membership and
\* its shadow row.
THEOREM CompleteUsers == Spec => []EveryUserComplete
  BY SystemInv, InvImplies, PTL

\* No interleaving leaves a credential without its user, whose key would refuse the next
\* user of the uid.
THEOREM NoOrphanCredential == Spec => []ShadowHasUser
  BY SystemInv, InvImplies, PTL

-----------------------------------------------------------------------------
(* Whose credential is cached.                                             *)

\* A stored credential is its owner's last, with its day.
StoredIsOwn ==
    \A r \in passwd, s \in shadow :
        r.uid = s.uid /\ s.password # EmptyHash => lastUpdate[r.login] = <<s.password, r.last_online_auth>>

\* Who is about to update selects its own user by uid, and no other.
UpdatesOwn ==
    \A p \in Procs : pc[p] = "update" => \A r \in passwd : r.uid = uid[p] <=> r.login = user[p]

\* Purges, and steps that leave the tables alone.
LEMMA FewerRowsCred ==
    ASSUME StoredIsOwn, passwd' \subseteq passwd, shadow' \subseteq shadow, lastUpdate' = lastUpdate
    PROVE  StoredIsOwn'
  BY DEF StoredIsOwn

\* A purge on opening removes rows only.
LEMMA OpenShrinks ==
    ASSUME NEW mode, NEW exp, PurgeOnOpen(mode, exp)
    PROVE  passwd' \subseteq passwd /\ shadow' \subseteq shadow /\ groups' \subseteq groups
  BY DEF PurgeOnOpen, cleanUpDB, CleanUpPasswd, FreshUsers, tables

\* So does that of the NSS module.
LEMMA NssShrinks ==
    ASSUME NssLookup
    PROVE  /\ passwd' \subseteq passwd /\ shadow' \subseteq shadow /\ groups' \subseteq groups
           /\ UNCHANGED pamVars
  BY DEF NssLookup, NssOpen, cleanup_expired_entries, FreshUsers

\* A new user has no credential, and finds none under its uid.
LEMMA InsertCred ==
    ASSUME StoredIsOwn, NEW u \in Users, NEW id \in Uids, InsertAllowed(u, id), insertUser(u, id),
           lastUpdate' = lastUpdate
    PROVE  StoredIsOwn'
  <1> DEFINE np == [login |-> u, uid |-> id, gid |-> id, last_online_auth |-> ZeroTime]
             ns == [uid |-> id, password |-> EmptyHash]
  <1>1. passwd' = passwd \cup {np} /\ shadow' = shadow \cup {ns}
    BY DEF insertUser, InsertPasswd
  <1>2. np.uid = id /\ ns.uid = id /\ ns.password = EmptyHash
    OBVIOUS
  <1> HIDE DEF np, ns
  <1>3. \A r \in passwd', s \in shadow' :
            r.uid = s.uid /\ s.password # EmptyHash => r \in passwd /\ s \in shadow
    BY <1>1, <1>2 DEF InsertAllowed
  <1> QED
    BY <1>3 DEF StoredIsOwn

\* The update of a login that selects its own row changes that row and no other.
LEMMA UpdateCred ==
    ASSUME Inv, StoredIsOwn, UpdatesOwn, NEW p \in Procs, pc[p] = "update",
           updateOnlineAuthAndPassword(uid[p], encryptPassword(password[p])),
           lastUpdate' = IF HasRow(p)
                         THEN [lastUpdate EXCEPT ![user[p]] = <<encryptPassword(password[p]), now>>]
                         ELSE lastUpdate
    PROVE  StoredIsOwn'
  <1> DEFINE id == uid[p]
             h == encryptPassword(password[p])
             P(r) == IF r.uid = id THEN [r EXCEPT !.last_online_auth = now] ELSE r
             S(s) == IF s.uid = id THEN [s EXCEPT !.password = h] ELSE s
  <1>1. passwd' = {P(r) : r \in passwd} /\ shadow' = {S(s) : s \in shadow}
    BY DEF updateOnlineAuthAndPassword, UpdatePasswd
  <1>2. \A r \in passwd : /\ r.uid = id => P(r).last_online_auth = now
                          /\ r.uid # id => P(r) = r
                          /\ P(r).login = r.login /\ P(r).uid = r.uid
    BY DEF Inv, TablesInv, CacheTypeOK, PasswdRows
  <1>3. \A s \in shadow : /\ s.uid = id => S(s).password = h
                          /\ s.uid # id => S(s) = s
                          /\ S(s).uid = s.uid
    BY DEF Inv, TablesInv, CacheTypeOK, ShadowRows
  <1>4. user[p] \in Users /\ lastUpdate \in [Users -> {None} \cup (Hashes \X Int)]
    BY DEF Inv, PamTypeOK
  <1>5. /\ HasRow(p) => lastUpdate'[user[p]] = <<h, now>>
        /\ \A u \in Users \ {user[p]} : lastUpdate'[u] = lastUpdate[u]
    BY <1>4
  <1>6. \A r \in passwd : /\ r.login \in Users /\ (r.uid = id <=> r.login = user[p])
                          /\ r.uid = id => HasRow(p)
    BY DEF UpdatesOwn, HasRow, Inv, TablesInv, CacheTypeOK, PasswdRows
  <1> HIDE DEF P, S, id, h
  <1> SUFFICES ASSUME NEW r \in passwd, NEW s \in shadow,
                      P(r).uid = S(s).uid, S(s).password # EmptyHash
               PROVE  lastUpdate'[P(r).login] = <<S(s).password, P(r).last_online_auth>>
    BY <1>1 DEF StoredIsOwn
  <1>7. CASE r.uid = id
    BY <1>2, <1>3, <1>5, <1>6, <1>7
  <1>8. CASE r.uid # id
    BY <1>2, <1>3, <1>5, <1>6, <1>8 DEF StoredIsOwn
  <1> QED
    BY <1>7, <1>8

\* A step of a login keeps credentials with their owners.
LEMMA PamStepCred ==
    ASSUME Inv, StoredIsOwn, UpdatesOwn, NEW p \in Procs, PamStep(p) \/ PamFailure(p)
    PROVE  StoredIsOwn'
  <1>0. pc[p] # "idle" => user[p] \in Users
    BY DEF Inv, PamTypeOK
  <1>1. CASE UNCHANGED <<tables, lastUpdate>>
    BY <1>1, FewerRowsCred DEF tables
  <1>2. CASE NewOpens(p)
    BY <1>2, OpenShrinks, FewerRowsCred DEF NewOpens
  <1>3. CASE InsertUser(p) /\ ~UNCHANGED tables
    <2>1. uid[p] \in Uids
      BY DEF Inv, PamTypeOK
    <2>2. user[p] \in Users /\ lastUpdate' = lastUpdate
      BY <1>0, <1>3 DEF InsertUser
    <2>3. InsertAllowed(user[p], uid[p]) /\ insertUser(user[p], uid[p])
      BY <1>3 DEF InsertUser
    <2> QED
      BY <2>1, <2>2, <2>3, InsertCred
  <1>4. CASE UpdateUser(p) /\ ~UNCHANGED <<tables, lastUpdate>>
    BY <1>4, UpdateCred DEF UpdateUser
  <1> QED
    BY <1>1, <1>2, <1>3, <1>4 DEF PamStep, PamFailure, AadAnswers, NewReuses, CanAuthenticate,
       LookUp, Probe, NewFails, DbError, InsertUser, UpdateUser

\* So does every step.
LEMMA StoredStep ==
    ASSUME Inv, StoredIsOwn, UpdatesOwn, [Next]_vars
    PROVE  StoredIsOwn'
  <1>1. CASE UNCHANGED <<tables, lastUpdate>>
    BY <1>1, FewerRowsCred DEF tables
  <1>2. ASSUME NEW p \in Procs, PamStep(p) \/ PamFailure(p) PROVE StoredIsOwn'
    BY <1>2, PamStepCred
  <1>3. CASE CliOpen
    BY <1>3, OpenShrinks, FewerRowsCred DEF CliOpen, pamVars
  <1>4. CASE NssLookup
    BY <1>4, NssShrinks, FewerRowsCred DEF pamVars
  <1> QED
    BY <1>1, <1>2, <1>3, <1>4 DEF Next, Step, Start, StartFails, Teardown, Crash, Tick, pamVars, vars

\* The history, and the credentials until a login has lost its row.
CredInv == Inv /\ lapsed \in BOOLEAN /\ (Stranded => lapsed) /\ CachedCredentialIsOwn

\* Until then who is about to update has a row, and uids are unique.
LEMMA CredMeans == ASSUME CredInv, ~lapsed PROVE StoredIsOwn /\ UpdatesOwn
  <1>1. StoredIsOwn
    BY DEF CredInv, CachedCredentialIsOwn, StoredIsOwn
  <1>2. ASSUME NEW p \in Procs, pc[p] = "update", NEW r \in passwd PROVE r.uid = uid[p] <=> r.login = user[p]
    <2>1. PICK own \in passwd : own.login = user[p] /\ own.uid = uid[p]
      BY <1>2 DEF CredInv, Stranded, HasRow
    <2> QED
      BY <1>2, <2>1 DEF CredInv, Inv, TablesInv, UniqueKeys
  <1> QED
    BY <1>1, <1>2 DEF UpdatesOwn

\* Every step keeps CredInv.
LEMMA NextCred == CredInv /\ [Next]_vars => CredInv'
  <1> SUFFICES ASSUME CredInv, [Next]_vars PROVE CredInv'
    OBVIOUS
  <1>1. Inv'
    BY NextInv DEF CredInv
  <1>2. lapsed' \in BOOLEAN /\ (Stranded' => lapsed') /\ (~lapsed' => ~lapsed)
    <2>1. CASE Next
      BY <2>1 DEF CredInv, Next
    <2>2. CASE UNCHANGED vars
      BY <2>2 DEF CredInv, vars, pamVars, session, tables, Stranded, HasRow
    <2> QED
      BY <2>1, <2>2
  <1>3. CachedCredentialIsOwn'
    <2>1. CASE lapsed'
      BY <2>1 DEF CachedCredentialIsOwn
    <2>2. CASE ~lapsed'
      BY <1>2, <2>2, CredMeans, StoredStep DEF CredInv, CachedCredentialIsOwn, StoredIsOwn
    <2> QED
      BY <2>1, <2>2
  <1> QED
    BY <1>1, <1>2, <1>3 DEF CredInv

\* CredInv is an invariant of the system.
LEMMA SystemCred == Spec => []CredInv
  <1>1. Init => CredInv
    BY InitInv DEF Init, CredInv, PamInit, CacheInit, Stranded, CachedCredentialIsOwn
  <1> QED
    BY <1>1, NextCred, PTL DEF Spec

\* Until a purge takes the row of a login that is about to update it, a cached
\* credential is its owner's last, for any processes, users and hash of names.
THEOREM CredentialsAreOwn == Spec => []CachedCredentialIsOwn
  <1>1. CredInv => CachedCredentialIsOwn
    BY DEF CredInv
  <1> QED
    BY <1>1, SystemCred, PTL

-----------------------------------------------------------------------------
(* What a success means.                                                   *)

\* Only Update's transaction and CanAuthenticate let a user in.
LEMMA WhoSucceeds ==
    ASSUME PamTypeOK, Next, NEW p \in Procs,
           outcome'[p] \in Successes, outcome'[p] # outcome[p]
    PROVE  \/ CanAuthenticate(p) /\ outcome'[p] = OfflineOutcome(p, Rows(p))
           \/ /\ pc[p] = "update" /\ outcome'[p] = "ok_online"
              /\ updateOnlineAuthAndPassword(uid[p], encryptPassword(password[p]))
  <1>0. outcome \in [Procs -> Outcomes \cup {None}]
    BY DEF PamTypeOK
  <1>1. outcome' # outcome
    OBVIOUS
  <1>2. ASSUME NEW q \in Procs, NEW o, Return(q, o) PROVE q = p /\ o = outcome'[p]
    BY <1>0, <1>2 DEF Return
  <1>3. ASSUME NEW o, o \in SystemErrors \cup AuthErrors \cup {None} PROVE o \notin Successes
    BY <1>3, NoneAssumption DEF SystemErrors, AuthErrors, Successes, Outcomes
  <1>4. ASSUME NEW q \in Procs, NEW o, Return(q, o) PROVE o \notin SystemErrors \cup AuthErrors \cup {None}
    BY <1>2, <1>3, <1>4
  <1>5. ASSUME NEW q \in Procs, NEW l, NEW id, Goto(q, l, id) PROVE FALSE
    BY <1>1, <1>5 DEF Goto
  <1>6. ASSUME NEW q \in Procs, NEW u, NEW pw, NEW c, Start(q, u, pw, c) PROVE FALSE
    <2>1. outcome' = [outcome EXCEPT ![q] = None]
      BY <1>6 DEF Start
    <2>2. outcome'[p] = None \/ outcome'[p] = outcome[p]
      BY <1>0, <2>1
    <2> QED
      BY <1>3, <2>2
  <1>7. ASSUME NEW q \in Procs, StartFails(q) \/ PamFailure(q) PROVE FALSE
    BY <1>4, <1>7 DEF StartFails, PamFailure, NewFails, DbError, SystemErrors, AuthErrors
  <1>8. ASSUME NEW q \in Procs, Crash(q) PROVE FALSE
    BY <1>4, <1>8 DEF Crash
  <1>9. ASSUME NEW q \in Procs, NEW e, Teardown(q, e) PROVE FALSE
    BY <1>1, <1>9 DEF Teardown, session
  <1>10. ASSUME NEW q \in Procs, AadAnswers(q) \/ NewReuses(q) \/ NewOpens(q) PROVE FALSE
    BY <1>4, <1>5, <1>10 DEF AadAnswers, NewReuses, NewOpens, AfterNew, AuthErrors
  <1>11. ASSUME NEW q \in Procs, LookUp(q) \/ Probe(q) \/ InsertUser(q) PROVE FALSE
    BY <1>4, <1>5, <1>11 DEF LookUp, Probe, InsertUser, AuthErrors
  <1>12. ASSUME NEW q \in Procs, CanAuthenticate(q)
         PROVE  CanAuthenticate(p) /\ outcome'[p] = OfflineOutcome(p, Rows(p))
    BY <1>2, <1>12 DEF CanAuthenticate
  <1>13. ASSUME NEW q \in Procs, UpdateUser(q)
         PROVE  /\ pc[p] = "update" /\ outcome'[p] = "ok_online"
                /\ updateOnlineAuthAndPassword(uid[p], encryptPassword(password[p]))
    BY <1>2, <1>4, <1>13 DEF UpdateUser, AuthErrors
  <1>14. CASE CliOpen \/ NssLookup \/ Tick
    BY <1>1, <1>14 DEF CliOpen, NssLookup, Tick, pamVars, session
  <1> QED
    BY <1>6, <1>7, <1>8, <1>9, <1>10, <1>11, <1>12, <1>13, <1>14 DEF Next, Step, PamStep

\* A duration is never longer than the days it was computed from.
LEMMA DurationBelow == ASSUME NEW d \in Nat PROVE Duration(d) \in Int /\ Duration(d) <= d
  <1>1. ASSUME NEW n \in Nat, NEW m \in Nat \ {0} PROVE n % m \in Int /\ n % m <= n
    BY <1>1
  <1>2. d + MaxDuration \in Nat /\ 2 * MaxDuration \in Nat \ {0}
    BY CacheAssumption
  <1> DEFINE w == (d + MaxDuration) % (2 * MaxDuration)
  <1>3. w \in Int /\ w <= d + MaxDuration
    BY <1>1, <1>2
  <1> HIDE DEF w
  <1>4. Duration(d) = w - MaxDuration
    BY DEF Duration, w
  <1> QED
    BY <1>3, <1>4, CacheAssumption

\* It is those days while they fit in 64 bits of nanoseconds.
LEMMA DurationExact == ASSUME NEW d \in Nat, d < MaxDuration PROVE Duration(d) = d
  <1>1. ASSUME NEW n \in Nat, NEW m \in Nat \ {0}, n < m PROVE n % m = n
    BY <1>1
  <1>2. d + MaxDuration \in Nat /\ 2 * MaxDuration \in Nat \ {0} /\ d + MaxDuration < 2 * MaxDuration
    BY CacheAssumption
  <1>3. (d + MaxDuration) % (2 * MaxDuration) = d + MaxDuration
    BY <1>1, <1>2
  <1> QED
    BY <1>3, CacheAssumption DEF Duration

\* CanAuthenticate lets a user in with a joined row of that user that carries the
\* hash of the password and is not older than the expiration.
LEMMA OfflineRow ==
    ASSUME TablesInv, NEW p \in Procs, OfflineOutcome(p, Rows(p)) = "ok_offline"
    PROVE  /\ ~(Exp(p) < 0)
           /\ \E r \in passwd, s \in shadow :
                /\ r.login = user[p] /\ r.uid = s.uid
                /\ s.password = encryptPassword(password[p])
                /\ ~(Exp(p) > 0 /\ now > r.last_online_auth + Duration(Exp(p)))
  <1> DEFINE row == CHOOSE r \in Rows(p) : TRUE
  <1>1. ~(Mode(p) < shadowROMode) /\ ~(Exp(p) < 0) /\ Rows(p) # {}
    BY DEF OfflineOutcome
  <1>2. row \in Rows(p)
    BY <1>1
  <1>3. ~Expired(Exp(p), row) /\ HashMatches(row.password, password[p])
    BY DEF OfflineOutcome
  <1> HIDE DEF row
  <1>4. Mode(p) > shadowNotAvailableMode
    <2>1. Mode(p) \in {0, 1, 2}
      BY PamAssumption DEF Mode, ShadowModes, shadowNotAvailableMode, shadowROMode, shadowRWMode
    <2> QED
      BY <1>1, <2>1 DEF shadowROMode, shadowNotAvailableMode
  <1>5. PICK j \in passwd \X shadow :
          /\ j[1].login = user[p] /\ j[1].uid = j[2].uid
          /\ row = [uid |-> j[1].uid, last_online_auth |-> j[1].last_online_auth, password |-> j[2].password]
    BY <1>2, <1>4 DEF Rows, GetUserByName
  <1>6. row.last_online_auth = j[1].last_online_auth /\ row.password = j[2].password
    BY <1>5
  <1>7. j[1] \in passwd /\ j[2] \in shadow
    BY <1>5
  <1> QED
    BY <1>1, <1>3, <1>5, <1>6, <1>7 DEF Expired, HashMatches, encryptPassword

\* What OfflineNeedsOnline says of a step.
OfflineStep ==
    \A p \in Procs :
        outcome'[p] = "ok_offline" /\ outcome[p] # "ok_offline" =>
            /\ Exp(p) >= 0
            /\ lastUpdate[user[p]] # None
            /\ lastUpdate[user[p]][1] = encryptPassword(password[p])
            /\ Exp(p) > 0 => now <= lastUpdate[user[p]][2] + Exp(p)

\* As long as what is stored is its owner's, who is let in without network has it.
LEMMA StoredLetsIn ==
    ASSUME Inv, StoredIsOwn, [Next]_vars
    PROVE  [OfflineStep]_vars
  <1>1. ASSUME Next, NEW p \in Procs,
               outcome'[p] = "ok_offline", outcome[p] # "ok_offline"
        PROVE  /\ Exp(p) >= 0
               /\ lastUpdate[user[p]] # None
               /\ lastUpdate[user[p]][1] = encryptPassword(password[p])
               /\ Exp(p) > 0 => now <= lastUpdate[user[p]][2] + Exp(p)
    <2>1. PamTypeOK /\ TablesInv /\ outcome'[p] \in Successes
      BY <1>1 DEF Inv, Successes
    <2>2. CanAuthenticate(p) /\ OfflineOutcome(p, Rows(p)) = "ok_offline"
      BY <1>1, <2>1, WhoSucceeds
    <2>3. user[p] \in Users /\ Exp(p) \in Int
      BY <2>1, <2>2, ExpInt DEF CanAuthenticate, PamTypeOK
    <2>4. PICK r \in passwd, s \in shadow :
            /\ r.login = user[p] /\ r.uid = s.uid
            /\ s.password = encryptPassword(password[p])
            /\ ~(Exp(p) > 0 /\ now > r.last_online_auth + Duration(Exp(p)))
      BY <2>1, <2>2, OfflineRow
    <2>5. ~(Exp(p) < 0)
      BY <2>1, <2>2, OfflineRow
    <2>6. s.password # EmptyHash
      BY <2>4 DEF EmptyHash, encryptPassword
    <2>7. lastUpdate[user[p]] = <<s.password, r.last_online_auth>>
      BY <2>4, <2>6 DEF StoredIsOwn
    <2>8. lastUpdate[user[p]] # None
      <3>1. s.password \in Hashes /\ r.last_online_auth \in Int
        BY <2>1 DEF TablesInv, CacheTypeOK, PasswdRows, ShadowRows
      <3> QED
        BY <2>7, <3>1, NoneAssumption
    <2>9. Exp(p) > 0 => now <= r.last_online_auth + Exp(p)
      <3>1. now \in Int /\ r.last_online_auth \in Int
        BY <2>1 DEF TablesInv, CacheTypeOK, PasswdRows
      <3> QED
        BY <2>3, <2>4, <3>1, DurationBelow
    <2> QED
      BY <2>3, <2>4, <2>5, <2>7, <2>8, <2>9
  <1> QED
    BY <1>1 DEF OfflineStep

\* Until a purge takes the row of a login that is about to update it, no one gets
\* in without network but with the password of the user's own last online login,
\* no later than the days of the configuration in force allow.
THEOREM OfflineIsOwn == Spec /\ []~lapsed => OfflineNeedsOnline
  <1>1. CredInv /\ ~lapsed /\ [Next]_vars => [OfflineStep]_vars
    BY CredMeans, StoredLetsIn DEF CredInv
  <1> QED
    BY <1>1, SystemCred, PTL DEF Spec, OfflineNeedsOnline, OfflineStep

-----------------------------------------------------------------------------
(* When no two names hash to one uid.                                      *)

DistinctHashes == \A u, v \in Users : UidHash[u] = UidHash[v] => u = v

\* Then a user, a group and a login have the uid their name hashes to, and no other.
AtOwnHash ==
    /\ \A r \in passwd : r.uid = UidHash[r.login]
    /\ \A g \in groups : g.gid = UidHash[g.name]
    /\ \A p \in Procs : pc[p] \in {"probe", "insert", "update"} => uid[p] = UidHash[user[p]]

\* Update goes on with the uid of a row of the user.
LEMMA RowsAreOwn ==
    ASSUME NEW p \in Procs, NEW row \in Rows(p)
    PROVE  \E r \in passwd : r.login = user[p] /\ r.uid = row.uid
  <1>1. CASE Mode(p) > shadowNotAvailableMode
    <2>1. PICK j \in passwd \X shadow :
            /\ j[1].login = user[p]
            /\ row = [uid |-> j[1].uid, last_online_auth |-> j[1].last_online_auth, password |-> j[2].password]
      BY <1>1 DEF Rows, GetUserByName
    <2>2. j[1] \in passwd /\ row.uid = j[1].uid
      BY <2>1
    <2> QED
      BY <2>1, <2>2
  <1>2. CASE ~(Mode(p) > shadowNotAvailableMode)
    <2>1. PICK r \in passwd :
            /\ r.login = user[p]
            /\ row = [uid |-> r.uid, last_online_auth |-> r.last_online_auth, password |-> EmptyHash]
      BY <1>2 DEF Rows, GetUserByName
    <2> QED
      BY <2>1
  <1> QED
    BY <1>1, <1>2

\* So an update, late as it may be, finds its own user or nobody.
LEMMA HashOwns == ASSUME DistinctHashes, Inv, AtOwnHash PROVE UpdatesOwn
  <1>1. ASSUME NEW p \in Procs, pc[p] = "update", NEW r \in passwd PROVE r.uid = uid[p] <=> r.login = user[p]
    <2>1. user[p] \in Users /\ r.login \in Users
      BY <1>1 DEF Inv, PamTypeOK, TablesInv, CacheTypeOK, PasswdRows
    <2> QED
      BY <1>1, <2>1 DEF AtOwnHash, DistinctHashes
  <1> QED
    BY <1>1 DEF UpdatesOwn

\* A login that goes on with its uid, or ends, and others that are left alone.
LEMMA SessionAtHash ==
    ASSUME PamTypeOK, AtOwnHash, NEW p \in Procs,
           \/ \E o : Return(p, o)
           \/ \E l, id : Goto(p, l, id) /\ (l \in {"probe", "insert", "update"} => id = UidHash[user[p]]),
           NEW q \in Procs, pc'[q] \in {"probe", "insert", "update"}
    PROVE  uid'[q] = UidHash[user'[q]]
  BY DEF PamTypeOK, AtOwnHash, Goto, Return

\* The only holder a probe can meet is the user itself, which ends the search: no uid
\* but the first is ever tried.
LEMMA PamStepAtHash ==
    ASSUME DistinctHashes, Inv, AtOwnHash, NEW p \in Procs, PamStep(p) \/ PamFailure(p)
    PROVE  AtOwnHash'
  <1> DEFINE Late == {"probe", "insert", "update"}
             Sound == \/ \E o : Return(p, o)
                      \/ \E l, id : Goto(p, l, id) /\ (l \in Late => id = UidHash[user[p]])
  <1>0. PamTypeOK /\ CacheTypeOK /\ (pc[p] # "idle" => user[p] \in Users)
    BY DEF Inv, PamTypeOK, TablesInv
  <1>1. ASSUME Sound, passwd' \subseteq passwd, groups' \subseteq groups PROVE AtOwnHash'
    BY <1>0, <1>1, SessionAtHash DEF AtOwnHash
  <1>2. CASE AadAnswers(p) \/ NewReuses(p) \/ CanAuthenticate(p) \/ PamFailure(p)
    <2>1. Sound /\ UNCHANGED tables
      BY <1>2 DEF AadAnswers, NewReuses, AfterNew, CanAuthenticate, PamFailure, NewFails, DbError
    <2> QED
      BY <1>1, <2>1 DEF tables
  <1>3. CASE NewOpens(p)
    <2>1. Sound
      BY <1>3 DEF NewOpens, AfterNew
    <2> QED
      BY <1>1, <1>3, <2>1, OpenShrinks DEF NewOpens
  <1>4. CASE LookUp(p)
    <2>1. ASSUME NEW row \in Rows(p) PROVE row.uid = UidHash[user[p]]
      BY <2>1, RowsAreOwn DEF AtOwnHash
    <2>2. Sound /\ UNCHANGED tables
      BY <1>4, <2>1 DEF LookUp
    <2> QED
      BY <1>1, <2>2 DEF tables
  <1>5. CASE Probe(p)
    <2>1. uid[p] = UidHash[user[p]] /\ user[p] \in Users
      BY <1>0, <1>5 DEF Probe, AtOwnHash
    <2>2. ASSUME NEW n \in IdHolders(uid[p]) PROVE n = user[p]
      <3>1. n \in Users /\ UidHash[n] = uid[p]
        BY <1>0, <2>2 DEF IdHolders, AtOwnHash, CacheTypeOK, PasswdRows, GroupRows
      <3> QED
        BY <2>1, <3>1 DEF DistinctHashes
    <2>3. Sound /\ UNCHANGED tables
      BY <1>5, <2>1, <2>2 DEF Probe
    <2> QED
      BY <1>1, <2>3 DEF tables
  <1>6. CASE InsertUser(p)
    <2>1. uid[p] = UidHash[user[p]]
      BY <1>6 DEF InsertUser, AtOwnHash
    <2>2. Sound
      BY <1>6, <2>1 DEF InsertUser
    <2>3. CASE UNCHANGED tables
      BY <1>1, <2>2, <2>3 DEF tables
    <2>4. CASE insertUser(user[p], uid[p])
      <3> DEFINE np == [login |-> user[p], uid |-> uid[p], gid |-> uid[p], last_online_auth |-> ZeroTime]
                 ng == [name |-> user[p], gid |-> uid[p]]
      <3>1. passwd' = passwd \cup {np} /\ groups' = groups \cup {ng}
        BY <2>4 DEF insertUser, InsertPasswd
      <3>2. np.uid = UidHash[np.login] /\ ng.gid = UidHash[ng.name]
        BY <2>1
      <3> HIDE DEF np, ng
      <3> QED
        BY <1>0, <2>2, <3>1, <3>2, SessionAtHash DEF AtOwnHash
    <2> QED
      BY <1>6, <2>3, <2>4 DEF InsertUser
  <1>7. CASE UpdateUser(p)
    <2>1. Sound
      BY <1>7 DEF UpdateUser
    <2>2. CASE UNCHANGED tables
      BY <1>1, <2>1, <2>2 DEF tables
    <2>3. CASE UpdatePasswd(uid[p])
      <3> DEFINE P(r) == IF r.uid = uid[p] THEN [r EXCEPT !.last_online_auth = now] ELSE r
      <3>1. passwd' = {P(r) : r \in passwd} /\ groups' = groups
        BY <2>3 DEF UpdatePasswd
      <3>2. \A r \in passwd : P(r).login = r.login /\ P(r).uid = r.uid
        BY <1>0 DEF CacheTypeOK, PasswdRows
      <3> HIDE DEF P
      <3> QED
        BY <1>0, <2>1, <3>1, <3>2, SessionAtHash DEF AtOwnHash
    <2> QED
      BY <1>7, <2>2, <2>3 DEF UpdateUser, updateOnlineAuthAndPassword
  <1> QED
    BY <1>2, <1>3, <1>4, <1>5, <1>6, <1>7 DEF PamStep

\* Every step keeps users and logins at their hash.
LEMMA AtHashStep ==
    ASSUME DistinctHashes, Inv, AtOwnHash, [Next]_vars
    PROVE  AtOwnHash'
  <1>0. PamTypeOK
    BY DEF Inv
  <1>1. ASSUME NEW p \in Procs, PamStep(p) \/ PamFailure(p) PROVE AtOwnHash'
    BY <1>1, PamStepAtHash
  <1>2. ASSUME NEW p \in Procs, StartFails(p) \/ Crash(p) PROVE AtOwnHash'
    BY <1>0, <1>2, SessionAtHash DEF StartFails, Crash, AtOwnHash, tables
  <1>3. ASSUME NEW p \in Procs, NEW u \in Users, NEW pw, NEW c, Start(p, u, pw, c) PROVE AtOwnHash'
    BY <1>0, <1>3 DEF Start, AtOwnHash, tables, PamTypeOK
  <1>4. ASSUME passwd' \subseteq passwd, groups' \subseteq groups, UNCHANGED <<pc, user, uid>> PROVE AtOwnHash'
    BY <1>4 DEF AtOwnHash
  <1>5. CASE CliOpen
    BY <1>4, <1>5, OpenShrinks DEF CliOpen, pamVars, session
  <1>6. CASE NssLookup
    BY <1>4, <1>6, NssShrinks DEF pamVars, session
  <1>7. ASSUME UNCHANGED <<tables, session>> PROVE AtOwnHash'
    BY <1>4, <1>7 DEF tables, session
  <1> QED
    BY <1>1, <1>2, <1>3, <1>5, <1>6, <1>7 DEF Next, Step, Teardown, Tick, pamVars, vars

\* Where names do not collide, no interleaving of logins and purges, and no login that
\* loses its row, lets anyone in without network but with the password of the user's own
\* last online login, for as long as the configuration in force says.
THEOREM DistinctOfflineIsOwn ==
    ASSUME DistinctHashes
    PROVE  Spec => OfflineNeedsOnline
  <1>1. Init => AtOwnHash /\ StoredIsOwn
    BY DEF Init, CacheInit, PamInit, AtOwnHash, StoredIsOwn
  <1>2. Inv /\ AtOwnHash /\ StoredIsOwn /\ [Next]_vars => AtOwnHash' /\ StoredIsOwn'
    BY AtHashStep, HashOwns, StoredStep
  <1>3. Inv /\ StoredIsOwn /\ [Next]_vars => [OfflineStep]_vars
    BY StoredLetsIn
  <1> QED
    BY <1>1, <1>2, <1>3, SystemInv, PTL DEF Spec, OfflineNeedsOnline, OfflineStep

-----------------------------------------------------------------------------
(* Who is purged.                                                          *)

\* How many days back a purge goes: that of each login's cache.New, of aad-cli's, which
\* has the default options, and that of the NSS module, which has constants of its own.
PurgePeriods ==
    {PurgeDays(OfflineExpiration(c)) : c \in {d \in Configs : OfflineExpiration(d) # 0}}
        \cup (IF "cli" \in Actors THEN {PurgeDays(DefaultExpiration)} ELSE {})
        \cup (IF "nss" \in Actors THEN {PurgeMultiplier * DefaultExpiration} ELSE {})

\* Nobody purges sooner than a login under configuration c would refuse.
OutlastsPurges(c) ==
    \A days \in PurgePeriods : OfflineExpiration(c) > 0 /\ Duration(OfflineExpiration(c)) <= days

\* An expiration is a number of days.
LEMMA ExpirationInt == ASSUME NEW c \in Configs PROVE OfflineExpiration(c) \in Int
  BY CacheAssumption, PamAssumption DEF OfflineExpiration

\* So is a duration, wrapped or not.
LEMMA DurationInt == ASSUME NEW d \in Int PROVE Duration(d) \in Int
  <1>1. ASSUME NEW n \in Int, NEW m \in Nat \ {0} PROVE n % m \in Int
    BY <1>1
  <1>2. d + MaxDuration \in Int /\ 2 * MaxDuration \in Nat \ {0}
    BY CacheAssumption
  <1>3. (d + MaxDuration) % (2 * MaxDuration) \in Int
    BY <1>1, <1>2
  <1> QED
    BY <1>3, CacheAssumption DEF Duration

\* And so is the period of a purge.
LEMMA PeriodInt == ASSUME NEW days \in PurgePeriods PROVE days \in Int
  <1>1. ASSUME NEW e \in Int PROVE PurgeDays(e) \in Int
    <2>1. PurgeMultiplier * (IF e < 0 THEN DefaultExpiration ELSE e) \in Int
      BY CacheAssumption
    <2> QED
      BY <2>1, DurationInt DEF PurgeDays
  <1>2. PurgeDays(DefaultExpiration) \in Int /\ PurgeMultiplier * DefaultExpiration \in Int
    BY <1>1, CacheAssumption
  <1>3. \A c \in Configs : PurgeDays(OfflineExpiration(c)) \in Int
    BY <1>1, ExpirationInt
  <1> QED
    BY <1>2, <1>3 DEF PurgePeriods

\* What cleanUpDB takes from passwd.
LEMMA OpenPurges ==
    ASSUME NEW mode, NEW exp, PurgeOnOpen(mode, exp), NEW r \in passwd, r \notin passwd'
    PROVE  exp # 0 /\ r.last_online_auth < now - PurgeDays(exp)
  BY DEF PurgeOnOpen, cleanUpDB, CleanUpPasswd, FreshUsers, tables

\* Who disappears has not logged in online for the period of some purge.
LEMMA PurgedIsOld ==
    ASSUME Inv, Next, NEW r \in passwd, \A q \in passwd' : q.login # r.login
    PROVE  \E days \in PurgePeriods : r.last_online_auth < now - days
  <1>0. r \notin passwd'
    OBVIOUS
  <1>1. CASE passwd' = passwd
    BY <1>0, <1>1
  <1>2. ASSUME NEW p \in Procs, NewOpens(p)
        PROVE  \E days \in PurgePeriods : r.last_online_auth < now - days
    <2>1. conf[p] \in Configs
      BY <1>2 DEF Inv, PamTypeOK, NewOpens
    <2>2. OfflineExpiration(conf[p]) # 0 /\ r.last_online_auth < now - PurgeDays(OfflineExpiration(conf[p]))
      BY <1>0, <1>2, OpenPurges DEF NewOpens, Exp
    <2>3. PurgeDays(OfflineExpiration(conf[p])) \in PurgePeriods
      BY <2>1, <2>2 DEF PurgePeriods
    <2> QED
      BY <2>2, <2>3
  <1>3. CASE CliOpen
    <2>1. r.last_online_auth < now - PurgeDays(DefaultExpiration)
      BY <1>0, <1>3, OpenPurges DEF CliOpen
    <2>2. PurgeDays(DefaultExpiration) \in PurgePeriods
      BY <1>3 DEF CliOpen, PurgePeriods
    <2> QED
      BY <2>1, <2>2
  <1>4. CASE NssLookup
    <2>1. r.last_online_auth < now - PurgeMultiplier * DefaultExpiration
      BY <1>0, <1>4 DEF NssLookup, NssOpen, cleanup_expired_entries, FreshUsers, purge_time
    <2>2. PurgeMultiplier * DefaultExpiration \in PurgePeriods
      BY <1>4 DEF NssLookup, PurgePeriods
    <2> QED
      BY <2>1, <2>2
  <1>5. ASSUME NEW p \in Procs, InsertUser(p), passwd' # passwd PROVE FALSE
    BY <1>0, <1>5 DEF InsertUser, insertUser, InsertPasswd, tables
  <1>6. ASSUME NEW p \in Procs, UpdateUser(p), passwd' # passwd PROVE FALSE
    <2> DEFINE P(q) == IF q.uid = uid[p] THEN [q EXCEPT !.last_online_auth = now] ELSE q
    <2>1. P(r) \in passwd'
      BY <1>6 DEF UpdateUser, updateOnlineAuthAndPassword, UpdatePasswd, tables
    <2>2. P(r).login = r.login
      BY DEF Inv, TablesInv, CacheTypeOK, PasswdRows
    <2> QED
      BY <2>1, <2>2
  <1> QED
    BY <1>1, <1>2, <1>3, <1>4, <1>5, <1>6 DEF Next, Step, PamStep, PamFailure, Start, StartFails, AadAnswers,
       NewReuses, CanAuthenticate, LookUp, Probe, NewFails, DbError, Teardown, Crash, Tick, tables

\* So it has expired under every configuration that outlasts the purges.
LEMMA PurgedIsExpired ==
    ASSUME Inv, Next, NEW r \in passwd, \A q \in passwd' : q.login # r.login,
           NEW c \in Configs, OutlastsPurges(c)
    PROVE  Expired(OfflineExpiration(c), r)
  <1> DEFINE e == OfflineExpiration(c)
  <1>1. PICK days \in PurgePeriods : r.last_online_auth < now - days
    BY PurgedIsOld
  <1>2. e > 0 /\ Duration(e) <= days
    BY <1>1 DEF OutlastsPurges
  <1>3. days \in Int /\ Duration(e) \in Int
    BY <1>1, PeriodInt, ExpirationInt, DurationInt
  <1>4. now \in Int /\ r.last_online_auth \in Int
    BY DEF Inv, TablesInv, CacheTypeOK, PasswdRows
  <1> HIDE DEF e
  <1>5. now > r.last_online_auth + Duration(e)
    BY <1>1, <1>2, <1>3, <1>4
  <1> QED
    BY <1>2, <1>5 DEF Expired, e

\* No opening of the cache, by a login, by aad-cli or by the NSS module, takes away a user
\* whom a login could still accept without network under a configuration that outlasts the
\* purges.  What does not: 0 days as soon as anybody purges, more days than twice the 90 of
\* aad-cli and the NSS module where one of them runs, more than twice those of another
\* configuration in use, and days whose double does not fit in 64 bits of nanoseconds.
THEOREM PurgesSpareOutlasting ==
    Spec => [][\A c \in Configs : OutlastsPurges(c) => PurgeSpares(c)]_vars
  <1>1. Inv /\ [Next]_vars => [\A c \in Configs : OutlastsPurges(c) => PurgeSpares(c)]_vars
    BY PurgedIsExpired DEF PurgeSpares
  <1> QED
    BY <1>1, SystemInv, PTL DEF Spec

\* Where every configuration that allows offline logins outlasts the purges, no purge takes
\* away a user who could still log in.
THEOREM PurgesAreLate ==
    ASSUME \A c \in Configs : OfflineExpiration(c) >= 0 => OutlastsPurges(c)
    PROVE  Spec => PurgesOnlyExpired
  <1>1. Inv /\ [Next]_vars =>
            [\A c \in Configs : OfflineExpiration(c) >= 0 => PurgeSpares(c)]_vars
    BY PurgedIsExpired DEF PurgeSpares
  <1> QED
    BY <1>1, SystemInv, PTL DEF Spec, PurgesOnlyExpired

\* Days that fit: a machine with one expiration, of no more than twice the default.
OneExpiration(e) ==
    /\ \A c \in Configs : OfflineExpiration(c) < 0 \/ OfflineExpiration(c) = e
    /\ e \in Nat \ {0} /\ e <= PurgeMultiplier * DefaultExpiration
    /\ PurgeMultiplier * e < MaxDuration /\ PurgeMultiplier * DefaultExpiration < MaxDuration

\* It outlasts the purges.
LEMMA OneExpirationOutlasts ==
    ASSUME NEW e, OneExpiration(e), NEW c \in Configs, OfflineExpiration(c) >= 0
    PROVE  OutlastsPurges(c)
  <1>1. e \in Nat \ {0} /\ OfflineExpiration(c) = e
    BY ExpirationInt DEF OneExpiration
  <1>2. PurgeMultiplier * e \in Nat /\ PurgeMultiplier * DefaultExpiration \in Nat /\ e <= PurgeMultiplier * e
    BY <1>1, CacheAssumption
  <1>3. PurgeDays(e) = PurgeMultiplier * e
    BY <1>1, <1>2, DurationExact DEF PurgeDays, OneExpiration
  <1>4. /\ PurgeDays(DefaultExpiration) = PurgeMultiplier * DefaultExpiration
        /\ \A d \in Int : d < 0 => PurgeDays(d) = PurgeMultiplier * DefaultExpiration
    BY <1>2, CacheAssumption, DurationExact DEF PurgeDays, OneExpiration
  <1>5. \A d \in Configs : PurgeDays(OfflineExpiration(d))
                              \in {PurgeMultiplier * e, PurgeMultiplier * DefaultExpiration}
    BY <1>3, <1>4, ExpirationInt DEF OneExpiration
  <1>6. \A days \in PurgePeriods : days \in {PurgeMultiplier * e, PurgeMultiplier * DefaultExpiration}
    BY <1>4, <1>5 DEF PurgePeriods
  <1>7. Duration(e) \in Int /\ Duration(e) <= e
    BY <1>1, DurationBelow
  <1>8. \A days \in PurgePeriods : Duration(e) <= days
    BY <1>1, <1>2, <1>6, <1>7, CacheAssumption DEF OneExpiration
  <1> QED
    BY <1>1, <1>8 DEF OutlastsPurges

\* With 1 to 180 days in aad.conf, the numbers of the code, no purge of a login, of aad-cli
\* or of the NSS module takes away a user who could still log in.
THEOREM OneExpirationIsKept ==
    ASSUME NEW e, OneExpiration(e)
    PROVE  Spec => PurgesOnlyExpired
  BY OneExpirationOutlasts, PurgesAreLate

-----------------------------------------------------------------------------
(* Who is entitled to log in without network.                              *)

\* What the last online login has stored is there, or has run out under every configuration
\* that outlasts the purges.
StoredOrOver ==
    \A u \in Users : lastUpdate[u] # None =>
        \/ \E r \in passwd, s \in shadow :
              /\ r.login = u /\ r.uid = s.uid
              /\ lastUpdate[u] = <<s.password, r.last_online_auth>>
        \/ \A c \in Configs : OutlastsPurges(c) =>
              OfflineExpiration(c) > 0 /\ now > lastUpdate[u][2] + Duration(OfflineExpiration(c))

\* Time only makes a period more over.
LEMMA OverStays ==
    ASSUME CacheTypeOK, PamTypeOK, now' \in Nat, now <= now', NEW u \in Users, lastUpdate[u] # None,
           NEW c \in Configs, now > lastUpdate[u][2] + Duration(OfflineExpiration(c))
    PROVE  now' > lastUpdate[u][2] + Duration(OfflineExpiration(c))
  <1>1. lastUpdate[u][2] \in Int
    <2>1. lastUpdate[u] \in Hashes \X Int
      BY DEF PamTypeOK
    <2> QED
      BY <2>1
  <1>2. Duration(OfflineExpiration(c)) \in Int
    BY ExpirationInt, DurationInt
  <1> QED
    BY <1>1, <1>2 DEF CacheTypeOK

\* Who loses its row to a purge has run out; who keeps it keeps its credential.
LEMMA FewerRowsOver ==
    ASSUME Inv, Inv', StoredOrOver, Next, passwd' \subseteq passwd, shadow' \subseteq shadow,
           lastUpdate' = lastUpdate, now <= now'
    PROVE  StoredOrOver'
  <1> SUFFICES ASSUME NEW u \in Users, lastUpdate[u] # None
               PROVE  \/ \E r \in passwd', s \in shadow' :
                            /\ r.login = u /\ r.uid = s.uid
                            /\ lastUpdate[u] = <<s.password, r.last_online_auth>>
                      \/ \A c \in Configs : OutlastsPurges(c) =>
                            /\ OfflineExpiration(c) > 0
                            /\ now' > lastUpdate[u][2] + Duration(OfflineExpiration(c))
    BY DEF StoredOrOver
  <1>0. CacheTypeOK /\ PamTypeOK /\ now' \in Nat
    BY DEF Inv, TablesInv, CacheTypeOK
  <1>1. CASE \A c \in Configs : OutlastsPurges(c) =>
                OfflineExpiration(c) > 0 /\ now > lastUpdate[u][2] + Duration(OfflineExpiration(c))
    BY <1>0, <1>1, OverStays
  <1>2. ASSUME NEW r \in passwd, NEW s \in shadow, r.login = u, r.uid = s.uid,
               lastUpdate[u] = <<s.password, r.last_online_auth>>
        PROVE  \/ \E q \in passwd', t \in shadow' :
                     /\ q.login = u /\ q.uid = t.uid
                     /\ lastUpdate[u] = <<t.password, q.last_online_auth>>
               \/ \A c \in Configs : OutlastsPurges(c) =>
                     /\ OfflineExpiration(c) > 0
                     /\ now' > lastUpdate[u][2] + Duration(OfflineExpiration(c))
    <2>1. CASE r \in passwd'
      <3>1. PICK t \in shadow' : t.uid = r.uid
        BY <2>1 DEF Inv, TablesInv, EveryUserComplete
      <3>2. t = s
        BY <1>2, <3>1 DEF Inv, TablesInv, UniqueKeys
      <3> QED
        BY <1>2, <2>1, <3>1, <3>2
    <2>2. CASE r \notin passwd'
      <3>1. \A q \in passwd' : q.login # r.login
        BY <2>2 DEF Inv, TablesInv, UniqueKeys
      <3>2. ASSUME NEW c \in Configs, OutlastsPurges(c)
            PROVE  OfflineExpiration(c) > 0 /\ now > lastUpdate[u][2] + Duration(OfflineExpiration(c))
        <4>1. Expired(OfflineExpiration(c), r)
          BY <3>1, <3>2, PurgedIsExpired
        <4>2. lastUpdate[u][2] = r.last_online_auth
          BY <1>2
        <4> QED
          BY <4>1, <4>2 DEF Expired
      <3> QED
        BY <1>0, <3>2, OverStays
    <2> QED
      BY <2>1, <2>2
  <1> QED
    BY <1>1, <1>2 DEF StoredOrOver

\* insertUser takes nothing away.
LEMMA MoreRowsOver ==
    ASSUME StoredOrOver, passwd \subseteq passwd', shadow \subseteq shadow', lastUpdate' = lastUpdate, now' = now
    PROVE  StoredOrOver'
  BY DEF StoredOrOver

\* An update stores the credential of its own user and leaves the others alone; without a
\* row it stores nothing.
LEMMA UpdateOver ==
    ASSUME Inv, UpdatesOwn, StoredOrOver, NEW p \in Procs, pc[p] = "update",
           updateOnlineAuthAndPassword(uid[p], encryptPassword(password[p])), now' = now,
           lastUpdate' = IF HasRow(p)
                         THEN [lastUpdate EXCEPT ![user[p]] = <<encryptPassword(password[p]), now>>]
                         ELSE lastUpdate
    PROVE  StoredOrOver'
  <1> DEFINE id == uid[p]
             h == encryptPassword(password[p])
             P(r) == IF r.uid = id THEN [r EXCEPT !.last_online_auth = now] ELSE r
             S(s) == IF s.uid = id THEN [s EXCEPT !.password = h] ELSE s
  <1>1. passwd' = {P(r) : r \in passwd} /\ shadow' = {S(s) : s \in shadow}
    BY DEF updateOnlineAuthAndPassword, UpdatePasswd
  <1>2. \A r \in passwd : /\ r.uid = id => P(r).last_online_auth = now
                          /\ r.uid # id => P(r) = r
                          /\ P(r).login = r.login /\ P(r).uid = r.uid
    BY DEF Inv, TablesInv, CacheTypeOK, PasswdRows
  <1>3. \A s \in shadow : /\ s.uid = id => S(s).password = h
                          /\ s.uid # id => S(s) = s
                          /\ S(s).uid = s.uid
    BY DEF Inv, TablesInv, CacheTypeOK, ShadowRows
  <1>4. user[p] \in Users /\ lastUpdate \in [Users -> {None} \cup (Hashes \X Int)]
    BY DEF Inv, PamTypeOK
  <1>5. /\ HasRow(p) => lastUpdate'[user[p]] = <<h, now>>
        /\ ~HasRow(p) => lastUpdate' = lastUpdate
        /\ \A u \in Users \ {user[p]} : lastUpdate'[u] = lastUpdate[u]
    BY <1>4
  <1>6. /\ \A r \in passwd : r.uid = id <=> r.login = user[p]
        /\ HasRow(p) => \E r \in passwd, s \in shadow : r.login = user[p] /\ r.uid = id /\ s.uid = id
    BY DEF UpdatesOwn, HasRow, Inv, TablesInv, EveryUserComplete
  <1>7. ~HasRow(p) => \A r \in passwd : r.uid # id /\ r.login # user[p]
    BY <1>6 DEF HasRow
  <1> HIDE DEF P, S, id, h
  <1> SUFFICES ASSUME NEW u \in Users, lastUpdate'[u] # None
               PROVE  \/ \E r \in passwd', s \in shadow' :
                            /\ r.login = u /\ r.uid = s.uid
                            /\ lastUpdate'[u] = <<s.password, r.last_online_auth>>
                      \/ \A c \in Configs : OutlastsPurges(c) =>
                            /\ OfflineExpiration(c) > 0
                            /\ now > lastUpdate'[u][2] + Duration(OfflineExpiration(c))
    BY DEF StoredOrOver
  <1>8. CASE u = user[p] /\ HasRow(p)
    <2>1. PICK r \in passwd, s \in shadow : r.login = user[p] /\ r.uid = id /\ s.uid = id
      BY <1>6, <1>8
    <2>2. P(r) \in passwd' /\ S(s) \in shadow'
      BY <1>1
    <2>3. P(r).login = u /\ P(r).uid = S(s).uid /\ lastUpdate'[u] = <<S(s).password, P(r).last_online_auth>>
      BY <1>2, <1>3, <1>5, <1>8, <2>1
    <2> QED
      BY <2>2, <2>3
  <1>9. CASE ~(u = user[p] /\ HasRow(p))
    <2>1. lastUpdate'[u] = lastUpdate[u]
      BY <1>5, <1>9
    <2>2. ASSUME NEW r \in passwd, NEW s \in shadow, r.login = u, r.uid = s.uid
          PROVE  r \in passwd' /\ s \in shadow'
      <3>1. r.uid # id
        BY <1>6, <1>7, <1>9, <2>2
      <3>2. P(r) = r /\ S(s) = s
        BY <1>2, <1>3, <2>2, <3>1
      <3> QED
        BY <1>1, <3>2
    <2> QED
      BY <2>1, <2>2 DEF StoredOrOver
  <1> QED
    BY <1>8, <1>9

\* Every step keeps what is stored, or lets it run out.
LEMMA StoredOrOverStep ==
    ASSUME Inv, UpdatesOwn, StoredOrOver, [Next]_vars
    PROVE  StoredOrOver'
  <1>0. Inv' /\ now \in Nat
    BY NextInv DEF Inv, TablesInv, CacheTypeOK
  <1>1. CASE UNCHANGED vars
    BY <1>1 DEF vars, tables, pamVars, StoredOrOver
  <1>2. ASSUME Next, UNCHANGED <<tables, lastUpdate>>, now <= now' PROVE StoredOrOver'
    BY <1>0, <1>2, FewerRowsOver DEF tables
  <1>3. ASSUME NEW p \in Procs, Next, NewOpens(p) PROVE StoredOrOver'
    BY <1>0, <1>3, OpenShrinks, FewerRowsOver DEF NewOpens
  <1>4. CASE Next /\ CliOpen
    BY <1>0, <1>4, OpenShrinks, FewerRowsOver DEF CliOpen, pamVars
  <1>5. CASE Next /\ NssLookup
    BY <1>0, <1>5, NssShrinks, FewerRowsOver DEF pamVars, NssLookup, NssOpen
  <1>6. ASSUME NEW p \in Procs, Next, InsertUser(p) PROVE StoredOrOver'
    <2>1. passwd \subseteq passwd' /\ shadow \subseteq shadow' /\ lastUpdate' = lastUpdate /\ now' = now
      BY <1>6 DEF InsertUser, insertUser, InsertPasswd, tables
    <2> QED
      BY <2>1, MoreRowsOver
  <1>7. ASSUME NEW p \in Procs, Next, UpdateUser(p) PROVE StoredOrOver'
    <2>1. CASE UNCHANGED <<tables, lastUpdate>>
      BY <1>0, <1>2, <1>7, <2>1 DEF UpdateUser
    <2>2. CASE ~UNCHANGED <<tables, lastUpdate>>
      BY <1>7, <2>2, UpdateOver DEF UpdateUser
    <2> QED
      BY <2>1, <2>2
  <1>8. CASE Next /\ Tick
    BY <1>0, <1>2, <1>8 DEF Tick, pamVars
  <1> QED
    BY <1>0, <1>1, <1>2, <1>3, <1>4, <1>5, <1>6, <1>7, <1>8 DEF Next, Step, PamStep, PamFailure, Start, StartFails,
       AadAnswers, NewReuses, CanAuthenticate, LookUp, Probe, NewFails, DbError, Teardown, Crash

\* Only CanAuthenticate turns a login away.
LEMMA WhoTurnsAway ==
    ASSUME PamTypeOK, Next, NEW p \in Procs, TurnedAway(p)
    PROVE  CanAuthenticate(p) /\ outcome'[p] = OfflineOutcome(p, Rows(p))
  <1>0. /\ outcome \in [Procs -> Outcomes \cup {None}] /\ pc \in [Procs -> Pcs]
        /\ pc[p] = "can_auth" /\ pc'[p] = "idle" /\ outcome'[p] \in {"noent", "mismatch", "expired"}
    BY DEF PamTypeOK, TurnedAway
  <1>1. ASSUME NEW q \in Procs, NEW o, Return(q, o) PROVE q = p /\ o = outcome'[p]
    BY <1>0, <1>1 DEF Return
  <1>2. ASSUME NEW q \in Procs, NEW l, NEW id, Goto(q, l, id) PROVE q = p /\ l = "idle"
    BY <1>0, <1>2 DEF Goto
  <1>3. None \notin {"noent", "mismatch", "expired"}
    BY NoneAssumption DEF Outcomes, AuthErrors
  <1>4. ASSUME NEW q \in Procs, NEW u, NEW pw, NEW c, Start(q, u, pw, c) PROVE FALSE
    BY <1>0, <1>4 DEF Start
  <1>5. ASSUME NEW q \in Procs, StartFails(q) \/ PamFailure(q) \/ Crash(q) PROVE FALSE
    BY <1>0, <1>1, <1>3, <1>5 DEF StartFails, PamFailure, NewFails, DbError, Crash
  <1>6. ASSUME NEW q \in Procs, NEW e, Teardown(q, e) PROVE FALSE
    BY <1>0, <1>6 DEF Teardown, session
  <1>7. ASSUME NEW q \in Procs, AadAnswers(q) \/ NewReuses(q) \/ NewOpens(q) PROVE FALSE
    BY <1>0, <1>1, <1>2, <1>7 DEF AadAnswers, NewReuses, NewOpens, AfterNew
  <1>8. ASSUME NEW q \in Procs, LookUp(q) \/ Probe(q) \/ InsertUser(q) \/ UpdateUser(q) PROVE FALSE
    BY <1>0, <1>1, <1>2, <1>8 DEF LookUp, Probe, InsertUser, UpdateUser
  <1>9. CASE CliOpen \/ NssLookup \/ Tick
    BY <1>0, <1>9 DEF CliOpen, NssLookup, Tick, pamVars, session
  <1>10. ASSUME NEW q \in Procs, CanAuthenticate(q)
         PROVE  CanAuthenticate(p) /\ outcome'[p] = OfflineOutcome(p, Rows(p))
    BY <1>1, <1>10 DEF CanAuthenticate
  <1> QED
    BY <1>4, <1>5, <1>6, <1>7, <1>8, <1>9, <1>10 DEF Next, Step, PamStep

\* Who is turned away under a configuration that outlasts the purges has no title.
LEMMA TurnedAwayIsUntitled ==
    ASSUME Inv, StoredOrOver, NEW p \in Procs, pc[p] = "can_auth",
           OfflineOutcome(p, Rows(p)) \in {"noent", "mismatch", "expired"},
           OfflineExpiration(conf[p]) >= 0 => OutlastsPurges(conf[p])
    PROVE  Untitled(p)
  <1>0. user[p] \in Users /\ conf[p] \in Configs /\ Exp(p) = OfflineExpiration(conf[p])
    BY DEF Inv, PamTypeOK, Exp
  <1>1. ~(Mode(p) < shadowROMode) /\ ~(Exp(p) < 0)
    BY DEF OfflineOutcome
  <1>2. OutlastsPurges(conf[p])
    BY <1>0, <1>1, ExpirationInt
  <1>3. CASE lastUpdate[user[p]] = None
    BY <1>3 DEF Untitled
  <1>4. CASE \A c \in Configs : OutlastsPurges(c) =>
                /\ OfflineExpiration(c) > 0
                /\ now > lastUpdate[user[p]][2] + Duration(OfflineExpiration(c))
    BY <1>0, <1>2, <1>4 DEF Untitled
  <1>5. ASSUME NEW r \in passwd, NEW s \in shadow, r.login = user[p], r.uid = s.uid,
               lastUpdate[user[p]] = <<s.password, r.last_online_auth>>
        PROVE  Untitled(p)
    <2> DEFINE J(j) == [uid |-> j[1].uid, last_online_auth |-> j[1].last_online_auth, password |-> j[2].password]
               row == CHOOSE x \in Rows(p) : TRUE
    <2>1. Mode(p) > shadowNotAvailableMode
      <3>1. Mode(p) \in {0, 1, 2}
        BY PamAssumption DEF Mode, ShadowModes, shadowNotAvailableMode, shadowROMode, shadowRWMode
      <3> QED
        BY <1>1, <3>1 DEF shadowROMode, shadowNotAvailableMode
    <2>2. {k \in passwd \X shadow : k[1].login = user[p] /\ k[1].uid = k[2].uid} = {<<r, s>>}
      BY <1>5 DEF Inv, TablesInv, UniqueKeys
    <2>3. Rows(p) = {J(j) : j \in {<<r, s>>}}
      BY <2>1, <2>2 DEF Rows, GetUserByName
    <2>4. J(<<r, s>>).last_online_auth = r.last_online_auth /\ J(<<r, s>>).password = s.password
      OBVIOUS
    <2> HIDE DEF J
    <2>5. Rows(p) = {J(<<r, s>>)}
      BY <2>3
    <2>6. Rows(p) # {} /\ row = J(<<r, s>>)
      BY <2>5
    <2>7. Expired(Exp(p), row) \/ ~HashMatches(row.password, password[p])
      BY <1>1, <2>6 DEF OfflineOutcome
    <2> HIDE DEF row
    <2>8. lastUpdate[user[p]][1] = s.password /\ lastUpdate[user[p]][2] = r.last_online_auth
      BY <1>5
    <2> QED
      BY <2>4, <2>6, <2>7, <2>8 DEF Untitled, Expired, HashMatches, encryptPassword
  <1> QED
    BY <1>0, <1>3, <1>4, <1>5 DEF StoredOrOver

\* Until a purge takes the row of a login that is about to update it, a user whose online
\* login was stored is let in without network for as long as the configuration in force
\* says, where every configuration that allows it outlasts the purges.
THEOREM StoredIsEntitled ==
    ASSUME \A c \in Configs : OfflineExpiration(c) >= 0 => OutlastsPurges(c)
    PROVE  Spec /\ []~lapsed => OnlineEntitles
  <1>1. Init => StoredOrOver
    BY DEF Init, PamInit, StoredOrOver
  <1>2. CredInv /\ ~lapsed /\ StoredOrOver /\ [Next]_vars => StoredOrOver'
    BY CredMeans, StoredOrOverStep DEF CredInv
  <1>3. ASSUME Inv, StoredOrOver, Next, NEW p \in Procs, TurnedAway(p) PROVE Untitled(p)
    <2>1. CanAuthenticate(p) /\ outcome'[p] = OfflineOutcome(p, Rows(p))
      BY <1>3, WhoTurnsAway DEF Inv
    <2>2. conf[p] \in Configs /\ pc[p] = "can_auth"
      BY <1>3 DEF TurnedAway, Inv, PamTypeOK
    <2> QED
      BY <1>3, <2>1, <2>2, TurnedAwayIsUntitled DEF TurnedAway
  <1>4. CredInv /\ StoredOrOver /\ [Next]_vars => [\A p \in Procs : TurnedAway(p) => Untitled(p)]_vars
    BY <1>3 DEF CredInv
  <1> QED
    BY <1>1, <1>2, <1>4, SystemCred, PTL DEF Spec, OnlineEntitles

\* Where names do not collide, that holds of every configuration that outlasts the purges,
\* whatever logins lose their rows: a late update finds its own user or nobody, and stores
\* what it is told or nothing.
THEOREM DistinctIsEntitled ==
    ASSUME DistinctHashes
    PROVE  Spec => [][\A p \in Procs : OutlastsPurges(conf[p]) /\ TurnedAway(p) => Untitled(p)]_vars
  <1>1. Init => AtOwnHash /\ StoredOrOver
    BY DEF Init, CacheInit, PamInit, AtOwnHash, StoredOrOver
  <1>2. Inv /\ AtOwnHash /\ StoredOrOver /\ [Next]_vars => AtOwnHash' /\ StoredOrOver'
    BY AtHashStep, HashOwns, StoredOrOverStep
  <1>3. ASSUME Inv, StoredOrOver, Next, NEW p \in Procs, OutlastsPurges(conf[p]), TurnedAway(p)
        PROVE  Untitled(p)
    <2>1. CanAuthenticate(p) /\ outcome'[p] = OfflineOutcome(p, Rows(p))
      BY <1>3, WhoTurnsAway DEF Inv
    <2> QED
      BY <1>3, <2>1, TurnedAwayIsUntitled DEF TurnedAway
  <1>4. Inv /\ StoredOrOver /\ [Next]_vars =>
            [\A p \in Procs : OutlastsPurges(conf[p]) /\ TurnedAway(p) => Untitled(p)]_vars
    BY <1>3
  <1> QED
    BY <1>1, <1>2, <1>4, SystemInv, PTL DEF Spec

-----------------------------------------------------------------------------
(* What the NSS module answers.                                            *)

\* A user is a member of the group of the same id, and of no other.
OwnGroupOnly == \A m \in uid_gid : m[1] = m[2]

\* insertUser is the only writer of uid_gid, and it gives a user its own group.
LEMMA NextOwnGroup == Inv /\ OwnGroupOnly /\ [Next]_vars => OwnGroupOnly'
  <1> SUFFICES ASSUME Inv, OwnGroupOnly, [Next]_vars PROVE OwnGroupOnly'
    OBVIOUS
  <1>1. CASE uid_gid' \subseteq uid_gid
    BY <1>1 DEF OwnGroupOnly
  <1>2. ASSUME NEW mode, NEW exp, PurgeOnOpen(mode, exp) PROVE uid_gid' \subseteq uid_gid
    BY <1>2 DEF PurgeOnOpen, cleanUpDB, CleanUpPasswd, tables
  <1>3. ASSUME NEW p \in Procs, NewOpens(p) PROVE uid_gid' \subseteq uid_gid
    BY <1>2, <1>3 DEF NewOpens
  <1>4. CASE CliOpen
    BY <1>1, <1>2, <1>4 DEF CliOpen
  <1>5. CASE NssLookup
    BY <1>1, <1>5 DEF NssLookup, NssOpen, cleanup_expired_entries
  <1>6. ASSUME NEW p \in Procs, InsertUser(p) PROVE OwnGroupOnly'
    BY <1>6 DEF InsertUser, insertUser, InsertPasswd, tables, OwnGroupOnly
  <1>7. ASSUME NEW p \in Procs, UpdateUser(p) PROVE uid_gid' \subseteq uid_gid
    BY <1>7 DEF UpdateUser, updateOnlineAuthAndPassword, UpdatePasswd, tables
  <1> QED
    BY <1>1, <1>3, <1>4, <1>5, <1>6, <1>7 DEF Next, Step, PamStep, PamFailure, Start, StartFails, AadAnswers,
       NewReuses, CanAuthenticate, LookUp, Probe, NewFails, DbError, Teardown, Crash, Tick, tables, vars

\* expect_one_row is happy with a set of at most one row.
LEMMA OneRow ==
    ASSUME NEW S, \A x, y \in S : x = y
    PROVE  expect_one_row(S) = (IF S = {} THEN NotFound ELSE Success(S))
  <1>1. CASE S = {}
    BY <1>1, FS_EmptySet DEF expect_one_row
  <1>2. CASE S # {}
    <2>1. PICK x : S = {x}
      BY <1>2
    <2>2. Cardinality(S) = 1
      BY <2>1, FS_Singleton
    <2> QED
      BY <1>2, <2>2 DEF expect_one_row
  <1> QED
    BY <1>1, <1>2

\* So its answer is an answer, with those entries.
LEMMA OneRowAnswer ==
    ASSUME NEW S, \A x, y \in S : x = y
    PROVE  expect_one_row(S).entries = S /\ expect_one_row(S).status # "unavail"
  BY OneRow DEF NotFound, Success

\* The user of a name, its group and its credential.
LEMMA RowsOf ==
    ASSUME Inv, NEW r \in passwd
    PROVE  /\ r.login \in Users /\ r.uid \in Uids /\ r.gid = r.uid
           /\ {q \in passwd : q.login = r.login} = {r}
           /\ {q \in passwd : q.uid = r.uid} = {r}
           /\ {g \in groups : g.name = r.login} = {[name |-> r.login, gid |-> r.uid]}
           /\ {g \in groups : g.gid = r.uid} = {[name |-> r.login, gid |-> r.uid]}
           /\ \E s \in shadow : {t \in shadow : t.uid = r.uid} = {s}
  <1> DEFINE ng == [name |-> r.login, gid |-> r.uid]
  <1>1. r.login \in Users /\ r.uid \in Uids
    BY DEF Inv, TablesInv, CacheTypeOK, PasswdRows
  <1>2. ng \in groups /\ ng.name = r.login /\ ng.gid = r.uid /\ r.gid = r.uid
    BY DEF Inv, TablesInv, EveryUserComplete
  <1>3. PICK s \in shadow : s.uid = r.uid
    BY DEF Inv, TablesInv, EveryUserComplete
  <1> HIDE DEF ng
  <1>4. {q \in passwd : q.login = r.login} = {r} /\ {q \in passwd : q.uid = r.uid} = {r}
    BY DEF Inv, TablesInv, UniqueKeys
  <1>5. {g \in groups : g.name = r.login} = {ng} /\ {g \in groups : g.gid = r.uid} = {ng}
    BY <1>2 DEF Inv, TablesInv, UniqueKeys
  <1>6. {t \in shadow : t.uid = r.uid} = {s}
    BY <1>3 DEF Inv, TablesInv, UniqueKeys
  <1> QED
    BY <1>1, <1>2, <1>4, <1>5, <1>6 DEF ng

\* passwd by name and by uid.
LEMMA PasswdAnswer ==
    ASSUME Inv, NEW r \in passwd
    PROVE  LET e == [name |-> r.login, uid |-> r.uid, gid |-> r.gid]
           IN  get_passwd_by_name(r.login) = Success({e}) /\ get_passwd_by_uid(r.uid) = Success({e})
  <1> DEFINE e == [name |-> r.login, uid |-> r.uid, gid |-> r.gid]
  <1>1. cache_passwd_to_nss_passwd({r}) = {e}
    BY DEF cache_passwd_to_nss_passwd
  <1> HIDE DEF e
  <1>2. expect_one_row({e}) = Success({e})
    BY OneRow
  <1> QED
    BY <1>1, <1>2, RowsOf DEF get_passwd_by_name, get_passwd_by_uid, e

\* A name without a row is not found.
LEMMA NoPasswd ==
    ASSUME NEW u, \A r \in passwd : r.login # u
    PROVE  get_passwd_by_name(u) = NotFound
  <1>1. cache_passwd_to_nss_passwd({r \in passwd : r.login = u}) = {}
    BY DEF cache_passwd_to_nss_passwd
  <1> QED
    BY <1>1, OneRow DEF get_passwd_by_name

\* The group of a user, by name and by gid.
LEMMA GroupAnswer ==
    ASSUME Inv, OwnGroupOnly, NEW r \in passwd
    PROVE  LET e == [name |-> r.login, gid |-> r.gid, members |-> {r.login}]
           IN  get_group_by_name(r.login) = Success({e}) /\ get_group_by_gid(r.gid) = Success({e})
  <1> DEFINE g == [name |-> r.login, gid |-> r.uid]
             e == [name |-> r.login, gid |-> r.gid, members |-> {r.login}]
  <1>1. <<r.uid, r.uid>> \in uid_gid /\ r.gid = r.uid
    BY DEF Inv, TablesInv, EveryUserComplete
  <1>2. \A q \in passwd : <<q.uid, g.gid>> \in uid_gid => q = r
    <2> SUFFICES ASSUME NEW q \in passwd, <<q.uid, r.uid>> \in uid_gid PROVE q = r
      OBVIOUS
    <2>1. q.uid = r.uid
      BY DEF OwnGroupOnly
    <2> QED
      BY <2>1 DEF Inv, TablesInv, UniqueKeys
  <1>3. GroupMembers(g) = {r.login}
    BY <1>1, <1>2 DEF GroupMembers
  <1>4. [name |-> g.name, gid |-> g.gid, members |-> GroupMembers(g)] = e /\ e.members # {}
    BY <1>1, <1>3
  <1>5. GroupEntries({g}) = {e}
    <2> HIDE DEF g, e
    <2> QED
      BY <1>4 DEF GroupEntries
  <1>6. expect_one_row({e}) = Success({e})
    BY OneRow
  <1>7. {q \in groups : q.name = r.login} = {g} /\ {q \in groups : q.gid = r.gid} = {g}
    BY <1>1, RowsOf
  <1> HIDE DEF g, e
  <1>8. get_group_by_name(r.login) = Success({e}) /\ get_group_by_gid(r.gid) = Success({e})
    BY <1>5, <1>6, <1>7 DEF get_group_by_name, get_group_by_gid
  <1> QED
    BY <1>8 DEF e

\* The shadow entry of a user.
LEMMA ShadowAnswer ==
    ASSUME Inv, NEW r \in passwd
    PROVE  \E h : /\ ShadowEntries(r.login) = {[name |-> r.login, passwd |-> h]}
                  /\ get_shadow_by_name(shadowROMode, r.login) = Success({[name |-> r.login, passwd |-> h]})
  <1>1. PICK s \in shadow : {t \in shadow : t.uid = r.uid} = {s}
    BY RowsOf
  <1>2. {q \in passwd : q.login = r.login} = {r}
    BY RowsOf
  <1> DEFINE row == [uid |-> r.uid, last_online_auth |-> r.last_online_auth, password |-> s.password]
  <1>3. {k \in passwd \X shadow : k[1].login = r.login /\ k[1].uid = k[2].uid} = {<<r, s>>}
    BY <1>1, <1>2
  <1>4. GetUserByName(shadowROMode, r.login) = {row}
    <2> DEFINE J(j) == [uid |-> j[1].uid, last_online_auth |-> j[1].last_online_auth, password |-> j[2].password]
    <2>1. shadowROMode > shadowNotAvailableMode
      BY DEF shadowROMode, shadowNotAvailableMode
    <2>2. GetUserByName(shadowROMode, r.login) = {J(j) : j \in {<<r, s>>}}
      BY <1>3, <2>1 DEF GetUserByName
    <2>3. J(<<r, s>>) = row
      OBVIOUS
    <2> HIDE DEF J, row
    <2> QED
      BY <2>2, <2>3
  <1>5. ShadowEntries(r.login) = {[name |-> r.login, passwd |-> s.password]}
    <2>1. row.password = s.password
      OBVIOUS
    <2> HIDE DEF row
    <2> QED
      BY <1>4, <2>1 DEF ShadowEntries
  <1> DEFINE e == [name |-> r.login, passwd |-> s.password]
  <1> HIDE DEF e
  <1>6. get_shadow_by_name(shadowROMode, r.login) = Success({e})
    <2>1. expect_one_row({e}) = Success({e})
      BY OneRow
    <2>2. ~(shadowROMode < shadowROMode)
      BY DEF shadowROMode
    <2> QED
      BY <1>5, <2>1, <2>2 DEF get_shadow_by_name, e
  <1> QED
    BY <1>5, <1>6 DEF e

\* Nor has it an entry in shadow, which is joined with passwd.
LEMMA NoShadow ==
    ASSUME NEW u, \A r \in passwd : r.login # u
    PROVE  ShadowEntries(u) = {} /\ get_shadow_by_name(shadowROMode, u) = NotFound
  <1>1. shadowROMode > shadowNotAvailableMode /\ ~(shadowROMode < shadowROMode)
    BY DEF shadowROMode, shadowNotAvailableMode
  <1>2. {k \in passwd \X shadow : k[1].login = u /\ k[1].uid = k[2].uid} = {}
    OBVIOUS
  <1>3. GetUserByName(shadowROMode, u) = {}
    BY <1>1, <1>2 DEF GetUserByName
  <1>4. ShadowEntries(u) = {}
    BY <1>3 DEF ShadowEntries
  <1> QED
    BY <1>1, <1>4, OneRow DEF get_shadow_by_name

\* The shadow database hides the password of an entry found by name.
LEMMA HiddenPassword ==
    ASSUME NEW u \in Users, NEW name, NEW h,
           get_shadow_by_name(shadowROMode, u) = Success({[name |-> name, passwd |-> h]})
    PROVE  AADShadow(shadowROMode).get_entry_by_name[u] = Success({[name |-> name, passwd |-> "*"]})
  <1> DEFINE e == [name |-> name, passwd |-> h]
             Hide(a) == [a EXCEPT !.entries = {[x EXCEPT !.passwd = "*"] : x \in @}]
  <1>1. AADShadow(shadowROMode).get_entry_by_name[u] = Hide(Success({e}))
    BY DEF AADShadow
  <1>2. [e EXCEPT !.passwd = "*"] = [name |-> name, passwd |-> "*"]
    OBVIOUS
  <1>3. {[x EXCEPT !.passwd = "*"] : x \in {e}} = {[name |-> name, passwd |-> "*"]}
    BY <1>2
  <1>4. Hide(Success({e})) = [Success({e}) EXCEPT !.entries = {[x EXCEPT !.passwd = "*"] : x \in {e}}]
    <2> HIDE DEF e
    <2> QED
      BY DEF Success
  <1>5. Hide(Success({e})) = Success({[name |-> name, passwd |-> "*"]})
    BY <1>3, <1>4 DEF Success
  <1> QED
    BY <1>1, <1>5

\* The mask on the password makes no entry out of none.
LEMMA HiddenNothing ==
    ASSUME NEW u \in Users, get_shadow_by_name(shadowROMode, u) = NotFound
    PROVE  AADShadow(shadowROMode).get_entry_by_name[u].entries = {}
  <1>1. AADShadow(shadowROMode).get_entry_by_name[u]
            = [NotFound EXCEPT !.entries = {[x EXCEPT !.passwd = "*"] : x \in @}]
    BY DEF AADShadow
  <1> QED
    BY <1>1 DEF NotFound

\* At most one group is found under a name.
LEMMA GroupEntriesByName ==
    ASSUME Inv, NEW u
    PROVE  get_group_by_name(u).entries = GroupEntries({g \in groups : g.name = u})
  <1>1. \A x, y \in GroupEntries({g \in groups : g.name = u}) : x = y
    BY DEF GroupEntries, Inv, TablesInv, UniqueKeys
  <1> QED
    BY <1>1, OneRowAnswer DEF get_group_by_name

\* The tables answer with one voice.
LEMMA AnswersAgree == Inv /\ OwnGroupOnly => NssAnswersAgree
  <1> SUFFICES ASSUME Inv, OwnGroupOnly PROVE NssAnswersAgree
    OBVIOUS
  <1> DEFINE sp == AADShadow(shadowROMode)
             PwFound == UNION {AADPasswd.get_entry_by_name[u].entries : u \in Users}
             GrFound == UNION {AADGroup.get_entry_by_name[u].entries : u \in Users}
             SpFound == UNION {sp.get_entry_by_name[u].entries : u \in Users}
  <1>1. \A u \in Users : /\ AADPasswd.get_entry_by_name[u] = get_passwd_by_name(u)
                         /\ AADGroup.get_entry_by_name[u] = get_group_by_name(u)
    BY DEF AADPasswd, AADGroup
  <1>2. \A id \in Uids : /\ AADPasswd.get_entry_by_uid[id] = get_passwd_by_uid(id)
                         /\ AADGroup.get_entry_by_gid[id] = get_group_by_gid(id)
    BY DEF AADPasswd, AADGroup
  <1>3. /\ AADPasswd.get_all_entries.entries = cache_passwd_to_nss_passwd(passwd)
        /\ AADGroup.get_all_entries.entries = GroupEntries(groups)
    BY DEF AADPasswd, AADGroup, get_all_passwds, get_all_groups, Success
  <1>4. sp.get_all_entries.entries = UNION {ShadowEntries(u) : u \in Users}
    <2>1. ~(shadowROMode < shadowROMode)
      BY DEF shadowROMode
    <2> QED
      BY <2>1 DEF AADShadow, get_all_shadows, Success
  <1>5. ASSUME NEW u \in Users
        PROVE  /\ get_passwd_by_name(u).status # "unavail"
               /\ \A e \in get_passwd_by_name(u).entries :
                    /\ AADPasswd.get_entry_by_uid[e.uid] = get_passwd_by_name(u)
                    /\ AADGroup.get_entry_by_gid[e.gid] = get_group_by_name(u)
                    /\ get_group_by_name(u) = Success({[name |-> u, gid |-> e.gid, members |-> {u}]})
                    /\ sp.get_entry_by_name[u] = Success({[name |-> u, passwd |-> "*"]})
    <2>1. CASE \A r \in passwd : r.login # u
      BY <2>1, NoPasswd DEF NotFound
    <2>2. ASSUME NEW r \in passwd, r.login = u
          PROVE  /\ get_passwd_by_name(u).status # "unavail"
                 /\ \A e \in get_passwd_by_name(u).entries :
                      /\ AADPasswd.get_entry_by_uid[e.uid] = get_passwd_by_name(u)
                      /\ AADGroup.get_entry_by_gid[e.gid] = get_group_by_name(u)
                      /\ get_group_by_name(u) = Success({[name |-> u, gid |-> e.gid, members |-> {u}]})
                      /\ sp.get_entry_by_name[u] = Success({[name |-> u, passwd |-> "*"]})
      <3> DEFINE pe == [name |-> r.login, uid |-> r.uid, gid |-> r.gid]
                 ge == [name |-> r.login, gid |-> r.gid, members |-> {r.login}]
      <3>1. get_passwd_by_name(u) = Success({pe}) /\ get_passwd_by_uid(r.uid) = Success({pe})
        BY <2>2, PasswdAnswer
      <3>2. get_group_by_name(u) = Success({ge}) /\ get_group_by_gid(r.gid) = Success({ge})
        BY <2>2, GroupAnswer
      <3>3. sp.get_entry_by_name[u] = Success({[name |-> u, passwd |-> "*"]})
        <4>1. PICK h : get_shadow_by_name(shadowROMode, u) = Success({[name |-> u, passwd |-> h]})
          BY <2>2, ShadowAnswer
        <4> QED
          BY <4>1, HiddenPassword
      <3>4. r.uid \in Uids /\ r.gid \in Uids
        BY <2>2, RowsOf
      <3>5. Success({pe}).status # "unavail" /\ Success({pe}).entries = {pe}
        BY DEF Success
      <3>6. pe.uid = r.uid /\ pe.gid = r.gid /\ ge = [name |-> u, gid |-> pe.gid, members |-> {u}]
        BY <2>2
      <3> HIDE DEF pe, ge, sp
      <3> QED
        BY <1>2, <3>1, <3>2, <3>3, <3>4, <3>5, <3>6
    <2> QED
      BY <2>1, <2>2
  <1>6. cache_passwd_to_nss_passwd(passwd) = PwFound
    <2> DEFINE E(r) == [name |-> r.login, uid |-> r.uid, gid |-> r.gid]
    <2>1. ASSUME NEW r \in passwd
          PROVE  r.login \in Users /\ get_passwd_by_name(r.login).entries = {E(r)}
      <3>1. get_passwd_by_name(r.login) = Success({E(r)})
        BY PasswdAnswer
      <3> HIDE DEF E
      <3> QED
        BY <3>1, RowsOf DEF Success
    <2>2. \A u \in Users : (\A r \in passwd : r.login # u) => get_passwd_by_name(u).entries = {}
      BY NoPasswd DEF NotFound
    <2>3. cache_passwd_to_nss_passwd(passwd) = {E(r) : r \in passwd}
      BY DEF cache_passwd_to_nss_passwd
    <2> HIDE DEF E
    <2>4. \A e : e \in PwFound <=> \E u \in Users : e \in get_passwd_by_name(u).entries
      BY <1>1
    <2> HIDE DEF PwFound
    <2>5. \A e : e \in PwFound <=> \E r \in passwd : e = E(r)
      BY <2>1, <2>2, <2>4
    <2> QED
      BY <2>3, <2>5
  <1>7. GroupEntries(groups) = GrFound
    <2>1. \A g \in groups : g.name \in Users
      BY DEF Inv, TablesInv, CacheTypeOK, GroupRows
    <2>2. \A e : e \in GrFound <=> \E u \in Users : e \in get_group_by_name(u).entries
      BY <1>1
    <2> DEFINE E(g) == [name |-> g.name, gid |-> g.gid, members |-> GroupMembers(g)]
    <2>3. ASSUME NEW gs, NEW e
          PROVE  e \in GroupEntries(gs) <=> \E g \in gs : e = E(g) /\ e.members # {}
      BY DEF GroupEntries
    <2> HIDE DEF E, GrFound
    <2>4. ASSUME NEW u, NEW e
          PROVE  e \in get_group_by_name(u).entries
                    <=> \E g \in groups : g.name = u /\ e = E(g) /\ e.members # {}
      <3> DEFINE gs == {g \in groups : g.name = u}
      <3>1. get_group_by_name(u).entries = GroupEntries(gs)
        BY GroupEntriesByName
      <3>2. e \in GroupEntries(gs) <=> \E g \in gs : e = E(g) /\ e.members # {}
        BY <2>3
      <3> QED
        BY <3>1, <3>2
    <2>5. \A e : e \in GrFound <=> \E u \in Users, g \in groups : g.name = u /\ e = E(g) /\ e.members # {}
      BY <2>2, <2>4
    <2>6. \A e : e \in GrFound <=> e \in GroupEntries(groups)
      BY <2>1, <2>3, <2>5
    <2> QED
      BY <2>6
  <1>8. {e.name : e \in UNION {ShadowEntries(u) : u \in Users}} = {e.name : e \in SpFound}
    <2>1. \A u \in Users : {e.name : e \in ShadowEntries(u)} = {e.name : e \in sp.get_entry_by_name[u].entries}
      <3> SUFFICES ASSUME NEW u \in Users
                   PROVE  {e.name : e \in ShadowEntries(u)} = {e.name : e \in sp.get_entry_by_name[u].entries}
        OBVIOUS
      <3>1. CASE \A r \in passwd : r.login # u
        BY <3>1, NoShadow, HiddenNothing
      <3>2. ASSUME NEW r \in passwd, r.login = u
            PROVE  {e.name : e \in ShadowEntries(u)} = {e.name : e \in sp.get_entry_by_name[u].entries}
        <4>1. PICK h : /\ ShadowEntries(u) = {[name |-> u, passwd |-> h]}
                       /\ get_shadow_by_name(shadowROMode, u) = Success({[name |-> u, passwd |-> h]})
          BY <3>2, ShadowAnswer
        <4>2. sp.get_entry_by_name[u] = Success({[name |-> u, passwd |-> "*"]})
          BY <4>1, HiddenPassword
        <4>3. sp.get_entry_by_name[u].entries = {[name |-> u, passwd |-> "*"]}
          <5>1. \A x : Success({x}).entries = {x}
            BY DEF Success
          <5> HIDE DEF sp
          <5> QED
            BY <4>2, <5>1
        <4>4. \A x : [name |-> u, passwd |-> x].name = u
          OBVIOUS
        <4>5. ASSUME NEW x, x.name = u PROVE {e.name : e \in {x}} = {u}
          BY <4>5
        <4>6. {e.name : e \in ShadowEntries(u)} = {u}
          BY <4>1, <4>4, <4>5
        <4> HIDE DEF sp
        <4>7. {e.name : e \in sp.get_entry_by_name[u].entries} = {u}
          BY <4>3, <4>4, <4>5
        <4> QED
          BY <4>6, <4>7
      <3> QED
        BY <3>1, <3>2
    <2> DEFINE Names(S) == {e.name : e \in S}
    <2>2. \A S, n : n \in Names(S) <=> \E e \in S : n = e.name
      OBVIOUS
    <2>3. \A u \in Users : Names(ShadowEntries(u)) = Names(sp.get_entry_by_name[u].entries)
      BY <2>1
    <2> HIDE DEF sp, Names
    <2>4. \A n : n \in Names(UNION {ShadowEntries(u) : u \in Users})
                  <=> \E u \in Users : n \in Names(ShadowEntries(u))
      BY <2>2
    <2>5. \A n : n \in Names(SpFound) <=> \E u \in Users : n \in Names(sp.get_entry_by_name[u].entries)
      BY <2>2
    <2>6. \A n : n \in Names(UNION {ShadowEntries(u) : u \in Users}) <=> n \in Names(SpFound)
      BY <2>3, <2>4, <2>5
    <2> HIDE DEF SpFound
    <2>7. Names(UNION {ShadowEntries(u) : u \in Users}) = Names(SpFound)
      BY <2>2, <2>6 DEF Names
    <2> QED
      BY <2>7 DEF Names
  <1> QED
    <2> HIDE DEF sp, PwFound, GrFound, SpFound
    <2>1. \A u \in Users :
            LET byName == AADPasswd.get_entry_by_name[u]
            IN  /\ byName.status # "unavail"
                /\ \A r \in byName.entries :
                      /\ AADPasswd.get_entry_by_uid[r.uid] = byName
                      /\ AADGroup.get_entry_by_gid[r.gid] = AADGroup.get_entry_by_name[u]
                      /\ AADGroup.get_entry_by_name[u] =
                            Success({[name |-> u, gid |-> r.gid, members |-> {u}]})
                      /\ sp.get_entry_by_name[u] = Success({[name |-> u, passwd |-> "*"]})
      BY <1>1, <1>5
    <2>2. /\ AADPasswd.get_all_entries.entries = PwFound
          /\ AADGroup.get_all_entries.entries = GrFound
          /\ {e.name : e \in sp.get_all_entries.entries} = {e.name : e \in SpFound}
      BY <1>3, <1>4, <1>6, <1>7, <1>8
    <2> QED
      BY <2>1, <2>2 DEF NssAnswersAgree, sp, PwFound, GrFound, SpFound

\* Whatever logins and purges leave in the tables, libc is told one consistent story:
\* lookups by name and by id agree, every user has the group that lists it, and an
\* enumeration shows what the lookups find.
THEOREM NssIsConsistent == Spec => []NssAnswersAgree
  <1>1. Init => OwnGroupOnly
    BY DEF Init, CacheInit, OwnGroupOnly
  <1> QED
    BY <1>1, NextOwnGroup, AnswersAgree, SystemInv, PTL DEF Spec
=============================================================================
