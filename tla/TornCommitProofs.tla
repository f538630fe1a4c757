-------------------------- MODULE TornCommitProofs --------------------------
(***************************************************************************)
(* What torn commits can and cannot do, for any processes, users and       *)
(* configurations.  A user may lack its shadow row now, so the invariant   *)
(* of AadAuthProofs is weakened to what a torn commit leaves.              *)
(***************************************************************************)
EXTENDS TornCommit, AadAuthProofs

\* No login loses its row to another process: either none has lost its row yet, or
\* there is no other process.
Undisturbed == ~lapsed \/ \A p, q \in Procs : p = q

\* A login that is about to update selects its own user by uid, and who may write
\* shadow.db finds the credential there.
UpdatesSafe ==
    \A p \in Procs : pc[p] = "update" =>
        /\ \A r \in passwd : r.uid = uid[p] <=> r.login = user[p]
        /\ Mode(p) = shadowRWMode =>
              \A r \in passwd : r.uid = uid[p] => \E s \in shadow : s.uid = r.uid

\* All that a user may lack is the shadow row, and only before the first login ends.
HalfIsNew ==
    \A r \in passwd :
        /\ r.gid = r.uid
        /\ [name |-> r.login, gid |-> r.uid] \in groups
        /\ <<r.uid, r.uid>> \in uid_gid
        /\ r.last_online_auth # ZeroTime => \E s \in shadow : s.uid = r.uid

TornTables == CacheTypeOK /\ UniqueKeys /\ HalfIsNew

TornInv ==
    /\ TornTables /\ PamTypeOK
    /\ lapsed \in BOOLEAN /\ (Stranded => lapsed)
    /\ UpdatesSafe /\ CredentialIsOwn

-----------------------------------------------------------------------------
(* What a transaction, whole or torn, does to the tables.                  *)

\* No login becomes one that is about to update.
SessionsKept ==
    \A p \in Procs : pc'[p] = "update" =>
        pc[p] = "update" /\ user'[p] = user[p] /\ uid'[p] = uid[p]

\* A purge of the users who were last seen before t; a torn one leaves shadow.db, that
\* of the NSS module leaves uid_gid.
PurgedAt(t) ==
    /\ passwd' = FreshUsers(t)
    /\ shadow' \in {shadow, {s \in shadow : s.uid \notin StaleUids(t)}}
    /\ uid_gid' \in {uid_gid, {m \in uid_gid : m[1] \notin StaleUids(t)}}
    /\ groups' = {g \in groups : \E m \in uid_gid' : m[2] = g.gid}

\* insertUser, and what is left of it without shadow.db.
Inserted(u, id) ==
    /\ InsertAllowed(u, id) /\ InsertPasswd(u, id)
    /\ shadow' \in {shadow, shadow \cup {[uid |-> id, password |-> EmptyHash]}}

\* updateOnlineAuthAndPassword, likewise.
Updated(id, h) ==
    /\ UpdatePasswd(id)
    /\ shadow' \in {shadow, {IF s.uid = id THEN [s EXCEPT !.password = h] ELSE s : s \in shadow}}

\* Nothing.
LEMMA SameTorn ==
    ASSUME TornInv, UNCHANGED tables, now' \in Nat
    PROVE  TornTables' /\ (SessionsKept => UpdatesSafe') /\ (UNCHANGED lastUpdate => CredentialIsOwn')
  <1> USE DEF tables
  <1>1. TornTables'
    BY DEF TornInv, TornTables, CacheTypeOK, UniqueKeys, HalfIsNew
  <1>2. SessionsKept => UpdatesSafe'
    BY DEF TornInv, UpdatesSafe, SessionsKept, Mode
  <1>3. UNCHANGED lastUpdate => CredentialIsOwn'
    BY DEF TornInv, CredentialIsOwn
  <1> QED
    BY <1>1, <1>2, <1>3

\* Who survives a purge keeps what it had.
LEMMA PurgeTorn ==
    ASSUME TornInv, NEW t, PurgedAt(t), SessionsKept, now' = now, lastUpdate' = lastUpdate
    PROVE  TornTables' /\ UpdatesSafe' /\ CredentialIsOwn'
  <1> USE DEF TornInv, TornTables
  <1>1. /\ passwd' \subseteq passwd /\ shadow' \subseteq shadow
        /\ groups' \subseteq groups /\ uid_gid' \subseteq uid_gid
    BY DEF PurgedAt, FreshUsers
  <1>2. \A r \in passwd' : r \in passwd /\ r.uid \notin StaleUids(t)
    BY DEF PurgedAt, FreshUsers, StaleUids, UniqueKeys
  <1>3. \A r \in passwd', s \in shadow : s.uid = r.uid => s \in shadow'
    BY <1>2 DEF PurgedAt
  <1>4. CacheTypeOK' /\ UniqueKeys'
    BY <1>1 DEF CacheTypeOK, UniqueKeys
  <1>5. HalfIsNew'
    <2> SUFFICES ASSUME NEW r \in passwd'
                 PROVE  /\ r.gid = r.uid
                        /\ [name |-> r.login, gid |-> r.uid] \in groups'
                        /\ <<r.uid, r.uid>> \in uid_gid'
                        /\ r.last_online_auth # ZeroTime => \E s \in shadow' : s.uid = r.uid
      BY DEF HalfIsNew
    <2>1. /\ r \in passwd /\ r.uid \notin StaleUids(t) /\ r.gid = r.uid
          /\ [name |-> r.login, gid |-> r.uid] \in groups
          /\ <<r.uid, r.uid>> \in uid_gid
          /\ r.last_online_auth # ZeroTime => \E s \in shadow : s.uid = r.uid
      BY <1>2 DEF HalfIsNew
    <2>2. <<r.uid, r.uid>> \in uid_gid'
      BY <2>1 DEF PurgedAt
    <2>3. [name |-> r.login, gid |-> r.uid] \in groups'
      BY <2>1, <2>2 DEF PurgedAt
    <2> QED
      BY <1>3, <2>1, <2>2, <2>3
  <1>6. UpdatesSafe'
    <2> SUFFICES ASSUME NEW p \in Procs, pc'[p] = "update"
                 PROVE  /\ \A r \in passwd' : r.uid = uid'[p] <=> r.login = user'[p]
                        /\ Mode(p) = shadowRWMode =>
                              \A r \in passwd' : r.uid = uid'[p] => \E s \in shadow' : s.uid = r.uid
      BY DEF UpdatesSafe, Mode
    <2>1. pc[p] = "update" /\ user'[p] = user[p] /\ uid'[p] = uid[p]
      BY DEF SessionsKept
    <2> QED
      BY <1>1, <1>3, <2>1 DEF UpdatesSafe
  <1>7. CredentialIsOwn'
    BY <1>1 DEF CredentialIsOwn
  <1> QED
    BY <1>4, <1>5, <1>6, <1>7

\* A new user collides with nobody and finds no credential under its uid, not even one
\* that a torn purge has left there.
LEMMA InsertTorn ==
    ASSUME TornInv, Undisturbed, NEW q \in Procs, pc[q] = "insert", user[q] \in Users,
           Inserted(user[q], uid[q]), now' = now, lastUpdate' = lastUpdate,
           \A p \in Procs \ {q} : pc'[p] = pc[p] /\ user'[p] = user[p] /\ uid'[p] = uid[p],
           pc'[q] = "update" =>
              /\ user'[q] = user[q] /\ uid'[q] = uid[q]
              /\ \E s \in shadow' : s.uid = uid[q]
    PROVE  TornTables' /\ UpdatesSafe' /\ CredentialIsOwn'
  <1> USE DEF TornInv, TornTables
  <1> DEFINE u == user[q]
             id == uid[q]
             np == [login |-> u, uid |-> id, gid |-> id, last_online_auth |-> ZeroTime]
             ns == [uid |-> id, password |-> EmptyHash]
             ng == [name |-> u, gid |-> id]
  <1>1. /\ passwd' = passwd \cup {np} /\ shadow' \in {shadow, shadow \cup {ns}}
        /\ groups' = groups \cup {ng} /\ uid_gid' = uid_gid \cup {<<id, id>>}
    BY DEF Inserted, InsertPasswd
  <1>2. id \in Uids
    BY DEF PamTypeOK
  <1>3. np \in PasswdRows /\ ns \in ShadowRows /\ ng \in GroupRows /\ <<id, id>> \in Uids \X Uids
    BY <1>2, NewRows
  <1>4. /\ np.login = u /\ np.uid = id /\ np.gid = id /\ np.last_online_auth = ZeroTime
        /\ ns.uid = id /\ ns.password = EmptyHash /\ ng.name = u /\ ng.gid = id
        /\ [name |-> np.login, gid |-> np.uid] = ng
    OBVIOUS
  <1>5. InsertAllowed(u, id)
    BY DEF Inserted
  <1> HIDE DEF np, ns, ng, u, id
  <1>6. CacheTypeOK'
    BY <1>1, <1>3 DEF CacheTypeOK
  <1>7. UniqueKeys'
    BY <1>1, <1>4, <1>5 DEF UniqueKeys, InsertAllowed
  <1>8. HalfIsNew'
    BY <1>1, <1>4 DEF HalfIsNew
  <1>9. CredentialIsOwn'
    <2>1. \A r \in passwd', s \in shadow' :
            r.uid = s.uid /\ s.password # EmptyHash => r \in passwd /\ s \in shadow
      BY <1>1, <1>4, <1>5 DEF InsertAllowed
    <2> QED
      BY <2>1 DEF CredentialIsOwn
  <1>10. UpdatesSafe'
    <2> SUFFICES ASSUME NEW p \in Procs, pc'[p] = "update"
                 PROVE  /\ \A r \in passwd' : r.uid = uid'[p] <=> r.login = user'[p]
                        /\ Mode(p) = shadowRWMode =>
                              \A r \in passwd' : r.uid = uid'[p] => \E s \in shadow' : s.uid = r.uid
      BY DEF UpdatesSafe, Mode
    <2>1. CASE p = q
      <3>1. user'[p] = u /\ uid'[p] = id /\ \E s \in shadow' : s.uid = id
        BY <2>1 DEF u, id
      <3>2. \A r \in passwd : r.login # u /\ r.uid # id
        BY <1>5 DEF InsertAllowed
      <3> QED
        BY <1>1, <1>4, <3>1, <3>2
    <2>2. CASE p # q
      <3>1. pc[p] = "update" /\ user'[p] = user[p] /\ uid'[p] = uid[p]
        BY <2>2
      <3>2. ~lapsed
        BY <2>2 DEF Undisturbed
      <3>3. PICK own \in passwd : own.login = user[p] /\ own.uid = uid[p]
        BY <3>1, <3>2 DEF Stranded, HasRow
      <3>4. u # user[p] /\ id # uid[p]
        BY <1>5, <3>3 DEF InsertAllowed
      <3>5. shadow \subseteq shadow'
        BY <1>1
      <3> QED
        BY <1>1, <1>4, <3>1, <3>4, <3>5 DEF UpdatesSafe
    <2> QED
      BY <2>1, <2>2
  <1> QED
    BY <1>6, <1>7, <1>8, <1>9, <1>10

\* The update of a login that selects its own user changes nobody else's row.
LEMMA UpdateTorn ==
    ASSUME TornInv, NEW q \in Procs, pc[q] = "update", Mode(q) = shadowRWMode,
           password[q] \in Passwords, user[q] \in Users,
           Updated(uid[q], encryptPassword(password[q])), SessionsKept, now' = now,
           \/ UNCHANGED <<shadow, lastUpdate>>
           \/ /\ shadow' = {IF s.uid = uid[q] THEN [s EXCEPT !.password = encryptPassword(password[q])] ELSE s
                               : s \in shadow}
              /\ lastUpdate' = IF HasRow(q)
                               THEN [lastUpdate EXCEPT ![user[q]] = <<encryptPassword(password[q]), now>>]
                               ELSE lastUpdate
    PROVE  TornTables' /\ UpdatesSafe' /\ CredentialIsOwn'
  <1> USE DEF TornInv, TornTables
  <1> DEFINE id == uid[q]
             h == encryptPassword(password[q])
             P(r) == IF r.uid = id THEN [r EXCEPT !.last_online_auth = now] ELSE r
             S(s) == IF s.uid = id THEN [s EXCEPT !.password = h] ELSE s
  <1>1. /\ passwd' = {P(r) : r \in passwd}
        /\ shadow' = shadow \/ shadow' = {S(s) : s \in shadow}
        /\ groups' = groups /\ uid_gid' = uid_gid
    BY DEF Updated, UpdatePasswd
  <1>2. \A r \in passwd : /\ P(r) \in PasswdRows
                          /\ P(r).login = r.login /\ P(r).uid = r.uid /\ P(r).gid = r.gid
                          /\ r.uid # id => P(r) = r
    BY DEF CacheTypeOK, PasswdRows
  <1>3. h \in Hashes
    BY DEF Hashes
  <1>4. \A s \in shadow : /\ S(s) \in ShadowRows /\ S(s).uid = s.uid
                          /\ s.uid # id => S(s) = s
                          /\ s.uid = id => S(s).password = h
    BY <1>3 DEF CacheTypeOK, ShadowRows
  <1>5. /\ \A r \in passwd : r.uid = id <=> r.login = user[q]
        /\ \A r \in passwd : r.uid = id => (\E s \in shadow : s.uid = r.uid) /\ HasRow(q)
    BY DEF UpdatesSafe, HasRow
  <1>6. \/ UNCHANGED <<shadow, lastUpdate>>
        \/ /\ shadow' = {S(s) : s \in shadow}
           /\ lastUpdate' = IF HasRow(q) THEN [lastUpdate EXCEPT ![user[q]] = <<h, now>>] ELSE lastUpdate
    OBVIOUS
  <1> HIDE DEF P, S, id, h
  <1>7. \A s \in shadow : \E t \in shadow' : t.uid = s.uid
    BY <1>1, <1>4
  <1>8. CacheTypeOK'
    BY <1>1, <1>2, <1>4 DEF CacheTypeOK
  <1>9. UniqueKeys'
    <2>1. \A r, o \in passwd' : r.login = o.login \/ r.uid = o.uid => r = o
      BY <1>1, <1>2 DEF UniqueKeys
    <2>2. \A s, t \in shadow' : s.uid = t.uid => s = t
      BY <1>1, <1>4 DEF UniqueKeys
    <2> QED
      BY <1>1, <2>1, <2>2 DEF UniqueKeys
  <1>10. HalfIsNew'
    <2> SUFFICES ASSUME NEW r \in passwd'
                 PROVE  /\ r.gid = r.uid
                        /\ [name |-> r.login, gid |-> r.uid] \in groups'
                        /\ <<r.uid, r.uid>> \in uid_gid'
                        /\ r.last_online_auth # ZeroTime => \E s \in shadow' : s.uid = r.uid
      BY DEF HalfIsNew
    <2>1. PICK o \in passwd : r = P(o)
      BY <1>1
    <2>2. r.login = o.login /\ r.uid = o.uid /\ r.gid = o.gid
      BY <1>2, <2>1
    <2>3. r.last_online_auth # ZeroTime => \E s \in shadow : s.uid = o.uid
      BY <1>2, <1>5, <2>1 DEF HalfIsNew
    <2> QED
      BY <1>1, <1>7, <2>2, <2>3 DEF HalfIsNew
  <1>11. UpdatesSafe'
    <2> SUFFICES ASSUME NEW p \in Procs, pc'[p] = "update"
                 PROVE  /\ \A r \in passwd' : r.uid = uid'[p] <=> r.login = user'[p]
                        /\ Mode(p) = shadowRWMode =>
                              \A r \in passwd' : r.uid = uid'[p] => \E s \in shadow' : s.uid = r.uid
      BY DEF UpdatesSafe, Mode
    <2>1. pc[p] = "update" /\ user'[p] = user[p] /\ uid'[p] = uid[p]
      BY DEF SessionsKept
    <2>2. \A r \in passwd' : \E o \in passwd : r.login = o.login /\ r.uid = o.uid
      BY <1>1, <1>2
    <2> QED
      BY <1>7, <2>1, <2>2 DEF UpdatesSafe
  <1>12. CredentialIsOwn'
    <2>1. \A r \in passwd' : \E o \in passwd : r.login = o.login /\ r.uid = o.uid
      BY <1>1, <1>2
    <2>2. CASE UNCHANGED <<shadow, lastUpdate>>
      BY <2>1, <2>2 DEF CredentialIsOwn
    <2>3. CASE /\ shadow' = {S(s) : s \in shadow}
               /\ lastUpdate' = IF HasRow(q) THEN [lastUpdate EXCEPT ![user[q]] = <<h, now>>] ELSE lastUpdate
      <3>1. /\ HasRow(q) => lastUpdate'[user[q]] = <<h, now>>
            /\ \A u \in Users \ {user[q]} : lastUpdate'[u] = lastUpdate[u]
        BY <2>3 DEF PamTypeOK
      <3>2. <<h, now>> # None /\ <<h, now>>[1] = h
        <4>1. <<h, now>> \in Hashes \X Int
          BY <1>3 DEF CacheTypeOK
        <4> QED
          BY <4>1, NoneAssumption
      <3>3. \A r \in passwd : r.login \in Users
        BY DEF CacheTypeOK, PasswdRows
      <3> SUFFICES ASSUME NEW o \in passwd, NEW s \in shadow,
                          o.uid = S(s).uid, S(s).password # EmptyHash
                   PROVE  lastUpdate'[o.login] # None /\ lastUpdate'[o.login][1] = S(s).password
        BY <2>1, <2>3 DEF CredentialIsOwn
      <3>4. CASE o.uid = id
        BY <1>4, <1>5, <3>1, <3>2, <3>4
      <3>5. CASE o.uid # id
        BY <1>4, <1>5, <3>1, <3>3, <3>5 DEF CredentialIsOwn
      <3> QED
        BY <3>4, <3>5
    <2> QED
      BY <1>6, <2>2, <2>3
  <1> QED
    BY <1>8, <1>9, <1>10, <1>11, <1>12

\* Update goes on with the uid of the user's own row, joined with its credential where
\* the login may read it.
LEMMA LookUpTorn ==
    ASSUME TornInv, NEW q \in Procs, LookUp(q)
    PROVE  TornTables' /\ UpdatesSafe' /\ CredentialIsOwn'
  <1> USE DEF TornInv, TornTables
  <1>1. UNCHANGED tables /\ now' = now /\ lastUpdate' = lastUpdate /\ now \in Nat
    BY DEF LookUp, CacheTypeOK
  <1>2. TornTables' /\ CredentialIsOwn'
    BY <1>1, SameTorn
  <1>3. ASSUME NEW row \in Rows(q)
        PROVE  /\ \A r \in passwd : r.uid = row.uid <=> r.login = user[q]
               /\ Mode(q) = shadowRWMode =>
                     \A r \in passwd : r.uid = row.uid => \E s \in shadow : s.uid = r.uid
    <2>1. CASE Mode(q) > shadowNotAvailableMode
      <3>1. PICK j \in passwd \X shadow :
              /\ j[1].login = user[q] /\ j[1].uid = j[2].uid
              /\ row = [uid |-> j[1].uid, last_online_auth |-> j[1].last_online_auth, password |-> j[2].password]
        BY <1>3, <2>1 DEF Rows, GetUserByName
      <3>2. row.uid = j[1].uid /\ j[1] \in passwd /\ j[2] \in shadow
        BY <3>1
      <3> QED
        BY <3>1, <3>2 DEF UniqueKeys
    <2>2. CASE ~(Mode(q) > shadowNotAvailableMode)
      <3>1. PICK o \in passwd :
              /\ o.login = user[q]
              /\ row = [uid |-> o.uid, last_online_auth |-> o.last_online_auth, password |-> EmptyHash]
        BY <1>3, <2>2 DEF Rows, GetUserByName
      <3>2. row.uid = o.uid
        BY <3>1
      <3>3. Mode(q) # shadowRWMode
        BY <2>2 DEF shadowRWMode, shadowNotAvailableMode
      <3> QED
        BY <3>1, <3>2, <3>3 DEF UniqueKeys
    <2> QED
      BY <2>1, <2>2
  <1>4. UpdatesSafe'
    <2> SUFFICES ASSUME NEW p \in Procs, pc'[p] = "update"
                 PROVE  /\ \A r \in passwd : r.uid = uid'[p] <=> r.login = user'[p]
                        /\ Mode(p) = shadowRWMode =>
                              \A r \in passwd : r.uid = uid'[p] => \E s \in shadow : s.uid = r.uid
      BY <1>1 DEF UpdatesSafe, Mode, tables
    <2>1. CASE p = q
      <3>1. PICK row \in Rows(q) : Goto(q, "update", row.uid)
        BY <2>1 DEF LookUp, Goto, PamTypeOK
      <3>2. uid'[p] = row.uid /\ user'[p] = user[q]
        BY <2>1, <3>1 DEF Goto, PamTypeOK
      <3> QED
        BY <1>3, <2>1, <3>2
    <2>2. CASE p # q
      <3>1. pc[p] = "update" /\ user'[p] = user[p] /\ uid'[p] = uid[p]
        BY <2>2 DEF LookUp, Goto, PamTypeOK
      <3> QED
        BY <3>1 DEF UpdatesSafe
    <2> QED
      BY <2>1, <2>2
  <1> QED
    BY <1>2, <1>4

-----------------------------------------------------------------------------
(* The steps.                                                              *)

\* A login that ends is not one that is about to update,
LEMMA SessionEnds ==
    ASSUME PamTypeOK, NEW q \in Procs, NEW o, Return(q, o)
    PROVE  SessionsKept
  BY DEF PamTypeOK, Return, SessionsKept

\* nor is one that goes on elsewhere.
LEMMA SessionGoes ==
    ASSUME PamTypeOK, NEW q \in Procs, NEW l, NEW id, Goto(q, l, id), l # "update"
    PROVE  SessionsKept
  BY DEF PamTypeOK, Goto, SessionsKept

\* cache.New, purge included.
LEMMA OpenTorn ==
    ASSUME TornInv, NEW mode, NEW exp, PurgeOnOpen(mode, exp), SessionsKept,
           now' = now, lastUpdate' = lastUpdate
    PROVE  TornTables' /\ UpdatesSafe' /\ CredentialIsOwn'
  <1>1. CASE mode = shadowRWMode /\ exp # 0
    <2>1. PurgedAt(now - PurgeDays(exp))
      BY <1>1 DEF PurgeOnOpen, cleanUpDB, CleanUpPasswd, PurgedAt
    <2> QED
      BY <2>1, PurgeTorn
  <1>2. CASE ~(mode = shadowRWMode /\ exp # 0)
    BY <1>2, SameTorn DEF PurgeOnOpen, TornInv, TornTables, CacheTypeOK
  <1> QED
    BY <1>1, <1>2

\* Every step of a login.
LEMMA PamStepTorn ==
    ASSUME TornInv, Undisturbed, NEW q \in Procs, PamStep(q) \/ PamFailure(q)
    PROVE  TornTables' /\ UpdatesSafe' /\ CredentialIsOwn'
  <1>0. /\ PamTypeOK /\ now \in Nat /\ uid[q] \in Uids
        /\ pc[q] # "idle" => user[q] \in Users /\ password[q] \in Passwords
    BY DEF TornInv, TornTables, CacheTypeOK, PamTypeOK
  <1>1. CASE UNCHANGED <<tables, now, lastUpdate>> /\ SessionsKept
    BY <1>0, <1>1, SameTorn
  <1>2. CASE NewOpens(q)
    <2>1. SessionsKept
      BY <1>0, <1>2, SessionGoes DEF NewOpens, AfterNew
    <2> QED
      BY <1>2, <2>1, OpenTorn DEF NewOpens
  <1>3. CASE LookUp(q)
    BY <1>3, LookUpTorn
  <1>4. CASE InsertUser(q)
    <2>1. CASE UNCHANGED tables /\ \E o : Return(q, o)
      BY <1>0, <1>1, <1>4, <2>1, SessionEnds DEF InsertUser
    <2>2. CASE /\ InsertAllowed(user[q], uid[q]) /\ insertUser(user[q], uid[q])
               /\ Goto(q, "update", uid[q])
      <3> DEFINE ns == [uid |-> uid[q], password |-> EmptyHash]
      <3>1. Inserted(user[q], uid[q]) /\ ns \in shadow' /\ ns.uid = uid[q]
        BY <2>2 DEF Inserted, insertUser
      <3> HIDE DEF ns
      <3>2. /\ pc[q] = "insert" /\ user[q] \in Users /\ now' = now /\ lastUpdate' = lastUpdate
        BY <1>0, <1>4 DEF InsertUser
      <3>3. /\ user' = user /\ uid'[q] = uid[q]
            /\ \A p \in Procs \ {q} : pc'[p] = pc[p] /\ uid'[p] = uid[p]
        BY <1>0, <2>2 DEF Goto, PamTypeOK
      <3> QED
        BY <3>1, <3>2, <3>3, InsertTorn
    <2> QED
      BY <1>4, <2>1, <2>2 DEF InsertUser
  <1>5. CASE UpdateUser(q)
    <2>1. SessionsKept
      BY <1>0, <1>5, SessionEnds DEF UpdateUser
    <2>2. CASE UNCHANGED <<tables, lastUpdate>>
      BY <1>1, <1>5, <2>1, <2>2 DEF UpdateUser
    <2>3. CASE /\ Mode(q) = shadowRWMode
               /\ updateOnlineAuthAndPassword(uid[q], encryptPassword(password[q]))
               /\ lastUpdate' = IF HasRow(q)
                                THEN [lastUpdate EXCEPT ![user[q]] = <<encryptPassword(password[q]), now>>]
                                ELSE lastUpdate
      <3>1. Updated(uid[q], encryptPassword(password[q]))
        BY <2>3 DEF Updated, updateOnlineAuthAndPassword
      <3>2. pc[q] = "update" /\ user[q] \in Users /\ password[q] \in Passwords /\ now' = now
        BY <1>0, <1>5 DEF UpdateUser
      <3> QED
        BY <2>1, <2>3, <3>1, <3>2, UpdateTorn DEF updateOnlineAuthAndPassword
    <2> QED
      BY <1>5, <2>2, <2>3 DEF UpdateUser
  <1>6. CASE AadAnswers(q) \/ NewReuses(q) \/ CanAuthenticate(q) \/ Probe(q)
    BY <1>0, <1>1, <1>6, SessionEnds, SessionGoes DEF AadAnswers, NewReuses, AfterNew, CanAuthenticate, Probe
  <1>7. CASE PamFailure(q)
    BY <1>0, <1>1, <1>7, SessionEnds DEF PamFailure, NewFails, DbError
  <1> QED
    BY <1>2, <1>3, <1>4, <1>5, <1>6, <1>7 DEF PamStep

\* Every step but torn commits.
LEMMA WholeStepTorn ==
    ASSUME TornInv, Undisturbed, [Next]_vars
    PROVE  TornTables' /\ UpdatesSafe' /\ CredentialIsOwn'
  <1>0. PamTypeOK /\ now \in Nat
    BY DEF TornInv, TornTables, CacheTypeOK
  <1>1. CASE UNCHANGED <<tables, lastUpdate>> /\ now' \in Nat /\ SessionsKept
    BY <1>1, SameTorn
  <1>2. ASSUME NEW p \in Procs, NEW u, NEW pw, NEW c, Start(p, u, pw, c)
        PROVE  TornTables' /\ UpdatesSafe' /\ CredentialIsOwn'
    <2>1. SessionsKept
      BY <1>0, <1>2 DEF Start, PamTypeOK, SessionsKept
    <2> QED
      BY <1>0, <1>1, <1>2, <2>1 DEF Start
  <1>3. ASSUME NEW p \in Procs, StartFails(p) \/ Crash(p)
        PROVE  TornTables' /\ UpdatesSafe' /\ CredentialIsOwn'
    BY <1>0, <1>1, <1>3, SessionEnds DEF StartFails, Crash
  <1>4. ASSUME NEW p \in Procs, NEW e, Teardown(p, e)
        PROVE  TornTables' /\ UpdatesSafe' /\ CredentialIsOwn'
    BY <1>0, <1>1, <1>4 DEF Teardown, session, SessionsKept
  <1>5. CASE CliOpen
    BY <1>5, OpenTorn DEF CliOpen, pamVars, session, SessionsKept
  <1>6. CASE NssLookup
    <2>1. SessionsKept /\ lastUpdate' = lastUpdate
      BY <1>6 DEF NssLookup, pamVars, session, SessionsKept
    <2>2. PurgedAt(purge_time) /\ now' = now
      BY <1>6 DEF NssLookup, NssOpen, cleanup_expired_entries, PurgedAt
    <2> QED
      BY <2>1, <2>2, PurgeTorn
  <1>7. CASE Tick \/ UNCHANGED vars
    BY <1>0, <1>1, <1>7 DEF Tick, pamVars, session, SessionsKept, vars
  <1> QED
    BY <1>2, <1>3, <1>4, <1>5, <1>6, <1>7, PamStepTorn DEF Next, Step

\* A commit that is torn.
LEMMA TornStepTorn ==
    ASSUME TornInv, Undisturbed, TornStep
    PROVE  TornTables' /\ UpdatesSafe' /\ CredentialIsOwn' /\ PamTypeOK'
  <1>0. /\ PamTypeOK /\ now \in Nat /\ opened \in [Procs -> SUBSET Int]
        /\ lastUpdate \in [Users -> {None} \cup (Hashes \X Int)]
    BY DEF TornInv, TornTables, CacheTypeOK, PamTypeOK
  <1>1. ASSUME NEW q \in Procs, Dies(q) PROVE SessionsKept /\ PamTypeOK'
    <2>1. opened' \in [Procs -> SUBSET Int]
      BY <1>0, <1>1 DEF Dies
    <2> QED
      BY <1>0, <1>1, <2>1, SessionEnds, ReturnType DEF Dies
  <1>2. CASE TornCliPurge
    <2>1. PurgedAt(now - PurgeDays(DefaultExpiration))
      BY <1>2 DEF TornCliPurge, CleanUpPasswd, PurgedAt
    <2>2. SessionsKept /\ now' = now /\ lastUpdate' = lastUpdate /\ PamTypeOK'
      BY <1>0, <1>2 DEF TornCliPurge, pamVars, session, SessionsKept, PamTypeOK
    <2> QED
      BY <2>1, <2>2, PurgeTorn
  <1>3. ASSUME NEW q \in Procs, TornPurge(q)
        PROVE  TornTables' /\ UpdatesSafe' /\ CredentialIsOwn' /\ PamTypeOK'
    <2>1. PurgedAt(now - PurgeDays(Exp(q)))
      BY <1>3 DEF TornPurge, CleanUpPasswd, PurgedAt, Dies
    <2> QED
      BY <1>1, <1>3, <2>1, PurgeTorn DEF TornPurge, Dies
  <1>4. ASSUME NEW q \in Procs, TornInsert(q)
        PROVE  TornTables' /\ UpdatesSafe' /\ CredentialIsOwn' /\ PamTypeOK'
    <2>1. Inserted(user[q], uid[q]) /\ pc[q] = "insert" /\ user[q] \in Users
      BY <1>0, <1>4 DEF TornInsert, Inserted, Dies, PamTypeOK
    <2>2. /\ pc'[q] # "update" /\ now' = now /\ lastUpdate' = lastUpdate
          /\ \A p \in Procs \ {q} : pc'[p] = pc[p] /\ user'[p] = user[p] /\ uid'[p] = uid[p]
      BY <1>0, <1>4 DEF TornInsert, Dies, Return, PamTypeOK
    <2> QED
      BY <1>1, <1>4, <2>1, <2>2, InsertTorn DEF TornInsert
  <1>5. ASSUME NEW q \in Procs, TornUpdate(q)
        PROVE  TornTables' /\ UpdatesSafe' /\ CredentialIsOwn' /\ PamTypeOK'
    <2>1. Updated(uid[q], encryptPassword(password[q])) /\ UNCHANGED <<shadow, lastUpdate>> /\ now' = now
      BY <1>5 DEF TornUpdate, Updated, Dies
    <2>2. pc[q] = "update" /\ Mode(q) = shadowRWMode /\ user[q] \in Users /\ password[q] \in Passwords
      BY <1>0, <1>5 DEF TornUpdate, PamTypeOK
    <2> QED
      BY <1>1, <1>5, <2>1, <2>2, UpdateTorn DEF TornUpdate
  <1> QED
    BY <1>2, <1>3, <1>4, <1>5 DEF TornStep

\* TornInv is inductive while no login loses its row to another process.
LEMMA NextTorn == TornInv /\ Undisturbed /\ [TornNext]_tornVars => TornInv'
  <1> SUFFICES ASSUME TornInv, Undisturbed, [TornNext]_tornVars PROVE TornInv'
    OBVIOUS
  <1>1. TornTables' /\ UpdatesSafe' /\ CredentialIsOwn' /\ PamTypeOK'
    <2>1. CacheTypeOK /\ PamTypeOK
      BY DEF TornInv, TornTables
    <2>2. CASE TornStep
      BY <2>2, TornStepTorn
    <2>3. CASE [Next]_vars
      BY <2>1, <2>3, WholeStepTorn, NextType
    <2> QED
      BY <2>2, <2>3 DEF TornNext, tornVars
  <1>2. lapsed' \in BOOLEAN /\ (Stranded' => lapsed')
    <2>1. CASE TornNext
      BY <2>1 DEF TornInv, TornNext, TornStep, Next
    <2>2. CASE UNCHANGED tornVars
      BY <2>2 DEF TornInv, tornVars, vars, pamVars, session, tables, Stranded, HasRow
    <2> QED
      BY <2>1, <2>2
  <1> QED
    BY <1>1, <1>2 DEF TornInv

\* So it holds as long as that is so.
LEMMA TornSystem == TornSpec /\ []Undisturbed => []TornInv
  <1>1. TornInit => TornInv
    <2> SUFFICES ASSUME TornInit PROVE TornInv
      OBVIOUS
    <2>1. Inv
      BY InitInv DEF TornInit
    <2> QED
      BY <2>1 DEF TornInit, Init, CacheInit, PamInit, Inv, TablesInv, TornInv, TornTables, HalfIsNew,
         UpdatesSafe, CredentialIsOwn, Stranded
  <1> QED
    BY <1>1, NextTorn, PTL DEF TornSpec

\* Whatever halves of commits are lost, on a machine where one process logs users in, or
\* until a login loses its row to another process, no user is given the password of
\* another: neither a credential that a torn purge has left nor a half insertion is one.
THEOREM CredentialsStayOwn == TornSpec /\ []Undisturbed => []CredentialIsOwn
  <1>1. TornInv => CredentialIsOwn
    BY DEF TornInv
  <1> QED
    BY <1>1, TornSystem, PTL

-----------------------------------------------------------------------------
(* Half an insertion is healed.                                            *)

\* A duration of 64 bits never reaches back to the year 1.
LEMMA DurationReach == ASSUME NEW d \in Int PROVE Duration(d) \in Int /\ Duration(d) < -ZeroTime
  <1>1. ASSUME NEW n \in Int, NEW m \in Nat \ {0} PROVE n % m \in Int /\ n % m < m
    BY <1>1
  <1>2. d + MaxDuration \in Int /\ 2 * MaxDuration \in Nat \ {0}
    BY CacheAssumption
  <1> DEFINE w == (d + MaxDuration) % (2 * MaxDuration)
  <1>3. w \in Int /\ w < 2 * MaxDuration
    BY <1>1, <1>2
  <1> HIDE DEF w
  <1>4. Duration(d) = w - MaxDuration
    BY DEF Duration, w
  <1> QED
    BY <1>3, <1>4, CacheAssumption, TornAssumption DEF ZeroTime

\* Only an opening of the cache takes a login into it, if it is not open already.
LEMMA WhoOpens ==
    ASSUME PamTypeOK, TornNext, NEW p \in Procs, pc[p] \in {"new_online", "new_offline"},
           pc'[p] \in {"can_auth", "get_user", "probe", "insert", "update"}, Exp(p) \notin opened[p]
    PROVE  NewOpens(p)
  <1>0. pc \in [Procs -> Pcs]
    BY DEF PamTypeOK
  <1>1. ASSUME NEW q \in Procs, NEW o, Return(q, o) PROVE FALSE
    BY <1>0, <1>1 DEF Return
  <1>2. ASSUME NEW q \in Procs, NEW l, NEW id, Goto(q, l, id) PROVE q = p
    BY <1>0, <1>2 DEF Goto
  <1>3. pc' # pc
    OBVIOUS
  <1>4. ASSUME NEW q \in Procs, NEW u, NEW pw, NEW c, Start(q, u, pw, c) PROVE FALSE
    BY <1>0, <1>4 DEF Start
  <1>5. ASSUME NEW q \in Procs, PamStep(q) PROVE NewOpens(p)
    <2>1. CASE AadAnswers(q) \/ LookUp(q) \/ Probe(q) \/ InsertUser(q)
      BY <1>1, <1>2, <2>1 DEF AadAnswers, LookUp, Probe, InsertUser
    <2>2. CASE CanAuthenticate(q) \/ UpdateUser(q)
      BY <1>1, <2>2 DEF CanAuthenticate, UpdateUser
    <2>3. CASE NewReuses(q)
      BY <1>2, <2>3 DEF NewReuses, AfterNew
    <2>4. CASE NewOpens(q)
      BY <1>2, <2>4 DEF NewOpens, AfterNew
    <2> QED
      BY <1>5, <2>1, <2>2, <2>3, <2>4 DEF PamStep
  <1>6. ASSUME NEW q \in Procs, StartFails(q) \/ PamFailure(q) \/ Crash(q) PROVE FALSE
    BY <1>1, <1>6 DEF StartFails, PamFailure, NewFails, DbError, Crash
  <1>7. ASSUME NEW q \in Procs, TornPurge(q) \/ TornInsert(q) \/ TornUpdate(q) PROVE FALSE
    BY <1>1, <1>7 DEF TornPurge, TornInsert, TornUpdate, Dies
  <1>8. ASSUME NEW q \in Procs, NEW e, Teardown(q, e) PROVE FALSE
    BY <1>3, <1>8 DEF Teardown, session
  <1>9. CASE CliOpen \/ NssLookup \/ Tick \/ TornCliPurge
    BY <1>3, <1>9 DEF CliOpen, NssLookup, Tick, TornCliPurge, pamVars, session
  <1> QED
    BY <1>4, <1>5, <1>6, <1>7, <1>8, <1>9 DEF TornNext, TornStep, Next, Step

\* While no login loses its row to another process, who opens the cache with the right
\* to write it finds every user whole, whatever halves of commits were lost before: who
\* is half there is as old as can be, and is purged.
THEOREM OpenHeals == TornSpec /\ []Undisturbed => OpeningHeals
  <1>1. ASSUME TornInv, TornInv', TornNext, NEW p \in Procs,
               pc[p] \in {"new_online", "new_offline"}, UsingCache(p)', Exp(p) \notin opened[p],
               Mode(p) = shadowRWMode, Exp(p) # 0
        PROVE  EveryUserComplete'
    <2>1. PamTypeOK /\ CacheTypeOK
      BY <1>1 DEF TornInv, TornTables
    <2>2. NewOpens(p)
      BY <1>1, <2>1, WhoOpens DEF UsingCache
    <2>3. passwd' = FreshUsers(now - PurgeDays(Exp(p)))
      BY <1>1, <2>2 DEF NewOpens, PurgeOnOpen, cleanUpDB, CleanUpPasswd
    <2>4. Exp(p) \in Int
      BY <1>1, <2>1, ExpInt
    <2>5. PurgeMultiplier * (IF Exp(p) < 0 THEN DefaultExpiration ELSE Exp(p)) \in Int
      BY <2>4, CacheAssumption
    <2>6. PurgeDays(Exp(p)) \in Int /\ PurgeDays(Exp(p)) < -ZeroTime
      BY <2>5, DurationReach DEF PurgeDays
    <2>7. \A r \in passwd' : r.last_online_auth # ZeroTime
      BY <2>1, <2>3, <2>6 DEF FreshUsers, CacheTypeOK, ZeroTime
    <2> QED
      BY <1>1, <2>7 DEF TornInv, TornTables, HalfIsNew, EveryUserComplete
  <1>2. TornInv /\ TornInv' /\ [TornNext]_tornVars =>
            [\A p \in Procs :
                /\ pc[p] \in {"new_online", "new_offline"} /\ UsingCache(p)'
                /\ Exp(p) \notin opened[p] /\ Mode(p) = shadowRWMode /\ Exp(p) # 0
                => EveryUserComplete']_tornVars
    BY <1>1
  <1> QED
    BY <1>2, TornSystem, PTL DEF TornSpec, OpeningHeals

-----------------------------------------------------------------------------
(* Nobody is refused.                                                      *)

\* One process logs users in, and only the Go code purges.
OnlyGo == (\A p, q \in Procs : p = q) /\ "nss" \notin Actors

\* A group and a membership go with their user.
NoLeftovers ==
    /\ \A g \in groups : \E r \in passwd : r.login = g.name /\ r.uid = g.gid
    /\ \A m \in uid_gid : m[1] = m[2] /\ \E r \in passwd : r.uid = m[1]

\* Who is to be inserted is not there, nor is the uid taken that the search has found.
InsertsNew ==
    \A p \in Procs :
        /\ pc[p] \in {"probe", "insert"} => \A r \in passwd : r.login # user[p]
        /\ pc[p] = "insert" => \A r \in passwd : r.uid # uid[p]

CleanInv == Inv /\ NoLeftovers /\ InsertsNew /\ NeverRefusedByLeftovers

\* cleanUpDB takes the group and the membership with the user.
LEMMA CleanUpClean ==
    ASSUME CleanInv, NEW mode, NEW exp, PurgeOnOpen(mode, exp)
    PROVE  NoLeftovers' /\ passwd' \subseteq passwd
  <1> USE DEF CleanInv
  <1>1. CASE UNCHANGED tables
    BY <1>1 DEF tables, NoLeftovers
  <1>2. CASE mode = shadowRWMode /\ exp # 0
    <2> DEFINE t == now - PurgeDays(exp)
    <2>1. /\ passwd' = FreshUsers(t)
          /\ uid_gid' = {m \in uid_gid : m[1] \notin StaleUids(t)}
          /\ groups' = {g \in groups : \E m \in uid_gid' : m[2] = g.gid}
      BY <1>2 DEF PurgeOnOpen, cleanUpDB, CleanUpPasswd
    <2> HIDE DEF t
    <2>2. \A r \in passwd : r.uid \notin StaleUids(t) => r \in passwd'
      BY <2>1 DEF FreshUsers, StaleUids
    <2>3. \A m \in uid_gid' : m[1] = m[2] /\ \E r \in passwd' : r.uid = m[1]
      BY <2>1, <2>2 DEF NoLeftovers
    <2>4. ASSUME NEW g \in groups' PROVE \E r \in passwd' : r.login = g.name /\ r.uid = g.gid
      <3>1. PICK m \in uid_gid' : m[2] = g.gid
        BY <2>1, <2>4
      <3>2. PICK r \in passwd : r.login = g.name /\ r.uid = g.gid
        BY <2>1, <2>4 DEF NoLeftovers
      <3>3. r.uid \notin StaleUids(t)
        BY <2>1, <2>3, <3>1, <3>2
      <3> QED
        BY <2>2, <3>2, <3>3
    <2> QED
      BY <2>1, <2>3, <2>4 DEF NoLeftovers, FreshUsers
  <1> QED
    BY <1>1, <1>2 DEF PurgeOnOpen

\* Steps that give no user a row and take no login to its insertion.
LEMMA SameClean ==
    ASSUME CleanInv, passwd' \subseteq passwd,
           \A p \in Procs : pc'[p] \in {"probe", "insert"} =>
              pc'[p] = pc[p] /\ user'[p] = user[p] /\ uid'[p] = uid[p]
    PROVE  InsertsNew'
  BY DEF CleanInv, InsertsNew

\* A login that ends with another answer, or goes on.
LEMMA AnswerClean ==
    ASSUME CleanInv, NEW q \in Procs, NEW o, Return(q, o), o \notin {"exists", "constraint"}
    PROVE  /\ NeverRefusedByLeftovers'
           /\ passwd' \subseteq passwd => InsertsNew'
  <1>1. PamTypeOK
    BY DEF CleanInv, Inv
  <1>2. NeverRefusedByLeftovers'
    BY <1>1 DEF CleanInv, NeverRefusedByLeftovers, Return, PamTypeOK
  <1> QED
    BY <1>1, <1>2, SameClean DEF Return, PamTypeOK

\* A login that goes on is not refused; where it goes to neither probe nor insert, no
\* user is at risk.
LEMMA GotoClean ==
    ASSUME CleanInv, NEW q \in Procs, NEW l, NEW id, Goto(q, l, id)
    PROVE  /\ NeverRefusedByLeftovers'
           /\ passwd' \subseteq passwd /\ l \notin {"probe", "insert"} => InsertsNew'
  <1>1. PamTypeOK
    BY DEF CleanInv, Inv
  <1>2. NeverRefusedByLeftovers'
    BY DEF CleanInv, NeverRefusedByLeftovers, Goto
  <1>3. passwd' \subseteq passwd /\ l \notin {"probe", "insert"} => InsertsNew'
    BY <1>1, SameClean DEF Goto, PamTypeOK
  <1> QED
    BY <1>2, <1>3

\* The steps of Update up to its transaction.
LEMMA LookUpClean ==
    ASSUME CleanInv, OnlyGo, NEW q \in Procs, LookUp(q)
    PROVE  InsertsNew' /\ NeverRefusedByLeftovers'
  <1>0. UNCHANGED tables /\ PamTypeOK
    BY DEF LookUp, CleanInv, Inv
  <1>1. ASSUME NEW id, Goto(q, "update", id) PROVE InsertsNew' /\ NeverRefusedByLeftovers'
    BY <1>0, <1>1, GotoClean DEF tables
  <1>2. CASE Rows(q) = {} /\ Goto(q, "probe", UidHash[user[q]])
    <2>1. ASSUME NEW r \in passwd, r.login = user[q] PROVE FALSE
      <3>1. PICK s \in shadow : s.uid = r.uid
        BY DEF CleanInv, Inv, TablesInv, EveryUserComplete
      <3>2. CASE Mode(q) > shadowNotAvailableMode
        <4>1. <<r, s>> \in {k \in passwd \X shadow : k[1].login = user[q] /\ k[1].uid = k[2].uid}
          BY <2>1, <3>1
        <4> QED
          BY <1>2, <3>2, <4>1 DEF Rows, GetUserByName
      <3>3. CASE ~(Mode(q) > shadowNotAvailableMode)
        BY <1>2, <2>1, <3>3 DEF Rows, GetUserByName
      <3> QED
        BY <3>2, <3>3
    <2>2. InsertsNew'
      BY <1>0, <1>2, <2>1 DEF InsertsNew, Goto, tables, OnlyGo, PamTypeOK
    <2> QED
      BY <1>2, <2>2, GotoClean
  <1> QED
    BY <1>1, <1>2 DEF LookUp

\* A round of generateUIDForUser finds no leftover: an id that is taken has a user, of
\* another name.
LEMMA ProbeClean ==
    ASSUME CleanInv, OnlyGo, NEW q \in Procs, Probe(q)
    PROVE  InsertsNew' /\ NeverRefusedByLeftovers'
  <1>0. UNCHANGED tables /\ PamTypeOK /\ pc[q] = "probe"
    BY DEF Probe, CleanInv, Inv
  <1>1. \A r \in passwd : r.login # user[q]
    BY <1>0 DEF CleanInv, InsertsNew
  <1>2. user[q] \notin IdHolders(uid[q])
    BY <1>1 DEF CleanInv, NoLeftovers, IdHolders
  <1>3. CASE Return(q, "homedir")
    BY <1>0, <1>3, AnswerClean DEF tables
  <1>4. CASE IdHolders(uid[q]) = {} /\ Goto(q, "insert", uid[q])
    <2>1. \A r \in passwd : r.uid # uid[q]
      BY <1>4 DEF IdHolders
    <2>2. InsertsNew'
      BY <1>0, <1>1, <1>4, <2>1 DEF InsertsNew, Goto, tables, OnlyGo, PamTypeOK
    <2> QED
      BY <1>4, <2>2, GotoClean
  <1>5. CASE Goto(q, "probe", NextUid(uid[q]))
    <2>1. InsertsNew'
      BY <1>0, <1>1, <1>5 DEF InsertsNew, Goto, tables, OnlyGo, PamTypeOK
    <2> QED
      BY <1>5, <2>1, GotoClean
  <1> QED
    BY <1>2, <1>3, <1>4, <1>5 DEF Probe

\* What is inserted is whole and new, so no key of a table refuses it.
LEMMA InsertClean ==
    ASSUME CleanInv, OnlyGo, NEW q \in Procs, InsertUser(q)
    PROVE  NoLeftovers' /\ InsertsNew' /\ NeverRefusedByLeftovers'
  <1>0. /\ PamTypeOK /\ pc[q] = "insert"
        /\ \A r \in passwd : r.login # user[q] /\ r.uid # uid[q]
    BY DEF InsertUser, CleanInv, Inv, InsertsNew
  <1>1. InsertAllowed(user[q], uid[q])
    <2>1. \A g \in groups : g.name # user[q] /\ g.gid # uid[q]
      BY <1>0 DEF CleanInv, NoLeftovers
    <2>2. <<uid[q], uid[q]>> \notin uid_gid
      BY <1>0 DEF CleanInv, NoLeftovers
    <2>3. \A s \in shadow : s.uid # uid[q]
      BY <1>0 DEF CleanInv, Inv, TablesInv, ShadowHasUser
    <2> QED
      BY <1>0, <2>1, <2>2, <2>3 DEF InsertAllowed
  <1>2. CASE Return(q, "shadow") /\ UNCHANGED tables
    BY <1>2, AnswerClean DEF tables, CleanInv, NoLeftovers
  <1>3. CASE insertUser(user[q], uid[q]) /\ Goto(q, "update", uid[q])
    <2> DEFINE np == [login |-> user[q], uid |-> uid[q], gid |-> uid[q], last_online_auth |-> ZeroTime]
               ng == [name |-> user[q], gid |-> uid[q]]
    <2>1. /\ passwd' = passwd \cup {np} /\ groups' = groups \cup {ng}
          /\ uid_gid' = uid_gid \cup {<<uid[q], uid[q]>>}
      BY <1>3 DEF insertUser, InsertPasswd
    <2>2. np.login = ng.name /\ np.uid = ng.gid /\ np.uid = uid[q]
      OBVIOUS
    <2> HIDE DEF np, ng
    <2>3. NoLeftovers'
      <3>1. \A g \in groups' : \E r \in passwd' : r.login = g.name /\ r.uid = g.gid
        BY <2>1, <2>2 DEF CleanInv, NoLeftovers
      <3>2. \A m \in uid_gid' : m[1] = m[2] /\ \E r \in passwd' : r.uid = m[1]
        BY <2>1, <2>2 DEF CleanInv, NoLeftovers
      <3> QED
        BY <3>1, <3>2 DEF NoLeftovers
    <2>4. InsertsNew'
      BY <1>0, <1>3 DEF InsertsNew, Goto, OnlyGo, PamTypeOK
    <2> QED
      BY <1>3, <2>3, <2>4, GotoClean
  <1> QED
    BY <1>1, <1>2, <1>3 DEF InsertUser

\* updateOnlineAuthAndPassword keeps who is in the tables.
LEMMA UpdateClean ==
    ASSUME CleanInv, OnlyGo, NEW q \in Procs, UpdateUser(q)
    PROVE  NoLeftovers' /\ InsertsNew' /\ NeverRefusedByLeftovers'
  <1>0. PamTypeOK
    BY DEF CleanInv, Inv
  <1>1. PICK o : Return(q, o) /\ o \notin {"exists", "constraint"}
    BY DEF UpdateUser
  <1>2. NeverRefusedByLeftovers'
    BY <1>1, AnswerClean
  <1>3. InsertsNew'
    BY <1>0, <1>1 DEF InsertsNew, Return, OnlyGo, PamTypeOK
  <1>4. CASE UNCHANGED tables
    BY <1>2, <1>3, <1>4 DEF tables, CleanInv, NoLeftovers
  <1>5. CASE UpdatePasswd(uid[q])
    <2> DEFINE P(r) == IF r.uid = uid[q] THEN [r EXCEPT !.last_online_auth = now] ELSE r
    <2>1. passwd' = {P(r) : r \in passwd} /\ UNCHANGED <<groups, uid_gid>>
      BY <1>5 DEF UpdatePasswd
    <2>2. \A r \in passwd : P(r).login = r.login /\ P(r).uid = r.uid
      BY DEF CleanInv, Inv, TablesInv, CacheTypeOK, PasswdRows
    <2> HIDE DEF P
    <2>3. \A r \in passwd : \E n \in passwd' : n.login = r.login /\ n.uid = r.uid
      BY <2>1, <2>2
    <2>4. NoLeftovers'
      BY <2>1, <2>3 DEF CleanInv, NoLeftovers
    <2> QED
      BY <1>2, <1>3, <2>4
  <1> QED
    BY <1>4, <1>5 DEF UpdateUser, updateOnlineAuthAndPassword

\* CleanInv is inductive for whole commits.
LEMMA NextClean == OnlyGo /\ CleanInv /\ [Next]_vars => CleanInv'
  <1> SUFFICES ASSUME OnlyGo, CleanInv, [Next]_vars
               PROVE  NoLeftovers' /\ InsertsNew' /\ NeverRefusedByLeftovers'
    BY NextInv DEF CleanInv
  <1>0. PamTypeOK
    BY DEF CleanInv, Inv
  <1>1. UNCHANGED tables => NoLeftovers' /\ passwd' \subseteq passwd
    BY DEF tables, CleanInv, NoLeftovers
  <1>2. ASSUME UNCHANGED session, passwd' \subseteq passwd PROVE InsertsNew' /\ NeverRefusedByLeftovers'
    BY <1>2, SameClean DEF session, CleanInv, NeverRefusedByLeftovers
  <1>3. ASSUME NEW p \in Procs, NEW u, NEW pw, NEW c, Start(p, u, pw, c)
        PROVE  NoLeftovers' /\ InsertsNew' /\ NeverRefusedByLeftovers'
    <2>1. \A r \in Procs : pc'[r] \in {"probe", "insert"} =>
              pc'[r] = pc[r] /\ user'[r] = user[r] /\ uid'[r] = uid[r]
      BY <1>0, <1>3 DEF Start, PamTypeOK
    <2>2. NeverRefusedByLeftovers'
      BY <1>0, <1>3, NoneAssumption DEF Start, PamTypeOK, CleanInv, NeverRefusedByLeftovers, Outcomes, AuthErrors
    <2> QED
      BY <1>1, <1>3, <2>1, <2>2, SameClean DEF Start
  <1>4. ASSUME NEW p \in Procs, StartFails(p) \/ PamFailure(p) \/ Crash(p)
        PROVE  NoLeftovers' /\ InsertsNew' /\ NeverRefusedByLeftovers'
    <2>1. UNCHANGED tables /\ \E o \in {"config", "open", "io", None} : Return(p, o)
      BY <1>4 DEF StartFails, PamFailure, NewFails, DbError, Crash
    <2>2. None \notin {"exists", "constraint"}
      BY NoneAssumption DEF Outcomes, AuthErrors
    <2> QED
      BY <1>1, <2>1, <2>2, AnswerClean
  <1>5. ASSUME NEW p \in Procs, NEW e, Teardown(p, e)
        PROVE  NoLeftovers' /\ InsertsNew' /\ NeverRefusedByLeftovers'
    BY <1>1, <1>2, <1>5 DEF Teardown
  <1>6. CASE CliOpen
    BY <1>2, <1>6, CleanUpClean DEF CliOpen, pamVars
  <1>7. CASE Tick \/ UNCHANGED vars
    BY <1>1, <1>2, <1>7 DEF Tick, pamVars, vars
  <1>8. ASSUME NEW p \in Procs, PamStep(p)
        PROVE  NoLeftovers' /\ InsertsNew' /\ NeverRefusedByLeftovers'
    <2>1. CASE AadAnswers(p) \/ NewReuses(p)
      BY <1>1, <2>1, AnswerClean, GotoClean DEF AadAnswers, NewReuses, AfterNew
    <2>2. CASE NewOpens(p)
      BY <2>2, CleanUpClean, GotoClean DEF NewOpens, AfterNew
    <2>3. CASE CanAuthenticate(p)
      <3>1. OfflineOutcome(p, Rows(p)) \notin {"exists", "constraint"}
        BY DEF OfflineOutcome
      <3> QED
        BY <1>1, <2>3, <3>1, AnswerClean DEF CanAuthenticate
    <2>4. CASE LookUp(p)
      BY <1>1, <2>4, LookUpClean DEF LookUp
    <2>5. CASE Probe(p)
      BY <1>1, <2>5, ProbeClean DEF Probe
    <2> QED
      BY <1>8, <2>1, <2>2, <2>3, <2>4, <2>5, InsertClean, UpdateClean DEF PamStep
  <1> QED
    BY <1>3, <1>4, <1>5, <1>6, <1>7, <1>8 DEF Next, Step, NssLookup, OnlyGo

\* Where one process logs users in and the NSS module does not purge, a user whom Azure
\* AD accepts is never refused because of what earlier logins, deaths and purges have
\* left, unless a commit has been torn.
THEOREM OnlyTornRefuses ==
    ASSUME OnlyGo
    PROVE  TornSpec => []RefusedOnlyIfTorn
  <1>1. TornInit => torn \/ CleanInv
    BY InitInv, NoneAssumption DEF TornInit, Init, CacheInit, PamInit, CleanInv, NoLeftovers, InsertsNew,
       NeverRefusedByLeftovers, Outcomes, AuthErrors
  <1>2. (torn \/ CleanInv) /\ [TornNext]_tornVars => (torn \/ CleanInv)'
    BY NextClean DEF TornNext, TornStep, tornVars
  <1>3. torn \/ CleanInv => RefusedOnlyIfTorn
    BY DEF CleanInv, RefusedOnlyIfTorn
  <1> QED
    BY <1>1, <1>2, <1>3, PTL DEF TornSpec
=============================================================================
