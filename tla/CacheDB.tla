------------------------------ MODULE CacheDB ------------------------------
(***************************************************************************)
(* The two SQLite files of the credential cache and the statements that    *)
(* internal/cache runs on them.  A table is a set of rows, a row keeps the *)
(* columns some guard or property reads (home, shell, gecos and the aging  *)
(* columns of shadow are left out).  A transaction is one step: SQLite     *)
(* serialises writers, and a transaction that cannot get its locks fails   *)
(* and rolls back (PamLogin!DbError).                                      *)
(*                                                                         *)
(* The unit of time is one day, counted from the Unix epoch.               *)
(***************************************************************************)
EXTENDS Integers

CONSTANTS
    Users,              \* normalised user names
    Passwords,          \* what a user may type
    TooLong,            \* the passwords bcrypt refuses: more than 72 bytes
    UidHash,            \* the uid a name hashes to, before collisions are resolved
    Offset,             \* 100000 in the code: the first uid given away
    MaxUint32,          \* 2^32 - 1 in the code
    DefaultExpiration,  \* 90 days in the code
    PurgeMultiplier,    \* 2 in the code
    MaxDuration         \* 2^63 ns in the code, here a whole number of days

ASSUME CacheAssumption ==
    /\ TooLong \subseteq Passwords
    /\ MaxUint32 \in Nat /\ Offset \in Nat /\ Offset < MaxUint32
    /\ UidHash \in [Users -> Offset .. (MaxUint32 - 1)]
    /\ DefaultExpiration \in Nat \ {0}
    /\ PurgeMultiplier \in Nat \ {0}
    /\ MaxDuration \in Nat \ {0}

VARIABLES
    passwd,     \* passwd.db, table passwd
    groups,     \* passwd.db, table groups
    uid_gid,    \* passwd.db, table uid_gid
    shadow,     \* shadow.db, table shadow
    now         \* the clock of the machine

tables == <<passwd, groups, uid_gid, shadow>>

-----------------------------------------------------------------------------
(* Values of the columns.                                                  *)

\* uint32: the width of a uid in generateUIDForUser.
Uids == 0 .. MaxUint32

\* The shadow password of a row that insertUser has just created.
EmptyHash == <<>>

\* bcrypt: the hash identifies the password, and is never the empty string.
encryptPassword(p) == <<p>>

\* CompareHashAndPassword: the empty string is too short to be a hash.
HashMatches(h, p) == h = <<p>>

Hashes == {EmptyHash} \cup {encryptPassword(p) : p \in Passwords}

\* time.Time{}.Unix(), the LastOnlineAuth of a UserRecord nobody has set.
ZeroTime == -719162

PasswdRows == [login : Users, uid : Uids, gid : Uids, last_online_auth : Int]
GroupRows  == [name : Users, gid : Uids]
ShadowRows == [uid : Uids, password : Hashes]

CacheTypeOK ==
    /\ passwd \subseteq PasswdRows
    /\ groups \subseteq GroupRows
    /\ uid_gid \subseteq Uids \X Uids
    /\ shadow \subseteq ShadowRows
    /\ now \in Nat

\* initDB has just created both files.
CacheInit ==
    /\ passwd = {} /\ groups = {} /\ uid_gid = {} /\ shadow = {}
    /\ now = 0

-----------------------------------------------------------------------------
(* Shadow modes and queries.                                               *)

shadowNotAvailableMode == 0
shadowROMode == 1
shadowRWMode == 2
ShadowModes == {shadowNotAvailableMode, shadowROMode, shadowRWMode}

\* The rows GetUserByName selects: joined with shadow when it is attached.
GetUserByName(mode, u) ==
    IF mode > shadowNotAvailableMode
    THEN {[uid |-> j[1].uid, last_online_auth |-> j[1].last_online_auth, password |-> j[2].password] :
             j \in {k \in passwd \X shadow : k[1].login = u /\ k[1].uid = k[2].uid}}
    ELSE {[uid |-> r.uid, last_online_auth |-> r.last_online_auth, password |-> EmptyHash] :
             r \in {q \in passwd : q.login = u}}

\* The names uidOrGidExists finds for an id.
IdHolders(id) ==
    {r.login : r \in {q \in passwd : q.uid = id}}
        \cup {g.name : g \in {q \in groups : q.gid = id}}

\* Mutant: every other uid is skipped.
NextUid_ByTwo(id) == (id + 2) % (MaxUint32 + 1)

\* uid++ on a uint32.
NextUid(id) == (id + 1) % (MaxUint32 + 1)

-----------------------------------------------------------------------------
(* Transactions.                                                           *)

\* Mutant: the tables of passwd.sql other than passwd have no key.
InsertAllowed_NoGroupKey(u, id) ==
    /\ \A r \in passwd : r.login # u /\ r.uid # id
    /\ \A s \in shadow : s.uid # id

\* Mutant: the table of shadow.sql has no key.
InsertAllowed_NoShadowKey(u, id) ==
    /\ \A r \in passwd : r.login # u /\ r.uid # id
    /\ \A g \in groups : g.name # u /\ g.gid # id
    /\ <<id, id>> \notin uid_gid

\* The UNIQUE and PRIMARY KEY constraints the four INSERTs of insertUser meet.
InsertAllowed(u, id) ==
    /\ \A r \in passwd : r.login # u /\ r.uid # id
    /\ \A s \in shadow : s.uid # id
    /\ \A g \in groups : g.name # u /\ g.gid # id
    /\ <<id, id>> \notin uid_gid

\* Mutant: the membership row is forgotten.
insertUser_NoPivot(u, id) ==
    /\ passwd' = passwd \cup {[login |-> u, uid |-> id, gid |-> id, last_online_auth |-> ZeroTime]}
    /\ shadow' = shadow \cup {[uid |-> id, password |-> EmptyHash]}
    /\ groups' = groups \cup {[name |-> u, gid |-> id]}
    /\ UNCHANGED uid_gid

\* Mutant: a new user counts as logged in.
InsertPasswd_Dated(u, id) ==
    /\ passwd' = passwd \cup {[login |-> u, uid |-> id, gid |-> id, last_online_auth |-> now]}
    /\ groups' = groups \cup {[name |-> u, gid |-> id]}
    /\ uid_gid' = uid_gid \cup {<<id, id>>}

\* The statements of insertUser on passwd.db; so for the other transactions below.
InsertPasswd(u, id) ==
    /\ passwd' = passwd \cup {[login |-> u, uid |-> id, gid |-> id, last_online_auth |-> ZeroTime]}
    /\ groups' = groups \cup {[name |-> u, gid |-> id]}
    /\ uid_gid' = uid_gid \cup {<<id, id>>}

insertUser(u, id) ==
    /\ InsertPasswd(u, id)
    /\ shadow' = shadow \cup {[uid |-> id, password |-> EmptyHash]}

UpdatePasswd(id) ==
    /\ passwd' = {IF r.uid = id THEN [r EXCEPT !.last_online_auth = now] ELSE r : r \in passwd}
    /\ UNCHANGED <<groups, uid_gid>>

\* Mutant: the password is stored as it was typed.
updateOnlineAuthAndPassword_ClearText(id, h) ==
    /\ UpdatePasswd(id)
    /\ shadow' = {IF s.uid = id THEN [s EXCEPT !.password = h[1]] ELSE s : s \in shadow}

\* Mutant: only the first password of a user is kept.
updateOnlineAuthAndPassword_FirstOnly(id, h) ==
    /\ UpdatePasswd(id)
    /\ shadow' = {IF s.uid = id /\ s.password = EmptyHash
                    THEN [s EXCEPT !.password = h] ELSE s : s \in shadow}

\* Mutant: the UPDATE of shadow has lost its WHERE.
updateOnlineAuthAndPassword_AllRows(id, h) ==
    /\ UpdatePasswd(id)
    /\ shadow' = {[s EXCEPT !.password = h] : s \in shadow}

\* Both UPDATEs select by uid, and neither looks at how many rows it changed.
updateOnlineAuthAndPassword(id, h) ==
    /\ UpdatePasswd(id)
    /\ shadow' = {IF s.uid = id THEN [s EXCEPT !.password = h] ELSE s : s \in shadow}

\* SELECT uid FROM passwd WHERE last_online_auth < purge time.
StaleUids(purge_time) == {r.uid : r \in {q \in passwd : q.last_online_auth < purge_time}}

FreshUsers(purge_time) == {r \in passwd : ~(r.last_online_auth < purge_time)}

CleanUpPasswd(days) ==
    LET purge_time == now - days
    IN  /\ uid_gid' = {m \in uid_gid : m[1] \notin StaleUids(purge_time)}
        /\ passwd' = FreshUsers(purge_time)
        /\ groups' = {g \in groups : \E m \in uid_gid' : m[2] = g.gid}

\* Mutant: shadow is not purged.
cleanUpDB_KeepShadow(days) == CleanUpPasswd(days) /\ UNCHANGED shadow

\* Mutant: uid_gid is not purged.
cleanUpDB_KeepPivot(days) ==
    LET purge_time == now - days
    IN  /\ shadow' = {s \in shadow : s.uid \notin StaleUids(purge_time)}
        /\ passwd' = FreshUsers(purge_time)
        /\ groups' = {g \in groups : \E m \in uid_gid : m[2] = g.gid}
        /\ UNCHANGED uid_gid

cleanUpDB(days) ==
    /\ CleanUpPasswd(days)
    /\ shadow' = {s \in shadow : s.uid \notin StaleUids(now - days)}

\* time.Duration(uint64(days) * 24 * uint64(time.Hour)), which wraps in 64 bits.
Duration(days) == ((days + MaxDuration) % (2 * MaxDuration)) - MaxDuration

\* Mutant: entries are purged as soon as they expire.
PurgeDays_NoMultiplier(exp) == IF exp < 0 THEN DefaultExpiration ELSE exp

\* What cache.New does with its expiration: a negative one still purges, by
\* the default; zero never does.
PurgeDays(exp) ==
    Duration(PurgeMultiplier * (IF exp < 0 THEN DefaultExpiration ELSE exp))

PurgeOnOpen(mode, exp) ==
    IF mode = shadowRWMode /\ exp # 0
    THEN cleanUpDB(PurgeDays(exp))
    ELSE UNCHANGED tables

-----------------------------------------------------------------------------
(* CanAuthenticate's two checks on a row it has read.                      *)

\* Mutant: the last day of the period is refused.
Expired_Early(exp, row) == exp > 0 /\ now >= row.last_online_auth + Duration(exp)

Expired(exp, row) == exp > 0 /\ now > row.last_online_auth + Duration(exp)
=============================================================================
