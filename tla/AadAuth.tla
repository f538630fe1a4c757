------------------------------ MODULE AadAuth ------------------------------
(***************************************************************************)
(* The system: PAM logins in several processes, NSS lookups by root and    *)
(* aad-cli, all on one cache, none aware of the others.                    *)
(***************************************************************************)
EXTENDS PamLogin, NssCache

CONSTANTS
    Actors,     \* which of "nss" and "cli" run beside the logins
    MayCrash,   \* may a process die during a login
    MaxDay      \* bound: the last day of the clock

ASSUME AadAssumption ==
    /\ Actors \subseteq {"nss", "cli"}
    /\ MayCrash \in BOOLEAN
    /\ MaxDay \in Nat

VARIABLE lapsed     \* history: has a login lost the row it was to update

vars == <<tables, now, pamVars, lapsed>>

Init == CacheInit /\ PamInit /\ lapsed = FALSE

\* aad-cli run by root: cache.New with no option, so the default expiration.
CliOpen ==
    /\ "cli" \in Actors
    /\ PurgeOnOpen(shadowRWMode, DefaultExpiration)
    /\ UNCHANGED <<pamVars, now>>

NssLookup ==
    /\ "nss" \in Actors
    /\ NssOpen
    /\ UNCHANGED pamVars

Tick ==
    /\ now < MaxDay
    /\ now' = now + 1
    /\ UNCHANGED <<tables, pamVars>>

Step ==
    \/ \E p \in Procs :
        \/ \E u \in Users, pw \in Passwords, c \in Configs : Start(p, u, pw, c)
        \/ StartFails(p)
        \/ PamStep(p)
        \/ PamFailure(p)
        \/ \E e \in opened[p] : Teardown(p, e)
        \/ MayCrash /\ Crash(p)
    \/ CliOpen
    \/ NssLookup
    \/ Tick

\* The row of a login has been purged before its last transaction: the row of a
\* first login is as old as can be until then.
Stranded ==
    \E p \in Procs : pc[p] = "update" /\ ~HasRow(p)

Next == Step /\ lapsed' = (lapsed \/ Stranded')

Spec == Init /\ [][Next]_vars

-----------------------------------------------------------------------------
(* Invariants of the tables.                                               *)

TypeOK == CacheTypeOK /\ PamTypeOK /\ lapsed \in BOOLEAN

\* What the UNIQUE columns of db/passwd.sql and db/shadow.sql promise, and one
\* thing they do not: a name or an id of passwd and groups is never shared by
\* two people, leftovers of purged users included.
OneIdPerName ==
    /\ \A r, q \in passwd : r.login = q.login \/ r.uid = q.uid => r = q
    /\ \A g, h \in groups : g.name = h.name \/ g.gid = h.gid => g = h
    /\ \A s, t \in shadow : s.uid = t.uid => s = t
    /\ \A id \in Uids : \A m, n \in IdHolders(id) : m = n

\* A user of the passwd table has everything insertUser creates: whatever
\* purges and logins are interleaved, no row of a user goes without the others.
EveryUserComplete ==
    \A r \in passwd :
        /\ r.gid = r.uid
        /\ [name |-> r.login, gid |-> r.uid] \in groups
        /\ <<r.uid, r.uid>> \in uid_gid
        /\ \E s \in shadow : s.uid = r.uid

\* No credential outlives its user: the key of a shadow row that a purge leaves
\* behind would refuse the next user who gets the uid.
ShadowHasUser == \A s \in shadow : \E r \in passwd : r.uid = s.uid

\* What getent and id rely on: an entry found by name is found again by its
\* uid, its group exists under its gid and name, and lists it alone; an
\* enumeration of a database gives what lookups by name give.
NssAnswersAgree ==
    LET pw == AADPasswd
        gr == AADGroup
        sp == AADShadow(shadowROMode)
        Found(database) == UNION {database.get_entry_by_name[u].entries : u \in Users}
    IN  /\ \A u \in Users :
              LET byName == pw.get_entry_by_name[u]
              IN  /\ byName.status # "unavail"
                  /\ \A r \in byName.entries :
                        /\ pw.get_entry_by_uid[r.uid] = byName
                        /\ gr.get_entry_by_gid[r.gid] = gr.get_entry_by_name[u]
                        /\ gr.get_entry_by_name[u] =
                              Success({[name |-> u, gid |-> r.gid, members |-> {u}]})
                        /\ sp.get_entry_by_name[u] =
                              Success({[name |-> u, passwd |-> "*"]})
        /\ pw.get_all_entries.entries = Found(pw)
        /\ gr.get_all_entries.entries = Found(gr)
        /\ {e.name : e \in sp.get_all_entries.entries} = {e.name : e \in Found(sp)}

-----------------------------------------------------------------------------
(* What the cache is for.                                                  *)

\* A cached credential is the one its owner's own last online login wrote, with the
\* day of that login, whatever logins and purges do to a uid that two names hash to.
\* It needs that no login has lost its row: its UPDATE, which selects by uid, may hit
\* who has got the uid since.
CachedCredentialIsOwn ==
    \A r \in passwd, s \in shadow :
        r.uid = s.uid /\ s.password # EmptyHash /\ ~lapsed
            => lastUpdate[r.login] = <<s.password, r.last_online_auth>>

\* A login without network succeeds only with the password of the user's own
\* last online login, when offline logins are allowed and that login is recent
\* enough for the configuration in force.  It is checked for one name, whose login
\* may lose its row to a purge and find it again; where two names have one hash, the
\* UPDATE of a login that has lost its row gives its password to the other name.
OfflineNeedsOnline ==
    [][\A p \in Procs :
        outcome'[p] = "ok_offline" /\ outcome[p] # "ok_offline" =>
            /\ Exp(p) >= 0
            /\ lastUpdate[user[p]] # None
            /\ lastUpdate[user[p]][1] = encryptPassword(password[p])
            /\ Exp(p) > 0 => now <= lastUpdate[user[p]][2] + Exp(p)]_vars

\* CanAuthenticate turns a login away, other than for what aad.conf or the rights of
\* the process forbid.
TurnedAway(p) ==
    pc[p] = "can_auth" /\ pc'[p] = "idle" /\ outcome'[p] \in {"noent", "mismatch", "expired"}

\* The login has no title to be let in: no online login of the user is stored, it was
\* with another password, or it is too old for the configuration in force.
Untitled(p) ==
    \/ lastUpdate[user[p]] = None
    \/ lastUpdate[user[p]][1] # encryptPassword(password[p])
    \/ Exp(p) > 0 /\ now > lastUpdate[user[p]][2] + Duration(Exp(p))

\* Once an online login has been stored, the user is let in without network for as long
\* as the configuration in force says: no purge of another process or configuration, no
\* later login that fails or dies half-way and no reused cache takes that away.
OnlineEntitles == [][\A p \in Procs : TurnedAway(p) => Untitled(p)]_vars

\* What disappears from passwd, once its user has logged in online, has expired under
\* the configuration c.
PurgeSpares(c) ==
    \A r \in passwd :
        r.last_online_auth # ZeroTime /\ (\A q \in passwd' : q.login # r.login) =>
            Expired(OfflineExpiration(c), r)

\* A purge never takes away a user who has logged in online and could still
\* log in offline under a configuration in use.
PurgesOnlyExpired ==
    [][\A c \in Configs : OfflineExpiration(c) >= 0 => PurgeSpares(c)]_vars

\* A user Azure AD has accepted is never turned away because of rows the cache
\* still holds of that very user.
NeverRefusedByLeftovers ==
    \A p \in Procs : outcome[p] \notin {"exists", "constraint"}

\* Who has signed in online has its credential in the cache, to sign in offline with:
\* what README.md promises of every login that Azure AD accepts.
SuccessIsCached ==
    [][\A p \in Procs :
        outcome'[p] = "ok_online" /\ outcome[p] # "ok_online" =>
            \E r \in passwd', s \in shadow' :
                /\ r.login = user[p] /\ r.uid = s.uid
                /\ r.last_online_auth = now
                /\ s.password = encryptPassword(password[p])]_vars
=============================================================================
