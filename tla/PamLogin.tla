------------------------------ MODULE PamLogin ------------------------------
(***************************************************************************)
(* pam_sm_authenticate: one login at a time in each process that loads the *)
(* PAM module, many processes on the one cache.  A step is one call that   *)
(* another process can be interleaved with: Azure AD's answer, opening the *)
(* cache, each query and each transaction.                                 *)
(***************************************************************************)
EXTENDS CacheDB, Sequences

CONSTANTS
    Procs,          \* processes that authenticate users
    ShadowModeOf,   \* what each process may do with shadow.db
    Configs,        \* the configurations aad.conf may hold: [exp, homedir]
    Unset,          \* exp when aad.conf has no offline_credentials_expiration
    None            \* the fields of a process that is not authenticating anyone

OfflineExpiration(c) == IF c.exp = Unset THEN DefaultExpiration ELSE c.exp

ASSUME PamAssumption ==
    /\ ShadowModeOf \in [Procs -> ShadowModes]
    /\ Unset \notin Int
    /\ None \notin Users /\ None \notin Passwords /\ None \notin Configs
    /\ Configs \subseteq [exp : Int \cup {Unset}, homedir : Seq(STRING)]

VARIABLES
    pc,         \* where the login of a process is
    user,       \* the normalised name
    password,   \* what the user typed
    conf,       \* the configuration config.Load returned
    uid,        \* the uid Update works with
    outcome,    \* how the last login of the process ended
    opened,     \* the expirations of the caches New keeps open in a process
    lastUpdate  \* history: the last <<hash, day>> a login wrote to its own user's row

session == <<pc, user, password, conf, uid, outcome>>
pamVars == <<session, opened, lastUpdate>>

\* In order: no login; waiting for Azure AD; calling cache.New after an accepted
\* login and without network; CanAuthenticate; Update's query, its search of a
\* uid, its insertion, its update.
Pcs == {"idle", "aad", "new_online", "new_offline", "can_auth",
        "get_user", "probe", "insert", "update"}

UsingCache(p) == pc[p] \in {"can_auth", "get_user", "probe", "insert", "update"}

\* What a login ends with, and the PAM code it becomes.
Successes == {"ok_online", "ok_offline"}
SystemErrors == {"config", "open"}
AuthErrors == {"denied", "shadow", "disabled", "noent", "expired", "mismatch",
               "exists", "homedir", "constraint", "encrypt", "io"}
Outcomes == Successes \cup SystemErrors \cup AuthErrors

\* None is neither an answer nor an update.
ASSUME NoneAssumption == None \notin Outcomes /\ None \notin Hashes \X Int

PamStatus(o) ==
    CASE o \in Successes    -> "PAM_SUCCESS"
      [] o \in SystemErrors -> "PAM_SYSTEM_ERR"
      [] o \in AuthErrors   -> "PAM_AUTH_ERR"

\* A process works for a user exactly while it is not idle.
PamTypeOK ==
    /\ pc \in [Procs -> Pcs]
    /\ user \in [Procs -> Users \cup {None}]
    /\ password \in [Procs -> Passwords \cup {None}]
    /\ conf \in [Procs -> Configs \cup {None}]
    /\ uid \in [Procs -> Uids]
    /\ outcome \in [Procs -> Outcomes \cup {None}]
    /\ opened \in [Procs -> SUBSET Int]
    /\ lastUpdate \in [Users -> {None} \cup (Hashes \X Int)]
    /\ \A p \in Procs : pc[p] # "idle" =>
          user[p] \in Users /\ password[p] \in Passwords /\ conf[p] \in Configs

PamInit ==
    /\ pc = [p \in Procs |-> "idle"]
    /\ user = [p \in Procs |-> None]
    /\ password = [p \in Procs |-> None]
    /\ conf = [p \in Procs |-> None]
    /\ uid = [p \in Procs |-> 0]
    /\ outcome = [p \in Procs |-> None]
    /\ opened = [p \in Procs |-> {}]
    /\ lastUpdate = [u \in Users |-> None]

-----------------------------------------------------------------------------
\* The login goes on at l, working with uid id.
Goto(p, l, id) ==
    /\ pc' = [pc EXCEPT ![p] = l]
    /\ uid' = [uid EXCEPT ![p] = id]
    /\ UNCHANGED <<user, password, conf, outcome>>

\* The login is over: the deferred Close, the return of PamStatus(o), and the
\* end of the locals.
Return(p, o) ==
    /\ pc' = [pc EXCEPT ![p] = "idle"]
    /\ uid' = [uid EXCEPT ![p] = 0]
    /\ user' = [user EXCEPT ![p] = None]
    /\ password' = [password EXCEPT ![p] = None]
    /\ conf' = [conf EXCEPT ![p] = None]
    /\ outcome' = [outcome EXCEPT ![p] = o]

Exp(p) == OfflineExpiration(conf[p])
Mode(p) == ShadowModeOf[p]
Rows(p) == GetUserByName(Mode(p), user[p])

\* pam_sm_authenticate up to config.Load.
Start(p, u, pw, c) ==
    /\ pc[p] = "idle"
    /\ pc' = [pc EXCEPT ![p] = "aad"]
    /\ user' = [user EXCEPT ![p] = u]
    /\ password' = [password EXCEPT ![p] = pw]
    /\ conf' = [conf EXCEPT ![p] = c]
    /\ outcome' = [outcome EXCEPT ![p] = None]
    /\ UNCHANGED <<uid, opened, lastUpdate, tables, now>>

\* No name, no password or no valid configuration: Azure AD is not asked.
StartFails(p) ==
    /\ pc[p] = "idle"
    /\ Return(p, "config")
    /\ UNCHANGED <<opened, lastUpdate, tables, now>>

\* aad.Authenticate: accepted, refused (or an error it does not know), or no
\* network.
AadAnswers(p) ==
    /\ pc[p] = "aad"
    /\ \/ Goto(p, "new_online", uid[p])
       \/ Goto(p, "new_offline", uid[p])
       \/ Return(p, "denied")
    /\ UNCHANGED <<opened, lastUpdate, tables, now>>

AfterNew(p) == Goto(p, IF pc[p] = "new_online" THEN "get_user" ELSE "can_auth", uid[p])

\* cache.New with the options of a cache this process has open: no purge.
NewReuses(p) ==
    /\ pc[p] \in {"new_online", "new_offline"}
    /\ Exp(p) \in opened[p]
    /\ AfterNew(p)
    /\ UNCHANGED <<opened, lastUpdate, tables, now>>

\* cache.New opens the files and purges them.
NewOpens(p) ==
    /\ pc[p] \in {"new_online", "new_offline"}
    /\ Exp(p) \notin opened[p]
    /\ PurgeOnOpen(Mode(p), Exp(p))
    /\ opened' = [opened EXCEPT ![p] = @ \cup {Exp(p)}]
    /\ AfterNew(p)
    /\ UNCHANGED <<lastUpdate, now>>

NewFails(p) ==
    /\ pc[p] \in {"new_online", "new_offline"}
    /\ Exp(p) \notin opened[p]
    /\ Return(p, "open")
    /\ UNCHANGED <<opened, lastUpdate, tables, now>>

\* Mutant: the grace period is not checked.
OfflineOutcome_NoExpiry(p, rows) ==
    IF Mode(p) < shadowROMode THEN "shadow"
    ELSE IF Exp(p) < 0 THEN "disabled"
    ELSE IF rows = {} THEN "noent"
    ELSE LET r == CHOOSE r \in rows : TRUE
         IN  IF ~HashMatches(r.password, password[p]) THEN "mismatch" ELSE "ok_offline"

\* CanAuthenticate's checks, in their order.
OfflineOutcome(p, rows) ==
    IF Mode(p) < shadowROMode THEN "shadow"
    ELSE IF Exp(p) < 0 THEN "disabled"
    ELSE IF rows = {} THEN "noent"
    ELSE LET r == CHOOSE r \in rows : TRUE
         IN  IF Expired(Exp(p), r) THEN "expired"
             ELSE IF ~HashMatches(r.password, password[p]) THEN "mismatch"
             ELSE "ok_offline"

CanAuthenticate(p) ==
    /\ pc[p] = "can_auth"
    /\ Return(p, OfflineOutcome(p, Rows(p)))
    /\ UNCHANGED <<opened, lastUpdate, tables, now>>

\* Update's GetUserByName, and the uid it goes on with.
LookUp(p) ==
    /\ pc[p] = "get_user"
    /\ \/ Rows(p) = {} /\ Goto(p, "probe", UidHash[user[p]])
       \/ \E r \in Rows(p) : Goto(p, "update", r.uid)
    /\ UNCHANGED <<opened, lastUpdate, tables, now>>

\* A pattern is the sequence of its modifiers, with every other text between them
\* one "text"; a single % at its end is dropped.  Is there a home?
parseHomeDir(pattern) ==
    \A i \in DOMAIN pattern : pattern[i] \in {"text", "%%", "%f", "%U", "%l", "%u", "%d"}

\* One round of generateUIDForUser's loop; parseHomeDir follows the last one.
Probe(p) ==
    /\ pc[p] = "probe"
    /\ \/ /\ IdHolders(uid[p]) = {}
          /\ IF parseHomeDir(conf[p].homedir) THEN Goto(p, "insert", uid[p]) ELSE Return(p, "homedir")
       \/ \E n \in IdHolders(uid[p]) :
            IF n = user[p] THEN Return(p, "exists") ELSE Goto(p, "probe", NextUid(uid[p]))
    /\ UNCHANGED <<opened, lastUpdate, tables, now>>

InsertUser(p) ==
    /\ pc[p] = "insert"
    /\ \/ /\ Mode(p) # shadowRWMode
          /\ Return(p, "shadow")
          /\ UNCHANGED tables
       \/ /\ Mode(p) = shadowRWMode
          /\ ~InsertAllowed(user[p], uid[p])
          /\ Return(p, "constraint")
          /\ UNCHANGED tables
       \/ /\ Mode(p) = shadowRWMode
          /\ InsertAllowed(user[p], uid[p])
          /\ insertUser(user[p], uid[p])
          /\ Goto(p, "update", uid[p])
    /\ UNCHANGED <<opened, lastUpdate, now>>

\* Is the row there that the login is to update?
HasRow(p) == \E r \in passwd : r.login = user[p] /\ r.uid = uid[p]

\* The rest of Update: encryptPassword and the transaction.
UpdateUser(p) ==
    /\ pc[p] = "update"
    /\ \/ /\ password[p] \in TooLong
          /\ Return(p, "encrypt")
          /\ UNCHANGED <<tables, lastUpdate>>
       \/ /\ password[p] \notin TooLong
          /\ Mode(p) # shadowRWMode
          /\ Return(p, "shadow")
          /\ UNCHANGED <<tables, lastUpdate>>
       \/ /\ password[p] \notin TooLong
          /\ Mode(p) = shadowRWMode
          /\ updateOnlineAuthAndPassword(uid[p], encryptPassword(password[p]))
          /\ lastUpdate' = IF HasRow(p)
                           THEN [lastUpdate EXCEPT ![user[p]] = <<encryptPassword(password[p]), now>>]
                           ELSE lastUpdate
          /\ Return(p, "ok_online")
    /\ UNCHANGED <<opened, now>>

\* A query or a transaction fails (busy, full disk, unreadable file): nothing
\* is written and the login is refused.
DbError(p) ==
    /\ UsingCache(p)
    /\ Return(p, "io")
    /\ UNCHANGED <<opened, lastUpdate, tables, now>>

\* The timer of Close fires on a cache no login of the process uses.
Teardown(p, e) ==
    /\ e \in opened[p]
    /\ ~(UsingCache(p) /\ Exp(p) = e)
    /\ opened' = [opened EXCEPT ![p] = @ \ {e}]
    /\ UNCHANGED <<session, lastUpdate, tables, now>>

\* The process dies; SQLite rolls back what it had not committed.
Crash(p) ==
    /\ pc[p] # "idle"
    /\ Return(p, None)
    /\ opened' = [opened EXCEPT ![p] = {}]
    /\ UNCHANGED <<lastUpdate, tables, now>>

\* The steps of a login that is under way, and the failures it may meet.
PamStep(p) ==
    \/ AadAnswers(p)
    \/ NewReuses(p) \/ NewOpens(p)
    \/ CanAuthenticate(p)
    \/ LookUp(p) \/ Probe(p) \/ InsertUser(p) \/ UpdateUser(p)

PamFailure(p) == NewFails(p) \/ DbError(p)
=============================================================================
