---------------------------- MODULE TornCommit ----------------------------
(***************************************************************************)
(* AadAuth where a machine may stop in the middle of a commit.  passwd.db  *)
(* has a write-ahead log and shadow.db, attached to it, a rollback journal *)
(* (initDB), so SQLite commits a transaction on both file by file: when    *)
(* passwd.db's half is in its log and the power goes, shadow.db's half is  *)
(* rolled back by whoever opens it next.                                   *)
(***************************************************************************)
EXTENDS AadAuth

\* 2^63 ns are 106751 days: no purge reaches back to year 1, ZeroTime, and beyond.
ASSUME TornAssumption == MaxDuration <= 719162

VARIABLE torn       \* history: has a commit been torn

tornVars == <<vars, torn>>

TornInit == Init /\ torn = FALSE

\* The process that commits is gone, without an answer, and shadow.db as it was.
Dies(p) ==
    /\ Return(p, None)
    /\ opened' = [opened EXCEPT ![p] = {}]
    /\ UNCHANGED <<shadow, lastUpdate, now>>

TornPurge(p) ==
    /\ pc[p] \in {"new_online", "new_offline"} /\ Exp(p) \notin opened[p]
    /\ Mode(p) = shadowRWMode /\ Exp(p) # 0
    /\ CleanUpPasswd(PurgeDays(Exp(p)))
    /\ Dies(p)

TornInsert(p) ==
    /\ pc[p] = "insert" /\ Mode(p) = shadowRWMode
    /\ InsertAllowed(user[p], uid[p])
    /\ InsertPasswd(user[p], uid[p])
    /\ Dies(p)

TornUpdate(p) ==
    /\ pc[p] = "update" /\ Mode(p) = shadowRWMode
    /\ password[p] \notin TooLong
    /\ UpdatePasswd(uid[p])
    /\ Dies(p)

TornCliPurge ==
    /\ "cli" \in Actors
    /\ CleanUpPasswd(PurgeDays(DefaultExpiration))
    /\ UNCHANGED <<shadow, now, pamVars>>

TornStep ==
    /\ TornCliPurge \/ \E p \in Procs : TornPurge(p) \/ TornInsert(p) \/ TornUpdate(p)
    /\ lapsed' = (lapsed \/ Stranded')
    /\ torn' = TRUE

TornNext == (Next /\ UNCHANGED torn) \/ TornStep

TornSpec == TornInit /\ [][TornNext]_tornVars

-----------------------------------------------------------------------------
\* Whatever halves of transactions are lost, a password that is in the cache under a
\* user's uid is the one that user's own last login stored: a credential that a torn
\* purge has left in shadow.db never becomes that of the next user of the uid, nor does
\* an insertion that is half there give one.  Its day may be a later one.
CredentialIsOwn ==
    \A r \in passwd, s \in shadow :
        r.uid = s.uid /\ s.password # EmptyHash =>
            /\ lastUpdate[r.login] # None
            /\ lastUpdate[r.login][1] = s.password

\* An insertion that is half there keeps the user out, who is in passwd.db and cannot be
\* inserted again, but only until cleanUpDB runs: who opens the cache afresh, as root and
\* with an expiration other than 0, finds nobody who lacks a row.
OpeningHeals ==
    [][\A p \in Procs :
        /\ pc[p] \in {"new_online", "new_offline"} /\ UsingCache(p)'
        /\ Exp(p) \notin opened[p] /\ Mode(p) = shadowRWMode /\ Exp(p) # 0
        => EveryUserComplete']_tornVars

\* Without torn commits nobody is refused because of what earlier logins, deaths and
\* purges by the Go code have left.
RefusedOnlyIfTorn == torn \/ NeverRefusedByLeftovers
=============================================================================
