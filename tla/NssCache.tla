------------------------------ MODULE NssCache ------------------------------
(***************************************************************************)
(* The NSS module (nss/src): every lookup opens the cache, which purges it *)
(* when the process may write, and answers from the tables.  Names are     *)
(* already lower case: normalize_username maps them as NormalizeName does. *)
(***************************************************************************)
EXTENDS CacheDB, FiniteSets

\* expect_one_row, then cache_result_to_nss_status: more than one row is a
\* database error, none is NotFound.
Unavail    == [status |-> "unavail", entries |-> {}]
NotFound   == [status |-> "notfound", entries |-> {}]
Success(rows) == [status |-> "success", entries |-> rows]

expect_one_row(rows) ==
    IF Cardinality(rows) > 1 THEN Unavail
    ELSE IF rows = {} THEN NotFound ELSE Success(rows)

\* The columns of a row that libc is given.
cache_passwd_to_nss_passwd(rows) ==
    {[name |-> r.login, uid |-> r.uid, gid |-> r.gid] : r \in rows}

get_passwd_by_name(u) ==
    expect_one_row(cache_passwd_to_nss_passwd({r \in passwd : r.login = u}))

get_passwd_by_uid(id) ==
    expect_one_row(cache_passwd_to_nss_passwd({r \in passwd : r.uid = id}))

get_all_passwds == Success(cache_passwd_to_nss_passwd(passwd))

\* group_concat over the join of groups, uid_gid and passwd: a group without
\* a member in passwd is not found.
GroupMembers(g) ==
    {r.login : r \in {q \in passwd : <<q.uid, g.gid>> \in uid_gid}}

GroupEntries(gs) ==
    {e \in {[name |-> g.name, gid |-> g.gid, members |-> GroupMembers(g)] : g \in gs} :
        e.members # {}}

get_group_by_gid(id) == expect_one_row(GroupEntries({g \in groups : g.gid = id}))

get_group_by_name(u) == expect_one_row(GroupEntries({g \in groups : g.name = u}))

\* GROUP BY g.name: the names of groups are unique, so a row per group.
get_all_groups == Success(GroupEntries(groups))

\* The join of passwd and shadow; without the shadow file it is an error.
ShadowEntries(u) ==
    {[name |-> u, passwd |-> r.password] : r \in GetUserByName(shadowROMode, u)}

get_shadow_by_name(mode, u) ==
    IF mode < shadowROMode THEN Unavail ELSE expect_one_row(ShadowEntries(u))

get_all_shadows(mode) ==
    IF mode < shadowROMode THEN Unavail ELSE Success(UNION {ShadowEntries(u) : u \in Users})

-----------------------------------------------------------------------------
(* What libc is answered.                                                  *)

AADPasswd ==
    [get_all_entries   |-> get_all_passwds,
     get_entry_by_uid  |-> [id \in Uids |-> get_passwd_by_uid(id)],
     get_entry_by_name |-> [u \in Users |-> get_passwd_by_name(u)]]

AADGroup ==
    [get_all_entries   |-> get_all_groups,
     get_entry_by_gid  |-> [id \in Uids |-> get_group_by_gid(id)],
     get_entry_by_name |-> [u \in Users |-> get_group_by_name(u)]]

\* The password is replaced in an answer by name, so that pam_unix does not use it.
AADShadow(mode) ==
    [get_all_entries   |-> get_all_shadows(mode),
     get_entry_by_name |-> [u \in Users |->
        [get_shadow_by_name(mode, u) EXCEPT !.entries = {[e EXCEPT !.passwd = "*"] : e \in @}]]]

-----------------------------------------------------------------------------
(* The purge.                                                              *)

purge_time == now - PurgeMultiplier * DefaultExpiration

\* Mutant: shadow is purged one day before passwd.
cleanup_expired_entries_Early ==
    /\ shadow' = {s \in shadow : s.uid \notin StaleUids(purge_time + 1)}
    /\ passwd' = FreshUsers(purge_time)
    /\ groups' = {g \in groups : \E m \in uid_gid : m[2] = g.gid}
    /\ UNCHANGED uid_gid

\* cleanup_expired_entries: uid_gid keeps its rows, so the groups survive too.
\* The expiration is the constant of nss/src, whatever aad.conf says.
cleanup_expired_entries ==
    /\ shadow' = {s \in shadow : s.uid \notin StaleUids(purge_time)}
    /\ passwd' = FreshUsers(purge_time)
    /\ groups' = {g \in groups : \E m \in uid_gid : m[2] = g.gid}
    /\ UNCHANGED uid_gid

\* CacheDBBuilder::build in a process that may write both files (root).
NssOpen == cleanup_expired_entries /\ UNCHANGED now
=============================================================================
