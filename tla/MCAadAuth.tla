----------------------------- MODULE MCAadAuth -----------------------------
(***************************************************************************)
(* Instances of AadAuth for TLC.  One day stands for the 90 of the code's  *)
(* default expiration, uids are 5 .. 9 instead of 100000 .. 2^32 - 1.      *)
(***************************************************************************)
EXTENDS AadAuth, TLC

CONSTANTS s1, s2, p1, p2, p3, u1, u2

SameHash == [u \in Users |-> Offset]

DefaultConfig == {[exp |-> Unset, homedir |-> <<"text", "%f">>]}
ZeroConfig    == {[exp |-> 0, homedir |-> <<>>]}
\* The longest grace period the default purge respects; offline logins disabled, with a
\* home pattern that does not parse; and a period so long that both durations wrap, the
\* grace period to less than nothing.
ThreeConfigs  == {[exp |-> 2, homedir |-> <<"%u">>],
                  [exp |-> -1, homedir |-> <<"text", "%x">>],
                  [exp |-> 7, homedir |-> <<"%%", "%U">>]}

AllRoot  == [p \in Procs |-> shadowRWMode]
\* The other process belongs to group shadow only.
OneRoot  == [p \in Procs |-> IF p = s1 THEN shadowRWMode ELSE shadowROMode]

\* Processes that may do the same are alike, and so are users with one hash and
\* passwords bcrypt takes.
Alike == Permutations({s1, s2}) \cup Permutations({p1, p2}) \cup Permutations({u1, u2})
AlikePasswords == Permutations({p1, p2})

\* States that differ in how past logins ended are alike too: no step reads an outcome,
\* and that of a login under way is None.
NoOutcome == <<tables, now, pc, user, password, conf, uid, opened, lastUpdate, lapsed>>

\* The search for a free uid ends, whatever other processes insert and purge ahead of it:
\* among names of one hash a login tries one uid for each name and for each other process,
\* which may carry a name further on, and no more.
SearchIsShort ==
    \A p \in Procs : pc[p] = "probe" =>
        (uid[p] - UidHash[user[p]]) % (MaxUint32 + 1) < Cardinality(Users) + Cardinality(Procs) - 1
=============================================================================
