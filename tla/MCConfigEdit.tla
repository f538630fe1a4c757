---------------------------- MODULE MCConfigEdit ----------------------------
(***************************************************************************)
(* Instances of ConfigEdit for TLC: texts with one domain or none, with    *)
(* every way of being right or wrong.                                      *)
(***************************************************************************)
EXTENDS ConfigEdit, TLC

CONSTANTS e1, e2, i1, i2, i3, i4, d1

Keys(t, a, x) == [tenant_id |-> t, app_id |-> a, home |-> None,
                  offline_credentials_expiration |-> x]

Full == Keys("t", "a", "days")
Tenant == Keys("t", None, None)
App == Keys(None, "a", None)
Bad == Keys("t", "a", "bad")

\* The sections of a domain complete, repeat or spoil what the default section gives.
SomeTexts ==
    {Garbage}
    \cup [{DEFAULT} -> {Full, Tenant}]
    \cup {t \in [{DEFAULT, d1} -> {Full, Tenant, App, Bad}] :
             t[DEFAULT] \in {Full, Tenant} /\ t[d1] \in {Tenant, App, Bad}}

Alike == Permutations({e1, e2}) \cup Permutations({i1, i2, i3, i4})
=============================================================================
