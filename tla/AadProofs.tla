----------------------------- MODULE AadProofs -----------------------------
(***************************************************************************)
(* The verdict on a reply of Azure AD, for any codes and any number of     *)
(* them.                                                                   *)
(***************************************************************************)
EXTENDS Aad, TLAPS

Known == Denials \cup {requiresMFACode}

\* The loop has passed unknown codes only, and each stage is reached by the replies
\* the stages before let through.
VerdictInv ==
    /\ reply \in Replies
    /\ i \in Nat \ {0}
    /\ pc \in {"client", "acquire", "body", "scan", "done"}
    /\ pc = "acquire" => reply.kind # "noclient"
    /\ pc = "body" => reply.kind \in {"unreadable", "notjson", "codes"}
    /\ pc = "scan" => reply.kind = "codes"
    /\ i <= Len(reply.codes) + 1
    /\ \A k \in 1 .. (i - 1) : reply.codes[k] \notin Known
    /\ VerdictIsRight

\* Only a reply of kind codes has codes.
LEMMA RepliesHaveCodes ==
    ASSUME NEW r \in Replies
    PROVE  /\ Len(r.codes) \in Nat
           /\ r.kind \in Kinds
           /\ r.kind # "codes" => Len(r.codes) = 0
<1>1. CASE r \in [kind : Kinds \ {"codes"}, codes : {<<>>}]
    BY <1>1
<1>2. CASE r \in [kind : {"codes"}, codes : CodeSeqs]
    <2>1. PICK n \in 0 .. MaxCodes : r.codes \in [1 .. n -> Codes]
        BY <1>2 DEF CodeSeqs
    <2>2. r.codes \in Seq(Codes) /\ Len(r.codes) = n
        BY <2>1, AadCodes
    <2>. QED  BY <1>2, <2>2 DEF Kinds
<1>. QED  BY <1>1, <1>2 DEF Replies

\* So the others have no index.
LEMMA NoneInEmpty ==
    ASSUME NEW r \in Replies, r.kind # "codes", NEW j \in 1 .. Len(r.codes)
    PROVE  FALSE
<1>1. Len(r.codes) = 0
    BY RepliesHaveCodes
<1>. QED  BY <1>1

\* Before the reply nothing is decided.
LEMMA VerdictInit == Init => VerdictInv
<1>. SUFFICES ASSUME Init PROVE VerdictInv  OBVIOUS
<1>1. reply \in Replies /\ i = 1 /\ pc = "client"
    BY DEF Init
<1>. QED  BY <1>1, RepliesHaveCodes DEF VerdictInv, VerdictIsRight

\* Only the loop returns a verdict on codes: on the first one it knows.
LEMMA MfaIsNoDenial == requiresMFACode \notin Denials
BY DEF Denials, requiresMFACode, invalidCredCode, noSuchUserCode, noConsentCode, noClientSecretCode

\* Only the loop returns a verdict on codes: on the first one it knows.
LEMMA ScanStep ==
    ASSUME VerdictInv, ScanCode
    PROVE  VerdictInv'
<1>. DEFINE n == Len(reply.codes)
<1>0. n \in Nat /\ i \in Nat \ {0} /\ i <= n + 1 /\ reply.kind = "codes" /\ pc = "scan"
    BY RepliesHaveCodes DEF VerdictInv, ScanCode
<1>1. \A k \in 1 .. (i - 1) : reply.codes[k] \notin Known
    BY DEF VerdictInv
<1>2. CASE i > n /\ Return(ErrDeny)
    <2>1. \A j \in 1 .. n : reply.codes[j] # requiresMFACode
        BY <1>0, <1>1, <1>2 DEF Known
    <2>. QED  BY <1>0, <1>2, <2>1
              DEF VerdictInv, VerdictIsRight, Return, ErrDeny, Accepted, ErrNoNetwork
<1>3. CASE i <= n /\ reply.codes[i] \in Denials /\ Return(ErrDeny)
    <2>1. ASSUME NEW j \in 1 .. n, reply.codes[j] = requiresMFACode
          PROVE  i \in 1 .. (j - 1)
        <3>1. j # i
            BY <1>3, <2>1, MfaIsNoDenial
        <3>. QED  BY <1>0, <1>1, <2>1, <3>1 DEF Known
    <2>. QED  BY <1>0, <1>3, <2>1
              DEF VerdictInv, VerdictIsRight, Return, ErrDeny, Accepted, ErrNoNetwork
<1>4. CASE i <= n /\ reply.codes[i] = requiresMFACode /\ Return(Accepted)
    <2>1. i \in 1 .. n /\ \A k \in 1 .. (i - 1) : reply.codes[k] \notin Denials
        BY <1>0, <1>1, <1>4 DEF Known
    <2>. QED  BY <1>0, <1>4, <2>1
              DEF VerdictInv, VerdictIsRight, Return, ErrDeny, Accepted, ErrNoNetwork
<1>5. CASE i <= n /\ reply.codes[i] \notin Known /\ i' = i + 1 /\ UNCHANGED <<pc, reply, err>>
    <2>1. \A k \in 1 .. (i' - 1) : reply.codes[k] \notin Known
        BY <1>0, <1>1, <1>5
    <2>. QED  BY <1>0, <1>5, <2>1 DEF VerdictInv, VerdictIsRight
<1>. QED  BY <1>0, <1>2, <1>3, <1>4, <1>5 DEF ScanCode, Known

\* No step decides wrongly.
LEMMA VerdictStep ==
    ASSUME VerdictInv, [Next]_vars
    PROVE  VerdictInv'
<1>. USE DEF VerdictInv, VerdictIsRight, ErrDeny, Accepted, ErrNoNetwork
<1>0. reply.kind \in Kinds
    BY RepliesHaveCodes
<1>1. reply.kind # "codes" => \A j \in 1 .. Len(reply.codes) : FALSE
    BY RepliesHaveCodes, NoneInEmpty
<1>2. CASE UNCHANGED vars
    BY <1>2 DEF vars
<1>3. ASSUME NEW l \in {"acquire", "body", "scan"}, Goto(l),
             l = "acquire" => reply.kind # "noclient",
             l = "body" => reply.kind \in {"unreadable", "notjson", "codes"},
             l = "scan" => reply.kind = "codes"
      PROVE  VerdictInv'
    BY <1>3 DEF Goto
<1>4. ASSUME NEW e, Return(e), reply.kind # "codes",
             e = Accepted <=> reply.kind = "token",
             e = ErrNoNetwork <=> reply.kind \in {"noclient", "error"}
      PROVE  VerdictInv'
    BY <1>1, <1>4 DEF Return
<1>5. CASE NewPublicClient
    BY <1>0, <1>3, <1>4, <1>5 DEF NewPublicClient
<1>6. CASE AcquireToken
    BY <1>0, <1>3, <1>4, <1>6 DEF AcquireToken, Kinds
<1>7. CASE ReadBody
    BY <1>0, <1>3, <1>4, <1>7 DEF ReadBody
<1>. QED  BY <1>2, <1>5, <1>6, <1>7, ScanStep DEF Next

\* However many codes a reply has, known or not: a login is accepted, denied or sent
\* to the cache exactly when it should be.
THEOREM AadVerdict == Spec => []VerdictIsRight
<1>1. VerdictInv => VerdictIsRight
    BY DEF VerdictInv
<1>. QED  BY <1>1, VerdictInit, VerdictStep, PTL DEF Spec
=============================================================================
