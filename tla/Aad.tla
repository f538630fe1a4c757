-------------------------------- MODULE Aad --------------------------------
(***************************************************************************)
(* AAD.Authenticate of internal/aad: what becomes of a reply of Azure AD.  *)
(* The MSAL library and the server are external: a reply is any of the     *)
(* outcomes the code tells apart.                                          *)
(***************************************************************************)
EXTENDS Naturals, Sequences

CONSTANTS
    Codes,      \* error codes a server may send
    MaxCodes    \* bound: codes in one reply

invalidCredCode    == 50126
requiresMFACode    == 50076
noSuchUserCode     == 50034
noConsentCode      == 65001
noClientSecretCode == 7000218

ASSUME AadCodes == Codes \subseteq Nat /\ MaxCodes \in Nat

\* How a request can end: no client for the authority, an error that is not the
\* server's, a token, a reply whose body cannot be read, that is not JSON, or that
\* has error codes.
Kinds == {"noclient", "error", "token", "unreadable", "notjson", "codes"}

CodeSeqs == UNION {[1 .. n -> Codes] : n \in 0 .. MaxCodes}

Replies == [kind : Kinds \ {"codes"}, codes : {<<>>}] \cup [kind : {"codes"}, codes : CodeSeqs]

ErrDeny == "DENY"
ErrNoNetwork == "NO NETWORK"
Accepted == "nil"

VARIABLES
    pc,         \* the call Authenticate is about to make, or "done"
    reply,      \* how this request goes
    i,          \* the loop over the codes
    err         \* what Authenticate returns

vars == <<pc, reply, i, err>>

TypeOK ==
    /\ pc \in {"client", "acquire", "body", "scan", "done"}
    /\ reply \in Replies
    /\ i \in 1 .. (MaxCodes + 1)
    /\ err \in {Accepted, ErrDeny, ErrNoNetwork}

Init ==
    /\ pc = "client"
    /\ reply \in Replies
    /\ i = 1
    /\ err = ErrDeny

Return(e) == pc' = "done" /\ err' = e /\ UNCHANGED <<reply, i>>

Goto(l) == pc' = l /\ UNCHANGED <<reply, i, err>>

NewPublicClient ==
    /\ pc = "client"
    /\ IF reply.kind = "noclient" THEN Return(ErrNoNetwork) ELSE Goto("acquire")

\* Mutant: any failure without codes of the server's own is taken for a lost network.
AcquireToken_NoNetwork ==
    /\ pc = "acquire"
    /\ \/ reply.kind = "token" /\ Return(Accepted)
       \/ reply.kind \in {"error", "unreadable", "notjson"} /\ Return(ErrNoNetwork)
       \/ reply.kind = "codes" /\ Goto("body")

\* errors.As: only a CallErr is a reply of the server.
AcquireToken ==
    /\ pc = "acquire"
    /\ \/ reply.kind = "token" /\ Return(Accepted)
       \/ reply.kind = "error" /\ Return(ErrNoNetwork)
       \/ reply.kind \notin {"token", "error"} /\ Goto("body")

ReadBody ==
    /\ pc = "body"
    /\ IF reply.kind = "codes" THEN Goto("scan") ELSE Return(ErrDeny)

Denials == {invalidCredCode, noSuchUserCode, noConsentCode, noClientSecretCode}

\* One round of the loop: the first code it knows decides; without one it denies.
ScanCode ==
    /\ pc = "scan"
    /\ \/ i > Len(reply.codes) /\ Return(ErrDeny)
       \/ /\ i <= Len(reply.codes)
          /\ \/ reply.codes[i] \in Denials /\ Return(ErrDeny)
             \/ reply.codes[i] = requiresMFACode /\ Return(Accepted)
             \/ /\ reply.codes[i] \notin Denials \cup {requiresMFACode}
                /\ i' = i + 1
                /\ UNCHANGED <<pc, reply, err>>

Next == NewPublicClient \/ AcquireToken \/ ReadBody \/ ScanCode

Spec == Init /\ [][Next]_vars

-----------------------------------------------------------------------------

\* Authenticate accepts a token, or a demand for a second factor that no refusal
\* precedes; a login goes offline only when the server has not answered; everything
\* else is denied.
VerdictIsRight ==
    pc = "done" =>
        /\ err = Accepted <=>
              \/ reply.kind = "token"
              \/ \E j \in 1 .. Len(reply.codes) :
                    /\ reply.codes[j] = requiresMFACode
                    /\ \A k \in 1 .. (j - 1) : reply.codes[k] \notin Denials
        /\ err = ErrNoNetwork <=> reply.kind \in {"noclient", "error"}
=============================================================================
