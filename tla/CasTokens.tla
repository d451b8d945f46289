------------------------------ MODULE CasTokens ------------------------------
(***************************************************************************)
(* Token expiry: adaptTokenExpiry clamps the lifetime of access and id     *)
(* tokens to what is left of the client certificate the account logged in  *)
(* with; the other kinds keep the configured time to live.                 *)
(*                                                                         *)
(* The clock counts milliseconds, MsPerSec of them in a second, since      *)
(* certificates expire at a millisecond and oidc-provider stamps tokens    *)
(* with whole seconds.  A lifetime, a fraction of seconds in the code, is  *)
(* counted in milliseconds here.                                           *)
(***************************************************************************)
EXTENDS CasApi

CONSTANTS
    MsPerSec,       \* 1000 in the code
    Ttl             \* per kind of token: this.ttls, in seconds

Kinds == {"AccessToken", "IdToken", "RefreshToken"}

ASSUME TokensAssumption ==
    /\ MsPerSec \in Nat \ {0}
    /\ Ttl \in [Kinds -> Nat]
    \* a digest identifies its certificate
    /\ \A p, q \in Peers \ {<<>>} : p[1].sha = q[1].sha => p[1] = q[1]

VARIABLE token      \* the token issued last, wherever its holder keeps it

tokenVars == <<apiVars, token>>

NoToken == [kind |-> "none"]

TokenTypeOK ==
    \/ token = NoToken
    \/ /\ token.kind \in Kinds
       /\ token.account \in Accounts
       /\ token.iat \in Nat
       /\ token.exp \in Nat
       /\ token.exp >= token.iat

TokenInit == ApiInit /\ token = NoToken

Least(a, b) == IF a < b THEN a ELSE b
Greatest(a, b) == IF a > b THEN a ELSE b

\* db.getCert(sha).validityPeriod.notAfter
NotAfter(sha) ==
    LET p == CHOOSE p \in Peers \ {<<>>} : p[1].sha = sha
    IN  p[1].notAfter

\* A fault of AdaptTokenExpiry: no lower bound.
AdaptTokenExpiryNegative(sha, maxTime) ==
    IF sha \in certs THEN Least(NotAfter(sha) - now, maxTime) ELSE 0

\* minTimeSec is 0 in both of its uses.
AdaptTokenExpiry(sha, maxTime) ==
    IF sha \in certs
    THEN Greatest(Least(NotAfter(sha) - now, maxTime), 0)
    ELSE 0

ExpiresIn(kind, sha) ==
    IF kind \in {"AccessToken", "IdToken"}
    THEN AdaptTokenExpiry(sha, Ttl[kind] * MsPerSec)
    ELSE Ttl[kind] * MsPerSec

\* A fault of EpochTime: it rounds up.
EpochTimeUp == ((now + MsPerSec - 1) \div MsPerSec) * MsPerSec

\* epochTime() of oidc-provider.
EpochTime == (now \div MsPerSec) * MsPerSec

\* A code or a refresh token is exchanged at the token endpoint.
IssueToken(f, kind) ==
    /\ stage[f] = "granted"
    /\ token' = [kind |-> kind, account |-> account[f], iat |-> EpochTime,
                 exp |-> EpochTime + ExpiresIn(kind, account[f])]
    /\ UNCHANGED vars

\* Tokens that were handed out survive a restart.
TokenNext ==
    \/ ApiNext /\ UNCHANGED token
    \/ \E f \in Flows, kind \in Kinds :
          IssueToken(f, kind) /\ answer' = NoAnswer

TokenSpec == TokenInit /\ [][TokenNext]_tokenVars

-----------------------------------------------------------------------------

Alive(t) == now < t.exp

\* An access or id token never outlives the client certificate of its account,
\* whatever second its issue was rounded to and however long after the login
\* it was issued (adaptTokenExpiry).
ClampedTokensDieWithCert ==
    token # NoToken /\ token.kind # "RefreshToken" /\ Alive(token) =>
        now <= NotAfter(token.account)

\* A token is only ever issued for an account whose certificate was accepted.
TokenOwnerAccepted ==
    token # NoToken =>
        \E p \in Peers \ {<<>>} : p[1].sha = token.account /\ WasAccepted(p)

\* "No token will be issued that spans the lifetime of the associated client
\* certificate."
TokensDieWithCert ==
    token # NoToken /\ Alive(token) => now <= NotAfter(token.account)

=============================================================================
