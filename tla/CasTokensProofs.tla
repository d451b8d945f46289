-------------------------- MODULE CasTokensProofs --------------------------
(***************************************************************************)
(* The safety of the API endpoints and of token expiry, for every set of   *)
(* clients, every time to live and every length of a second.  Nothing here *)
(* depends on fairness.                                                    *)
(***************************************************************************)
EXTENDS CasTokens, CasInteractionsProofs

\* Until the certificate of its account runs out or the second it was issued
\* in, whichever is later, is all an access or id token lives.  Unlike
\* ClampedTokensDieWithCert this also says of a dead token why it is dead, so
\* that time cannot take it back.
TokenLifetime ==
    token # NoToken /\ token.kind # "RefreshToken" =>
        token.exp <= NotAfter(token.account) \/ token.exp <= now

\* The inductive invariant of the whole: that of the interaction endpoints, what
\* was answered last, and the token issued last.
TInv == /\ TypeOK
        /\ IInv
        /\ ApiTypeOK
        /\ AnswersAccepted
        /\ RefusalFresh
        /\ ListedAccepted
        /\ TokenTypeOK
        /\ TokenOwnerAccepted
        /\ TokenLifetime

-----------------------------------------------------------------------------
\* All steps are steps of the interaction endpoints or checks of a socket.
LEMMA BaseSteps == ASSUME [TokenNext]_tokenVars PROVE BaseStep
<1>1. CASE UNCHANGED tokenVars
  BY <1>1 DEF tokenVars, apiVars, BaseStep
<1>2. CASE ApiNext
  BY <1>2 DEF ApiNext, Api, Auth, WhoAmI, List, Request, RequestFails,
              BaseStep, Checked
<1>3. ASSUME NEW f \in Flows, NEW kind \in Kinds, IssueToken(f, kind)
      PROVE  BaseStep
  BY <1>3 DEF IssueToken, BaseStep
<1> QED
  BY <1>1, <1>2, <1>3 DEF TokenNext

-----------------------------------------------------------------------------
\* Answers.

\* What an answer may say, after a step that gave it.
LEMMA RequestAnswers ==
    ASSUME TypeOK, TypeOK', IInv, IInv', NEW c \in Conns,
           NEW endpoint \in {"auth", "whoami", "list"},
           NEW cert \in Accounts, NEW list \in SUBSET certs,
           cert # NoAccount =>
               CasChain(c) # <<>> /\ cert = CasChain(c)[1].sha,
           Request(c, endpoint, cert, list)
    PROVE  ApiTypeOK' /\ AnswersAccepted' /\ RefusalFresh' /\ ListedAccepted'
<1>1. /\ now' = now /\ peer' = peer /\ certs' = certs
      /\ authorized' =
            [authorized EXCEPT ![c] = @ \/ VerifyChain(CasChain(c), now)]
  BY DEF Request, Verify
<1>2. NoAccount \in Accounts /\ certs \subseteq ClientShas
  BY DEF Accounts, TypeOK
<1>3. CASE authorized'[c]
  <2>1. answer' = [endpoint |-> endpoint, conn |-> c, status |-> 200,
                   cert |-> cert, list |-> list]
    BY <1>3 DEF Request, Respond
  <2>2. \E t \in 0 .. now' : Accepted(peer'[c], t)
    BY <1>3 DEF IInv, AuthorizedWasAccepted, WasAccepted
  <2>3. cert # NoAccount => cert = peer'[c][1].sha
    BY <1>1, CasChainFacts
  <2>4. ApiTypeOK'
    BY <1>2, <2>1 DEF ApiTypeOK
  <2>5. AnswersAccepted'
    BY <2>1, <2>2, <2>3 DEF AnswersAccepted, WasAccepted
  <2>6. RefusalFresh'
    BY <2>1 DEF RefusalFresh
  <2>7. ListedAccepted'
    BY <1>1, <2>1 DEF ListedAccepted, IInv, CertsAccepted, WasAccepted
  <2> QED
    BY <2>4, <2>5, <2>6, <2>7
<1>4. CASE ~authorized'[c]
  <2>1. answer' = [endpoint |-> endpoint, conn |-> c, status |-> 403,
                   cert |-> NoAccount, list |-> {}]
    BY <1>4 DEF Request, Respond
  <2>2. ~VerifyChain(CasChain(c), now)
    BY <1>1, <1>4 DEF TypeOK, ConnTypeOK
  <2>3. ApiTypeOK'
    BY <1>2, <2>1 DEF ApiTypeOK
  <2>4. AnswersAccepted' /\ ListedAccepted'
    BY <2>1 DEF AnswersAccepted, ListedAccepted
  <2>5. RefusalFresh'
    BY <1>1, <2>1, <2>2 DEF RefusalFresh, CasChain
  <2> QED
    BY <2>3, <2>4, <2>5
<1> QED
  BY <1>3, <1>4

\* Every answer is as it should be in the step that gives it.
LEMMA AnswerStep ==
    ASSUME TypeOK, TypeOK', IInv, IInv',
           ApiTypeOK, AnswersAccepted, RefusalFresh, ListedAccepted,
           [TokenNext]_tokenVars
    PROVE  ApiTypeOK' /\ AnswersAccepted' /\ RefusalFresh' /\ ListedAccepted'
<1> DEFINE Good == ApiTypeOK' /\ AnswersAccepted' /\ RefusalFresh'
                   /\ ListedAccepted'
<1>1. CASE UNCHANGED tokenVars
  <2>1. UNCHANGED <<now, peer, answer>>
    BY <1>1 DEF tokenVars, apiVars, vars, connVars, sockets
  <2> QED
    BY <2>1 DEF ApiTypeOK, AnswersAccepted, RefusalFresh, ListedAccepted,
                WasAccepted, CasChain
<1>2. CASE answer' = NoAnswer
  BY <1>2 DEF ApiTypeOK, AnswersAccepted, RefusalFresh, ListedAccepted
<1>3. NoAccount \in Accounts
  BY DEF Accounts
<1>4. ASSUME NEW c \in Conns, Auth(c) PROVE Good
  BY <1>3, <1>4, RequestAnswers DEF Auth
<1>5. ASSUME NEW c \in Conns, WhoAmI(c) PROVE Good
  <2>1. CASE CasChain(c) = <<>>
    BY <1>3, <1>5, <2>1, RequestAnswers DEF WhoAmI
  <2>2. CASE CasChain(c) # <<>>
    <3>1. CasChain(c)[1].sha \in Accounts
      BY <2>2, CasChainFacts DEF Accounts
    <3>2. Request(c, "whoami", CasChain(c)[1].sha, {})
      BY <1>5, <2>2 DEF WhoAmI
    <3> QED
      BY <2>2, <3>1, <3>2, RequestAnswers
  <2> QED
    BY <2>1, <2>2
<1>6. ASSUME NEW c \in Conns, List(c) PROVE Good
  BY <1>3, <1>6, RequestAnswers DEF List
<1>7. ASSUME NEW c \in Conns, RequestFails(c) PROVE Good
  <2>1. PICK endpoint \in {"auth", "whoami", "list"} :
            answer' = [endpoint |-> endpoint, conn |-> c, status |-> 500,
                       cert |-> NoAccount, list |-> {}]
    BY <1>7 DEF RequestFails, Respond
  <2> QED
    BY <1>3, <2>1 DEF ApiTypeOK, AnswersAccepted, RefusalFresh, ListedAccepted
<1> QED
  BY <1>1, <1>2, <1>4, <1>5, <1>6, <1>7 DEF TokenNext, ApiNext, Api

-----------------------------------------------------------------------------
\* Lifetimes.

\* A certificate of the store has one expiry, that of the client it is of.
LEMMA NotAfterFacts ==
    ASSUME NEW sha \in ClientShas
    PROVE  NotAfter(sha) \in Int
<1> DEFINE P == CHOOSE p \in Peers \ {<<>>} : p[1].sha = sha
<1>1. P \in Peers \ {<<>>}
  BY DEF ClientShas
<1>2. IsPeerChain(P)
  BY <1>1, PeersAssumption
<1>3. P \in Seq({P[i] : i \in DOMAIN P}) /\ P # <<>>
  BY <1>1, <1>2 DEF IsPeerChain
<1> HIDE DEF P
<1>4. 1 \in DOMAIN P
  BY <1>3
<1>5. P[1].notAfter \in Int
  BY <1>2, <1>4 DEF IsPeerChain, IsCert
<1> QED
  BY <1>5 DEF NotAfter, P

\* The last full second is not after now.
LEMMA WholeSeconds ==
    ASSUME NEW n \in Nat, NEW m \in Nat \ {0}
    PROVE  (n \div m) * m \in Nat /\ (n \div m) * m <= n
OBVIOUS

\* A clamped lifetime is one, and takes a token that is issued no later than now
\* not past the expiry of the certificate, if it takes it anywhere.
LEMMA ClampedLifetime ==
    ASSUME NEW sha \in certs, certs \subseteq ClientShas, now \in Nat,
           NEW maxTime \in Nat, NEW iat \in Nat, iat <= now
    PROVE  /\ AdaptTokenExpiry(sha, maxTime) \in Nat
           /\ \/ iat + AdaptTokenExpiry(sha, maxTime) <= NotAfter(sha)
              \/ iat + AdaptTokenExpiry(sha, maxTime) <= now
<1> DEFINE left == NotAfter(sha) - now
<1>1. NotAfter(sha) \in Int
  BY NotAfterFacts
<1>2. AdaptTokenExpiry(sha, maxTime) = Greatest(Least(left, maxTime), 0)
  BY DEF AdaptTokenExpiry
<1> QED
  BY <1>1, <1>2 DEF Greatest, Least

\* The step that issues a token.
LEMMA IssueStep ==
    ASSUME TypeOK, IInv, NEW f \in Flows, NEW kind \in Kinds,
           IssueToken(f, kind)
    PROVE  TokenTypeOK' /\ TokenOwnerAccepted' /\ TokenLifetime'
<1> DEFINE sha == account[f]
           life == ExpiresIn(kind, sha)
<1>1. /\ token' = [kind |-> kind, account |-> sha, iat |-> EpochTime,
                   exp |-> EpochTime + life]
      /\ now' = now
  BY DEF IssueToken, vars, connVars
<1>2. sha \in certs /\ certs \subseteq ClientShas /\ sha \in Accounts
  BY DEF IssueToken, IInv, AccountKnown, TypeOK, Accounts
<1>3. now \in Nat
  BY ConnectionAssumption DEF TypeOK, ConnTypeOK
<1>4. EpochTime \in Nat /\ EpochTime <= now
  BY <1>3, TokensAssumption, WholeSeconds DEF EpochTime
<1>5. Ttl[kind] * MsPerSec \in Nat
  BY TokensAssumption
<1>6. life \in Nat
  BY <1>2, <1>3, <1>4, <1>5, ClampedLifetime DEF ExpiresIn
<1>7. kind # "RefreshToken" => \/ EpochTime + life <= NotAfter(sha)
                               \/ EpochTime + life <= now
  BY <1>2, <1>3, <1>4, <1>5, ClampedLifetime DEF ExpiresIn, Kinds
<1>8. \E p \in Peers \ {<<>>} :
         p[1].sha = sha /\ \E t \in 0 .. now : Accepted(p, t)
  BY <1>2 DEF IInv, CertsAccepted, WasAccepted
<1> HIDE DEF sha, life
<1>9. /\ token'.kind = kind /\ token'.account = sha
      /\ token'.iat = EpochTime /\ token'.exp = EpochTime + life
  BY <1>1
<1>10. TokenTypeOK'
  <2>1. EpochTime + life \in Nat /\ EpochTime + life >= EpochTime
    BY <1>4, <1>6
  <2> QED
    BY <1>2, <1>4, <1>9, <2>1 DEF TokenTypeOK
<1>11. TokenOwnerAccepted'
  BY <1>1, <1>8, <1>9 DEF TokenOwnerAccepted, WasAccepted
<1>12. TokenLifetime'
  BY <1>1, <1>7, <1>9 DEF TokenLifetime, NotAfter
<1> QED
  BY <1>10, <1>11, <1>12

\* What is true of a token when it is issued stays so.
LEMMA TokenStep ==
    ASSUME TypeOK, TypeOK', IInv, TokenTypeOK, TokenOwnerAccepted,
           TokenLifetime, [TokenNext]_tokenVars
    PROVE  TokenTypeOK' /\ TokenOwnerAccepted' /\ TokenLifetime'
<1>1. CASE UNCHANGED token
  <2>1. /\ now \in Nat /\ now' \in Nat /\ now <= now'
        /\ \A p : (\E t \in 0 .. now : Accepted(p, t))
                     => (\E t \in 0 .. now' : Accepted(p, t))
    BY BaseSteps, AcceptedStays
  <2>2. TokenTypeOK'
    BY <1>1 DEF TokenTypeOK
  <2>3. TokenOwnerAccepted'
    BY <1>1, <2>1 DEF TokenOwnerAccepted, WasAccepted
  <2>4. TokenLifetime'
    <3>1. token # NoToken => token.exp \in Nat
      BY DEF TokenTypeOK
    <3> QED
      BY <1>1, <2>1, <3>1 DEF TokenLifetime, NotAfter
  <2> QED
    BY <2>2, <2>3, <2>4
<1>2. ASSUME NEW f \in Flows, NEW kind \in Kinds, IssueToken(f, kind)
      PROVE  TokenTypeOK' /\ TokenOwnerAccepted' /\ TokenLifetime'
  BY <1>2, IssueStep
<1> QED
  BY <1>1, <1>2 DEF TokenNext, tokenVars

-----------------------------------------------------------------------------

\* The invariant holds at the start, and every step keeps it.
LEMMA TInvariant == TokenSpec => []TInv
<1>1. TokenInit => TInv
  <2> SUFFICES ASSUME TokenInit PROVE TInv
    OBVIOUS
  <2>1. TypeOK /\ IInv
    BY TypeInit, IInvInit DEF TokenInit, ApiInit
  <2>2. answer = NoAnswer /\ token = NoToken
    BY DEF TokenInit, ApiInit
  <2> QED
    BY <2>1, <2>2 DEF TInv, ApiTypeOK, AnswersAccepted, RefusalFresh,
       ListedAccepted, TokenTypeOK, TokenOwnerAccepted, TokenLifetime
<1>2. TInv /\ [TokenNext]_tokenVars => TInv'
  <2> SUFFICES ASSUME TInv, [TokenNext]_tokenVars PROVE TInv'
    OBVIOUS
  <2>1. TypeOK' /\ IInv'
    BY BaseSteps, BaseInv DEF TInv
  <2>2. ApiTypeOK' /\ AnswersAccepted' /\ RefusalFresh' /\ ListedAccepted'
    BY <2>1, AnswerStep DEF TInv
  <2>3. TokenTypeOK' /\ TokenOwnerAccepted' /\ TokenLifetime'
    BY <2>1, TokenStep DEF TInv
  <2> QED
    BY <2>1, <2>2, <2>3 DEF TInv
<1> QED
  BY <1>1, <1>2, PTL DEF TokenSpec

\* Answers and tokens stay within their types.
THEOREM TypesCorrect == TokenSpec => [](ApiTypeOK /\ TokenTypeOK)
<1>1. TInv => ApiTypeOK /\ TokenTypeOK
  BY DEF TInv
<1> QED
  BY <1>1, TInvariant, PTL

\* Only a client whose own chain was accepted is told that it is authorized, and
\* whoami shows it its own certificate.
THEOREM AnswersAreForAccepted == TokenSpec => []AnswersAccepted
<1>1. TInv => AnswersAccepted
  BY DEF TInv
<1> QED
  BY <1>1, TInvariant, PTL

\* A refusal is given on a check of that very instant.
THEOREM RefusalsAreFresh == TokenSpec => []RefusalFresh
<1>1. TInv => RefusalFresh
  BY DEF TInv
<1> QED
  BY <1>1, TInvariant, PTL

\* The list endpoint shows certificates of accepted clients only.
THEOREM ListsAccepted == TokenSpec => []ListedAccepted
<1>1. TInv => ListedAccepted
  BY DEF TInv
<1> QED
  BY <1>1, TInvariant, PTL

\* An access or id token does not outlive the certificate of its account,
\* whatever the rounding to seconds.
THEOREM ClampedTokensDie == TokenSpec => []ClampedTokensDieWithCert
<1>1. TInv => ClampedTokensDieWithCert
  <2> SUFFICES ASSUME TInv, token # NoToken, token.kind # "RefreshToken",
                      now < token.exp
               PROVE  now <= NotAfter(token.account)
    BY DEF ClampedTokensDieWithCert, Alive
  <2>1. now \in Nat /\ token.exp \in Nat
    BY ConnectionAssumption DEF TInv, TypeOK, ConnTypeOK, TokenTypeOK
  <2>2. token.exp <= NotAfter(token.account)
    BY <2>1 DEF TInv, TokenLifetime
  <2>3. token.account \in ClientShas
    BY DEF TInv, TokenOwnerAccepted, ClientShas
  <2> QED
    BY <2>1, <2>2, <2>3, NotAfterFacts
<1> QED
  BY <1>1, TInvariant, PTL

\* Every token, a refresh token included, is that of an accepted client.
THEOREM OwnersAreAccepted == TokenSpec => []TokenOwnerAccepted
<1>1. TInv => TokenOwnerAccepted
  BY DEF TInv
<1> QED
  BY <1>1, TInvariant, PTL

\* From the handshake to the token: whoever a token names presented a trust
\* anchor that was in its validity at some instant up to now, and so did whoever
\* the API lists (IssueToken, and getAllCerts behind /api/list).
THEOREM TokensAreVouched ==
    TokenSpec => [](/\ token # NoToken => Vouched(token.account)
                    /\ \A sha \in certs : Vouched(sha))
<1>1. TInv => /\ token # NoToken => Vouched(token.account)
              /\ \A sha \in certs : Vouched(sha)
  BY OwnerIsVouched DEF TInv, TokenOwnerAccepted, IInv, CertsAccepted
<1> QED
  BY <1>1, TInvariant, PTL

\* The API and the tokens beside them leave the endpoints their contract: what
\* they do to sockets changes no flow (casCertChainVerifyHandler, CasApiHandler).
THEOREM SignOnBesideApi == TokenSpec => ImplementsSignOn
<1>1. TokenInit => Contract!Init /\ SavedShape
  BY ContractInit DEF TokenInit, ApiInit
<1>2. /\ TInv /\ TInv' /\ SavedShape /\ [TokenNext]_tokenVars
      => [Contract!Next]_(Contract!contractVars) /\ SavedShape'
  BY BaseSteps, ContractBaseStep DEF TInv
<1> QED
  BY <1>1, <1>2, TInvariant, PTL
     DEF TokenSpec, ImplementsSignOn, Contract!Spec

=============================================================================
