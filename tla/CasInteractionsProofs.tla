----------------------- MODULE CasInteractionsProofs -----------------------
(***************************************************************************)
(* The safety of the interaction endpoints, and that they implement        *)
(* SignOn, for every set of sockets, requests, flows and peers.            *)
(***************************************************************************)
EXTENDS CasInteractions, TLAPS, WellFoundedInduction

\* An open interaction is the one its flow waits for, and a closed one keeps
\* nothing.
OpenMatchesStage ==
    \A f \in Flows, prompt \in Prompts :
        IF interaction[<<f, prompt>>].open
        THEN stage[f] = prompt
        ELSE interaction[<<f, prompt>>] = NoInteraction

\* The consent prompt is opened with the login of its flow as the last
\* submission.
ConsentFollowsLogin ==
    \A f \in Flows :
        interaction[<<f, "consent">>].open =>
            /\ account[f] # NoAccount
            /\ interaction[<<f, "consent">>].lastSubmission.login = account[f]

\* What a handler is about to submit: a refusal, a login or a consent, the last
\* of which alone is merged, and on a consent prompt only.
SubmissionShape ==
    \A r \in Reqs :
        pc[r] = "finish" =>
            \/ sub[r] = [result |-> AccessDenied, merge |-> FALSE]
            \/ /\ sub[r].result = LoginResult(sub[r].result.login)
               /\ sub[r].result.login # NoAccount
               /\ ~sub[r].merge
               /\ PromptOf(ctx[r].uid) = "login"
            \/ /\ sub[r] = [result |-> ConsentResult, merge |-> TRUE]
               /\ PromptOf(ctx[r].uid) = "consent"

\* The inductive invariant: what the runs check, strengthened by the three
\* formulas above.
IInv == /\ OpenMatchesStage
        /\ ConsentFollowsLogin
        /\ SubmissionShape
        /\ AuthorizedWasAccepted
        /\ CertsAccepted
        /\ LoginIsOwn
        /\ AccountKnown
        /\ ConsentKeepsLogin
        /\ OneReply

-----------------------------------------------------------------------------

\* The state of the request slots, apart from the rest of TypeOK.
ReqTypeOK ==
    /\ pc \in [Reqs -> {"free", "done"} \cup InFlight]
    /\ ctx \in [Reqs -> Contexts \cup {None}]
    /\ sub \in [Reqs -> Submissions \cup {None}]
    /\ replies \in [Reqs -> Seq(Replies)]
    /\ \A r \in Reqs : pc[r] \in InFlight => ctx[r] # None
    /\ \A r \in Reqs : pc[r] = "finish" => sub[r] # None

OpTypeOK ==
    /\ interaction \in [Uids -> Interactions]
    /\ stage \in [Flows -> {"none", "login", "consent", "granted", "denied"}]
    /\ account \in [Flows -> Accounts]

\* TypeOK, seen as the types of its parts.
LEMMA TypeParts ==
    TypeOK <=> ConnTypeOK /\ ReqTypeOK /\ OpTypeOK /\ certs \subseteq ClientShas
BY DEF TypeOK, ReqTypeOK, OpTypeOK

\* The adaptation loop ends: the choice in Visited is that of an existing number.
\* (Otherwise the loop would go on from every number that it reaches.)
LEMMA VisitedThere ==
    ASSUME NEW p \in Peers
    PROVE  Visited(p) \in 0 .. Len(p)
<1> DEFINE R == OpToRel(<, Nat)
           Short == {n \in 0 .. Len(p) : ~DistinctSerials(p, n)}
           Ends(n) == DistinctSerials(p, n)
                      /\ (n < Len(p) => ~DistinctSerials(p, n + 1))
<1>1. Len(p) \in Nat
  BY PeersAssumption DEF IsPeerChain
<1>2. IsWellFoundedOn(R, Nat)
  BY NatLessThanWellFounded
<1>3. \A x, y \in Nat : y < x => <<y, x>> \in R
  BY DEF OpToRel
<1> HIDE DEF R
<1>4. CASE Short = {}
  <2>1. Ends(Len(p))
    BY <1>1, <1>4
  <2> QED
    BY <1>1, <2>1 DEF Visited
<1>5. CASE Short # {}
  <2>1. PICK m \in Short : \A k \in Short : ~(<<k, m>> \in R)
    <3>1. Short \subseteq Nat
      BY <1>1
    <3> HIDE DEF Short
    <3> QED
      BY <1>2, <1>5, <3>1, WFMin
  <2>2. m # 0
    BY DEF DistinctSerials
  <2>3. m - 1 \in 0 .. Len(p) /\ m - 1 < m /\ (m - 1) + 1 = m
    BY <1>1, <2>2
  <2>4. m - 1 \notin Short
    <3>1. m \in Nat /\ m - 1 \in Nat
      BY <2>3
    <3> HIDE DEF Short
    <3> QED
      BY <1>3, <2>1, <2>3, <3>1
  <2>5. Ends(m - 1)
    BY <2>3, <2>4
  <2> QED
    BY <2>3, <2>5 DEF Visited
<1> QED
  BY <1>4, <1>5

\* A client chain starts with the certificate that the peer presented as its own.
LEMMA OwnCertificate ==
    ASSUME NEW p \in Peers, ClientChain(p) # <<>>
    PROVE  p # <<>> /\ ClientChain(p)[1] = p[1]
<1> DEFINE n == Visited(p)
<1>1. /\ p \in Seq({p[i] : i \in DOMAIN p}) /\ Len(p) \in Nat
      /\ (p = <<>> <=> Len(p) = 0)
  BY PeersAssumption DEF IsPeerChain
<1>2. n \in 0 .. Len(p)
  BY VisitedThere
<1>3. ClientChain(p) = SubSeq(p, 1, n)
  BY DEF ClientChain
<1> HIDE DEF n
<1>4. n # 0
  <2> SUFFICES ASSUME n = 0 PROVE SubSeq(p, 1, n) = <<>>
    BY <1>3
  <2> QED
    BY <1>1
<1>5. SubSeq(p, 1, n)[1] = p[1]
  BY <1>1, <1>2, <1>4
<1> QED
  BY <1>1, <1>2, <1>3, <1>4, <1>5

\* The client certificate of a socket is the one it presented.
LEMMA CasChainFacts ==
    ASSUME TypeOK, NEW c \in Conns, CasChain(c) # <<>>
    PROVE  /\ peer[c] \in Peers \ {<<>>}
           /\ CasChain(c)[1].sha = peer[c][1].sha
           /\ peer[c][1].sha \in ClientShas
<1>1. peer[c] \in Peers
  BY DEF TypeOK, ConnTypeOK
<1>2. ClientChain(peer[c]) # <<>>
  BY DEF CasChain
<1>3. peer[c] # <<>> /\ ClientChain(peer[c])[1] = peer[c][1]
  BY <1>1, <1>2, OwnCertificate
<1> QED
  BY <1>1, <1>3 DEF CasChain, ClientShas

\* Whoever is accepted presented a trust anchor that was in its validity then,
\* behind or as its own certificate.
LEMMA AcceptedIsVouched ==
    ASSUME NEW p \in Peers, NEW t, Accepted(p, t)
    PROVE  /\ p # <<>>
           /\ \E i \in 1 .. Len(p) :
                 p[i].sha \in Anchors /\ CheckTimeValidity(p[i], t)
<1>1. /\ p \in Seq({p[i] : i \in DOMAIN p}) /\ Len(p) \in Nat
      /\ (p = <<>> <=> Len(p) = 0)
  BY PeersAssumption DEF IsPeerChain
<1>2. CASE TlsAuthorized(p, t)
  <2>1. Len(p) \in 1 .. Len(p)
    BY <1>1, <1>2 DEF TlsAuthorized
  <2> QED
    BY <1>1, <1>2, <2>1 DEF TlsAuthorized
<1>3. CASE VerifyChain(ClientChain(p), t)
  <2> DEFINE chain == ClientChain(p)
             n == Visited(p)
  <2>1. PICK k \in 1 .. Len(chain) - 1 : VerifiedLink(chain, k, t)
    BY <1>3 DEF VerifyChain
  <2>2. chain[k + 1].sha \in Anchors /\ CheckTimeValidity(chain[k + 1], t)
    BY <2>1 DEF VerifiedLink
  <2>3. n \in 0 .. Len(p)
    BY VisitedThere
  <2>4. chain = <<>> \/ chain = SubSeq(p, 1, n)
    BY DEF ClientChain
  <2> HIDE DEF chain, n
  <2>5. chain # <<>>
    BY <2>1
  <2>6. Len(chain) = n /\ \A i \in 1 .. n : chain[i] = p[i]
    BY <1>1, <2>3, <2>4, <2>5
  <2>7. k + 1 \in 1 .. n /\ k + 1 \in 1 .. Len(p) /\ p # <<>>
    BY <1>1, <2>1, <2>3, <2>6
  <2> QED
    BY <2>2, <2>6, <2>7
<1> QED
  BY <1>2, <1>3 DEF Accepted

\* What a request in flight refers to.
LEMMA ContextFacts ==
    ASSUME TypeOK, NEW r \in Reqs, pc[r] \in InFlight
    PROVE  /\ ctx[r] \in Contexts
           /\ ctx[r].conn \in Conns
           /\ ctx[r].uid \in Uids
           /\ PromptOf(ctx[r].uid) \in Prompts
           /\ Details(r) \in Interactions
<1>1. ctx[r] \in Contexts
  BY DEF TypeOK
<1>2. ctx[r].conn \in Conns /\ ctx[r].uid \in Uids
  BY <1>1 DEF Contexts
<1>3. PromptOf(ctx[r].uid) \in Prompts
  BY <1>2 DEF Uids, PromptOf
<1>4. Details(r) \in Interactions
  BY <1>2 DEF TypeOK, Details
<1> QED
  BY <1>1, <1>2, <1>3, <1>4

\* Results and interactions are what the handlers build them from.
LEMMA ResultTypes ==
    /\ NoResult \in Results
    /\ ConsentResult \in Results
    /\ AccessDenied \in Results
    /\ NoInteraction \in Interactions
    /\ \A sha \in Accounts : LoginResult(sha) \in Results
    /\ \A last \in Results :
          /\ OpenInteraction(last) \in Interactions
          /\ \A result \in Results : Overlay(last, result) \in Results
    /\ \A i \in Interactions : /\ i.result \in Results
                               /\ i.lastSubmission \in Results
                               /\ i.open \in BOOLEAN
<1>1. NoAccount \in Accounts
  BY DEF Accounts
<1>2. NoResult \in Results /\ ConsentResult \in Results /\ AccessDenied \in Results
  BY <1>1 DEF Results, NoResult, ConsentResult, AccessDenied
<1>3. NoInteraction \in Interactions
  BY <1>2 DEF NoInteraction, Interactions
<1>4. \A sha \in Accounts : LoginResult(sha) \in Results
  BY DEF LoginResult, Results
<1>5. \A last \in Results : OpenInteraction(last) \in Interactions
  BY <1>2 DEF OpenInteraction, Interactions
<1>6. \A last, result \in Results : Overlay(last, result) \in Results
  BY DEF Overlay, Results
<1>7. \A i \in Interactions : /\ i.result \in Results
                              /\ i.lastSubmission \in Results
                              /\ i.open \in BOOLEAN
  BY DEF Interactions
<1> QED
  BY <1>2, <1>3, <1>4, <1>5, <1>6, <1>7

\* The step that ends a request, for the type of its slot.
LEMMA ReplyType ==
    ASSUME TypeOK, NEW r \in Reqs, NEW what \in Replies, Reply(r, what)
    PROVE  ReqTypeOK'
<1> USE DEF TypeOK, Reply
<1>1. pc' \in [Reqs -> {"free", "done"} \cup InFlight]
  OBVIOUS
<1>2. ctx' \in [Reqs -> Contexts \cup {None}] /\ sub' \in [Reqs -> Submissions \cup {None}]
  OBVIOUS
<1>3. replies' \in [Reqs -> Seq(Replies)]
  <2>1. replies[r] \in Seq(Replies)
    OBVIOUS
  <2>2. Append(replies[r], what) \in Seq(Replies)
    BY <2>1
  <2> QED
    BY <2>2
<1>4. \A q \in Reqs : pc'[q] \in InFlight => ctx'[q] # None
  BY DEF InFlight
<1>5. \A q \in Reqs : pc'[q] = "finish" => sub'[q] # None
  OBVIOUS
<1> QED
  BY <1>1, <1>2, <1>3, <1>4, <1>5 DEF ReqTypeOK

\* The step that submits a result.
LEMMA SubmitType ==
    ASSUME TypeOK, NEW r \in Reqs, pc[r] = "handle",
           NEW result \in Results, NEW merge \in BOOLEAN,
           Submit(r, result, merge)
    PROVE  ReqTypeOK'
<1> USE DEF TypeOK, Submit
<1>1. [result |-> result, merge |-> merge] \in Submissions
  BY DEF Submissions
<1>2. [result |-> result, merge |-> merge] # None
  BY DEF None
<1>3. "handle" \in InFlight /\ "finish" \in InFlight
  BY DEF InFlight
<1> QED
  BY <1>1, <1>2, <1>3 DEF ReqTypeOK

\* What a request may do to its slot when it arrives.
LEMMA EnterType ==
    ASSUME TypeOK, NEW r \in Reqs, NEW c \in Conns, NEW uid \in Uids,
           NEW endpoint \in {"view", "login", "confirm", "continue", "abort"},
           NEW phase \in {"lookup", "finish"},
           Enter(r, c, uid, endpoint, phase),
           replies' = [replies EXCEPT ![r] = <<>>],
           \/ sub' = sub /\ phase = "lookup"
           \/ sub' = [sub EXCEPT ![r] =
                         [result |-> AccessDenied, merge |-> FALSE]]
    PROVE  /\ ReqTypeOK' /\ ConnTypeOK' /\ OpTypeOK'
           /\ certs' = certs
<1> USE DEF Enter
<1>1. ConnTypeOK' /\ OpTypeOK' /\ certs' = certs
  BY DEF Verify, TypeOK, ConnTypeOK, OpTypeOK, opVars
<1>2. [conn |-> c, uid |-> uid, endpoint |-> endpoint] \in Contexts
  BY DEF Contexts
<1>3. [conn |-> c, uid |-> uid, endpoint |-> endpoint] # None
  BY DEF None
<1>4. [result |-> AccessDenied, merge |-> FALSE] \in Submissions
  BY ResultTypes DEF Submissions
<1>5. [result |-> AccessDenied, merge |-> FALSE] # None
  BY DEF None
<1>6. <<>> \in Seq(Replies)
  OBVIOUS
<1>7. pc' = [pc EXCEPT ![r] = phase] /\ phase \in InFlight
  BY DEF InFlight
<1>8. ctx' = [ctx EXCEPT ![r] =
                 [conn |-> c, uid |-> uid, endpoint |-> endpoint]]
  OBVIOUS
<1>9. ReqTypeOK'
  BY <1>2, <1>3, <1>4, <1>5, <1>6, <1>7, <1>8 DEF TypeOK, ReqTypeOK
<1> QED
  BY <1>1, <1>9

\* The request that is answered in the step it arrives in.
LEMMA AnswerType ==
    ASSUME TypeOK, NEW r \in Reqs, NEW what \in Replies, Answer(r, what)
    PROVE  ReqTypeOK' /\ OpTypeOK' /\ certs' = certs
<1> USE DEF Answer
<1>1. OpTypeOK' /\ certs' = certs
  BY DEF TypeOK, OpTypeOK, opVars
<1>2. <<what>> \in Seq(Replies)
  OBVIOUS
<1>3. "done" \notin InFlight /\ "done" # "finish"
  BY DEF InFlight
<1>4. ReqTypeOK'
  BY <1>2, <1>3 DEF TypeOK, ReqTypeOK
<1> QED
  BY <1>1, <1>4

\* What finishInteraction stores.
LEMMA FinishedType ==
    ASSUME TypeOK, NEW r \in Reqs, pc[r] = "finish"
    PROVE  Finished(r) \in Results
<1>1. sub[r] \in Submissions
  BY DEF TypeOK
<1>2. sub[r].result \in Results
  BY <1>1 DEF Submissions
<1>3. Details(r).lastSubmission \in Results
  BY ContextFacts, ResultTypes DEF InFlight
<1> QED
  BY <1>2, <1>3, ResultTypes DEF Finished

\* Storing a result under a uid keeps the rest of what is stored.
LEMMA SavedType ==
    ASSUME TypeOK, NEW r \in Reqs, pc[r] = "finish", NEW res \in Results,
           interaction' = [interaction EXCEPT ![Uid(r)].result = res]
    PROVE  /\ interaction' \in [Uids -> Interactions]
           /\ Uid(r) \in Uids
           /\ \A uid \in Uids \ {Uid(r)} : interaction'[uid] = interaction[uid]
           /\ interaction'[Uid(r)] =
                 [open |-> interaction[Uid(r)].open,
                  result |-> res,
                  lastSubmission |-> interaction[Uid(r)].lastSubmission]
<1> DEFINE u == Uid(r)
           saved == [open |-> interaction[u].open,
                     result |-> res,
                     lastSubmission |-> interaction[u].lastSubmission]
<1>1. u \in Uids
  BY ContextFacts DEF InFlight, Uid
<1>2. interaction[u] \in Interactions
  BY <1>1 DEF TypeOK
<1>3. saved \in Interactions
  BY <1>2 DEF Interactions
<1>4. [interaction[u] EXCEPT !.result = res] = saved
  BY <1>2 DEF Interactions
<1>5. interaction' = [interaction EXCEPT ![u] = [@ EXCEPT !.result = res]]
  OBVIOUS
<1> HIDE DEF u, saved
<1>6. interaction' \in [Uids -> Interactions]
  BY <1>1, <1>3, <1>4, <1>5 DEF TypeOK
<1>7. /\ \A uid \in Uids \ {u} : interaction'[uid] = interaction[uid]
      /\ interaction'[u] = saved
  BY <1>1, <1>4, <1>5 DEF TypeOK
<1> QED
  BY <1>1, <1>6, <1>7 DEF u, saved

\* The uid of a flow's prompt.
LEMMA FlowUids ==
    /\ \A f \in Flows, prompt \in Prompts : <<f, prompt>> \in Uids
    /\ "login" \in Prompts /\ "consent" \in Prompts
    /\ \A f \in Flows : <<f, "login">> # <<f, "consent">>
BY DEF Uids, Prompts

\* The provider's own steps keep the types of what it stores.
LEMMA ProviderType ==
    ASSUME TypeOK, Provider
    PROVE  OpTypeOK'
<1>1. ASSUME NEW f \in Flows, Authorize(f) PROVE OpTypeOK'
  BY <1>1, ResultTypes, FlowUids DEF Authorize, TypeOK, OpTypeOK
<1>2. ASSUME NEW f \in Flows, ResumeLogin(f) PROVE OpTypeOK'
  <2> DEFINE res == interaction[<<f, "login">>].result
  <2>1. res \in Results
    BY FlowUids, ResultTypes DEF TypeOK
  <2>2. OpenInteraction(res) \in Interactions /\ res.login \in Accounts
    BY <2>1, ResultTypes DEF Results
  <2>3. /\ account' = [account EXCEPT ![f] = res.login]
        /\ stage' = [stage EXCEPT ![f] = "consent"]
        /\ interaction' = [interaction EXCEPT
                              ![<<f, "login">>] = NoInteraction,
                              ![<<f, "consent">>] = OpenInteraction(res)]
    BY <1>2 DEF ResumeLogin
  <2> HIDE DEF res
  <2> QED
    BY <2>2, <2>3, ResultTypes DEF TypeOK, OpTypeOK
<1>3. ASSUME NEW f \in Flows, ResumeConsent(f) PROVE OpTypeOK'
  <2> DEFINE res == interaction[<<f, "consent">>].result
  <2>1. res \in Results
    BY FlowUids, ResultTypes DEF TypeOK
  <2>2. res.login \in Accounts
    BY <2>1 DEF Results
  <2> QED
    BY <1>3, <2>2, ResultTypes DEF ResumeConsent, TypeOK, OpTypeOK
<1>4. ASSUME NEW f \in Flows, NEW prompt \in Prompts, ResumeDenied(f, prompt)
      PROVE  OpTypeOK'
  BY <1>4, ResultTypes DEF ResumeDenied, TypeOK, OpTypeOK
<1>5. ASSUME NEW uid \in Uids, ExpireInteraction(uid) PROVE OpTypeOK'
  BY <1>5, ResultTypes DEF ExpireInteraction, TypeOK, OpTypeOK
<1> QED
  BY <1>1, <1>2, <1>3, <1>4, <1>5 DEF Provider

\* The types hold at the start.
LEMMA TypeInit ==
    ASSUME Init
    PROVE  TypeOK
<1>1. ConnTypeOK
  BY ConnectionAssumption DEF Init, ConnInit, ConnTypeOK
<1>2. ReqTypeOK
  BY DEF Init, ReqTypeOK, InFlight
<1>3. OpTypeOK
  BY ResultTypes DEF Init, OpTypeOK, Accounts
<1> QED
  BY <1>1, <1>2, <1>3, TypeParts DEF Init

\* Every step keeps the types.
LEMMA TypeStep ==
    ASSUME TypeOK, [Next]_vars
    PROVE  TypeOK'
<1> SUFFICES /\ ConnTypeOK' /\ ReqTypeOK' /\ OpTypeOK'
             /\ certs' \subseteq ClientShas
  BY DEF TypeOK, ReqTypeOK, OpTypeOK
<1> USE TypeParts
<1>1. CASE UNCHANGED vars
  BY <1>1 DEF vars, connVars, sockets, reqVars, opVars,
              ConnTypeOK, ReqTypeOK, OpTypeOK
<1>2. ASSUME NEW r \in Reqs, Arrive(r)
      PROVE  /\ ConnTypeOK' /\ ReqTypeOK' /\ OpTypeOK' /\ certs' = certs
  <2>1. ASSUME NEW c \in Conns, ArriveFails(r, c)
        PROVE  ConnTypeOK' /\ ReqTypeOK' /\ OpTypeOK' /\ certs' = certs
    <3>1. Answer(r, "serverError") /\ "serverError" \in Replies
      BY <2>1 DEF ArriveFails, Replies
    <3>2. ConnTypeOK'
      BY <2>1 DEF ArriveFails, Answer, ConnTypeOK
    <3> QED
      BY <3>1, <3>2, AnswerType
  <2>2. ASSUME NEW c \in Conns, ArriveContinue(r, c)
        PROVE  ConnTypeOK' /\ ReqTypeOK' /\ OpTypeOK' /\ certs' = certs
    <3>1. PICK what \in Replies : Answer(r, what)
      BY <2>2 DEF ArriveContinue, Replies
    <3>2. ConnTypeOK'
      BY <2>2 DEF ArriveContinue, Answer, Verify, ConnTypeOK
    <3> QED
      BY <3>1, <3>2, AnswerType
  <2>3. ASSUME NEW c \in Conns, NEW uid \in Uids, ArriveLookup(r, c, uid)
        PROVE  ConnTypeOK' /\ ReqTypeOK' /\ OpTypeOK' /\ certs' = certs
    <3>1. PICK endpoint \in {"view", "login", "confirm"} :
              Enter(r, c, uid, endpoint, "lookup")
      BY <2>3 DEF ArriveLookup
    <3>2. sub' = sub /\ replies' = [replies EXCEPT ![r] = <<>>]
      BY <2>3 DEF ArriveLookup
    <3> QED
      BY <3>1, <3>2, EnterType
  <2>4. ASSUME NEW c \in Conns, NEW uid \in Uids, ArriveAbort(r, c, uid)
        PROVE  ConnTypeOK' /\ ReqTypeOK' /\ OpTypeOK' /\ certs' = certs
    BY <2>4, EnterType DEF ArriveAbort
  <2> QED
    BY <1>2, <2>1, <2>2, <2>3, <2>4 DEF Arrive
<1>3. ASSUME NEW r \in Reqs, Handle(r)
      PROVE  /\ ConnTypeOK' /\ ReqTypeOK' /\ OpTypeOK'
             /\ certs' \subseteq ClientShas
  <2>1. CASE LookupFinds(r)
    BY <2>1 DEF LookupFinds, connVars, sockets, opVars, InFlight,
                ConnTypeOK, ReqTypeOK, OpTypeOK
  <2>2. CASE LookupFails(r)
    <3>1. "errorPage" \in Replies
      BY DEF Replies
    <3>2. ReqTypeOK'
      BY <2>2, <3>1, ReplyType DEF LookupFails
    <3> QED
      BY <2>2, <3>2 DEF LookupFails, connVars, sockets, opVars,
                        ConnTypeOK, OpTypeOK
  <2>3. CASE View(r)
    <3>1. PICK what \in Replies : Reply(r, what)
      BY <2>3 DEF View, Replies
    <3>2. ReqTypeOK'
      BY <3>1, ReplyType
    <3> QED
      BY <2>3, <3>2 DEF View, connVars, sockets, opVars, ConnTypeOK, OpTypeOK
  <2>4. CASE Login(r)
    <3> DEFINE sha == CasChain(ctx[r].conn)[1].sha
    <3>1. ctx[r].conn \in Conns /\ CasChain(ctx[r].conn) # <<>>
      BY <2>4, ContextFacts DEF Login, Handling, MayLogin, InFlight
    <3>2. sha \in ClientShas
      BY <3>1, CasChainFacts
    <3>3. LoginResult(sha) \in Results
      BY <3>2, ResultTypes DEF Accounts
    <3>4. Submit(r, LoginResult(sha), FALSE) /\ pc[r] = "handle"
      BY <2>4 DEF Login, Handling
    <3>5. ReqTypeOK'
      <4> HIDE DEF sha
      <4> QED
        BY <3>3, <3>4, SubmitType
    <3>6. certs' = certs \cup {sha}
      BY <2>4 DEF Login
    <3>7. ConnTypeOK' /\ OpTypeOK'
      BY <2>4 DEF Login, connVars, sockets, opVars, ConnTypeOK, OpTypeOK
    <3> QED
      BY <3>2, <3>5, <3>6, <3>7
  <2>5. CASE LoginRefused(r)
    <3>1. ReqTypeOK'
      BY <2>5, ResultTypes, SubmitType DEF LoginRefused, Handling
    <3> QED
      BY <2>5, <3>1 DEF LoginRefused, connVars, sockets, opVars,
                        ConnTypeOK, OpTypeOK
  <2>6. CASE Confirm(r)
    <3>1. ReqTypeOK'
      BY <2>6, ResultTypes, SubmitType DEF Confirm, Handling
    <3> QED
      BY <2>6, <3>1 DEF Confirm, connVars, sockets, opVars,
                        ConnTypeOK, OpTypeOK
  <2>7. CASE ConfirmRefused(r)
    <3>1. "forbidden" \in Replies
      BY DEF Replies
    <3>2. ReqTypeOK'
      BY <2>7, <3>1, ReplyType DEF ConfirmRefused
    <3> QED
      BY <2>7, <3>2 DEF ConfirmRefused, connVars, sockets, opVars,
                        ConnTypeOK, OpTypeOK
  <2>8. CASE FinishSaves(r)
    <3>1. "returnTo" \in Replies
      BY DEF Replies
    <3>2. ReqTypeOK'
      BY <2>8, <3>1, ReplyType DEF FinishSaves
    <3>3. Finished(r) \in Results
      BY <2>8, FinishedType DEF FinishSaves
    <3>4. interaction' \in [Uids -> Interactions]
      BY <2>8, <3>3, SavedType DEF FinishSaves
    <3> QED
      BY <2>8, <3>2, <3>4 DEF FinishSaves, connVars, sockets, ConnTypeOK, OpTypeOK
  <2>9. CASE FinishFails(r)
    <3>1. "errorPage" \in Replies
      BY DEF Replies
    <3>2. ReqTypeOK'
      BY <2>9, <3>1, ReplyType DEF FinishFails
    <3> QED
      BY <2>9, <3>2 DEF FinishFails, connVars, sockets, opVars,
                        ConnTypeOK, OpTypeOK
  <2> QED
    BY <1>3, <2>1, <2>2, <2>3, <2>4, <2>5, <2>6, <2>7, <2>8, <2>9 DEF Handle
<1>4. CASE Provider
  <2>1. OpTypeOK'
    BY <1>4, ProviderType
  <2>2. UNCHANGED <<connVars, reqVars, certs>>
    BY <1>4 DEF Provider, Authorize, ResumeLogin, ResumeConsent, ResumeDenied,
                ExpireInteraction
  <2> QED
    BY <2>1, <2>2 DEF connVars, sockets, reqVars, ConnTypeOK, ReqTypeOK
<1>5. CASE Tick /\ UNCHANGED <<reqVars, opVars, certs>>
  <2>1. now' \in 0 .. MaxTime
    BY <1>5, ConnectionAssumption DEF Tick, ConnTypeOK
  <2> QED
    BY <1>5, <2>1 DEF Tick, sockets, reqVars, opVars,
                      ConnTypeOK, ReqTypeOK, OpTypeOK
<1>6. ASSUME NEW c \in Conns, Connect(c)
      PROVE  ConnTypeOK' /\ ReqTypeOK' /\ OpTypeOK' /\ certs' = certs
  <2>1. ConnTypeOK'
    BY <1>6 DEF Connect, Handshake, TlsAuthorized, ConnTypeOK
  <2> QED
    BY <1>6, <2>1 DEF Connect, reqVars, opVars, ReqTypeOK, OpTypeOK
<1>7. CASE Restart
  <2>1. ReqTypeOK'
    BY <1>7 DEF Restart, ReqTypeOK, InFlight
  <2>2. OpTypeOK'
    BY <1>7, ResultTypes DEF Restart, OpTypeOK, Accounts
  <2> QED
    BY <1>7, <2>1, <2>2, ConnectionAssumption DEF Restart, ConnTypeOK
<1> QED
  BY <1>1, <1>2, <1>3, <1>4, <1>5, <1>6, <1>7 DEF Next, Environment

\* Every variable stays within its type.
LEMMA TypeInvariant == Spec => []TypeOK
BY TypeInit, TypeStep, PTL DEF Spec

-----------------------------------------------------------------------------
\* What the steps do to the sockets and to what waits on them.

\* A socket changes by the middleware's check, by a new handshake or in a crash.
LEMMA SocketEffects ==
    ASSUME TypeOK, [Next]_vars
    PROVE  \/ UNCHANGED sockets /\ (UNCHANGED now \/ Tick)
           \/ UNCHANGED <<now, peer>> /\ \E c \in Conns : Verify(c)
           \/ \E c \in Conns : Connect(c)
           \/ Restart
<1> USE DEF sockets, connVars
<1>1. CASE UNCHANGED vars
  BY <1>1 DEF vars
<1>2. ASSUME NEW r \in Reqs, Arrive(r)
      PROVE  UNCHANGED <<now, peer>>
             /\ (UNCHANGED authorized \/ \E c \in Conns : Verify(c))
  BY <1>2 DEF Arrive, ArriveFails, ArriveContinue, ArriveLookup, ArriveAbort,
              Enter, Answer
<1>3. ASSUME NEW r \in Reqs, Handle(r) PROVE UNCHANGED connVars
  BY <1>3 DEF Handle, LookupFinds, LookupFails, View, Login, LoginRefused,
              Confirm, ConfirmRefused, FinishSaves, FinishFails
<1>4. CASE Provider
  BY <1>4 DEF Provider, Authorize, ResumeLogin, ResumeConsent, ResumeDenied,
              ExpireInteraction
<1>5. CASE Environment
  BY <1>5 DEF Environment, Tick
<1> QED
  BY <1>1, <1>2, <1>3, <1>4, <1>5 DEF Next

\* Time does not take back an acceptance.
LEMMA StillAccepted ==
    ASSUME TypeOK, TypeOK', [Next]_vars,
           NEW p, \E t \in 0 .. now : Accepted(p, t)
    PROVE  \E t \in 0 .. now' : Accepted(p, t)
<1>1. now \in Nat /\ now' \in Nat
  BY ConnectionAssumption DEF TypeOK, ConnTypeOK
<1>2. now <= now'
  BY <1>1, SocketEffects DEF Tick, Connect, Handshake, Restart
<1>3. PICK t \in 0 .. now : Accepted(p, t)
  OBVIOUS
<1>4. t \in 0 .. now'
  BY <1>1, <1>2
<1> QED
  BY <1>3, <1>4

\* The flag of a socket is set by a check of the chain of that socket, and it
\* goes with the socket.
LEMMA AuthorizedStep ==
    ASSUME TypeOK, TypeOK', AuthorizedWasAccepted, [Next]_vars
    PROVE  AuthorizedWasAccepted'
<1> SUFFICES ASSUME NEW d \in Conns, authorized'[d]
             PROVE  \E t \in 0 .. now' : Accepted(peer'[d], t)
  BY DEF AuthorizedWasAccepted, WasAccepted
<1>1. now \in 0 .. now /\ now \in Nat
  BY ConnectionAssumption DEF TypeOK, ConnTypeOK
<1>2. CASE UNCHANGED sockets
  BY <1>2, StillAccepted DEF AuthorizedWasAccepted, WasAccepted, sockets
<1>3. ASSUME UNCHANGED <<now, peer>>, NEW c \in Conns, Verify(c)
      PROVE  \E t \in 0 .. now' : Accepted(peer'[d], t)
  <2>1. CASE authorized[d]
    BY <1>3, <2>1, StillAccepted DEF AuthorizedWasAccepted, WasAccepted
  <2>2. CASE ~authorized[d]
    <3>1. d = c /\ VerifyChain(CasChain(c), now)
      BY <1>3, <2>2 DEF Verify, TypeOK, ConnTypeOK
    <3>2. Accepted(peer[d], now)
      BY <3>1 DEF Accepted, CasChain
    <3> QED
      BY <1>1, <1>3, <3>2
  <2> QED
    BY <2>1, <2>2
<1>4. ASSUME NEW c \in Conns, Connect(c)
      PROVE  \E t \in 0 .. now' : Accepted(peer'[d], t)
  <2>1. CASE d # c
    <3>1. authorized[d] /\ peer'[d] = peer[d]
      BY <1>4, <2>1 DEF Connect, Handshake, TypeOK, ConnTypeOK
    <3> QED
      BY <3>1, StillAccepted DEF AuthorizedWasAccepted, WasAccepted
  <2>2. CASE d = c
    <3>1. TlsAuthorized(peer'[d], now) /\ now' = now
      BY <1>4, <2>2 DEF Connect, Handshake, TypeOK, ConnTypeOK
    <3>2. Accepted(peer'[d], now)
      BY <3>1 DEF Accepted
    <3> QED
      BY <1>1, <3>1, <3>2
  <2> QED
    BY <2>1, <2>2
<1>5. CASE Restart
  BY <1>5 DEF Restart
<1> QED
  BY <1>2, <1>3, <1>4, <1>5, SocketEffects

\* What waits to be submitted after a step waited before, on a socket that is
\* still the same and as authorized as it was, or was just decided on.
LEMMA SubmissionEffects ==
    ASSUME TypeOK, TypeOK', [Next]_vars, NEW r \in Reqs, pc'[r] = "finish"
    PROVE  \/ sub'[r] = [result |-> AccessDenied, merge |-> FALSE]
           \/ Login(r)
           \/ Confirm(r)
           \/ /\ pc[r] = "finish" /\ ctx'[r] = ctx[r] /\ sub'[r] = sub[r]
              /\ peer'[ctx[r].conn] = peer[ctx[r].conn]
              /\ authorized[ctx[r].conn] => authorized'[ctx[r].conn]
              /\ certs \subseteq certs'
<1> DEFINE Waits == pc[r] = "finish" /\ ctx'[r] = ctx[r] /\ sub'[r] = sub[r]
           Same == Waits => /\ peer'[ctx[r].conn] = peer[ctx[r].conn]
                            /\ authorized[ctx[r].conn] => authorized'[ctx[r].conn]
<1>0. pc[r] = "finish" => ctx[r].conn \in Conns
  BY ContextFacts DEF InFlight
<1>1. CASE UNCHANGED vars
  BY <1>1 DEF vars, connVars, reqVars, sockets
<1>2. ASSUME NEW q \in Reqs, Arrive(q)
      PROVE  \/ sub'[r] = [result |-> AccessDenied, merge |-> FALSE]
             \/ Waits /\ Same /\ certs' = certs
  <2>1. certs' = certs /\ peer' = peer
    BY <1>2 DEF Arrive, ArriveFails, ArriveContinue, ArriveLookup, ArriveAbort,
                Enter, Answer
  <2>2. Same
    BY <1>0, <1>2, <2>1 DEF Arrive, ArriveFails, ArriveContinue, ArriveLookup,
                ArriveAbort, Enter, Answer, Verify, TypeOK, ConnTypeOK
  <2>3. \/ sub'[r] = [result |-> AccessDenied, merge |-> FALSE]
        \/ Waits
    <3>1. ASSUME NEW c \in Conns, ArriveFails(q, c) PROVE Waits
      BY <3>1 DEF ArriveFails, Answer, TypeOK
    <3>2. ASSUME NEW c \in Conns, ArriveContinue(q, c) PROVE Waits
      BY <3>2 DEF ArriveContinue, Answer, TypeOK
    <3>3. ASSUME NEW c \in Conns, NEW uid \in Uids, ArriveLookup(q, c, uid)
          PROVE  Waits
      BY <3>3 DEF ArriveLookup, Enter, TypeOK
    <3>4. ASSUME NEW c \in Conns, NEW uid \in Uids, ArriveAbort(q, c, uid)
          PROVE  \/ sub'[r] = [result |-> AccessDenied, merge |-> FALSE]
                 \/ Waits
      BY <3>4 DEF ArriveAbort, Enter, TypeOK
    <3> QED
      BY <1>2, <3>1, <3>2, <3>3, <3>4 DEF Arrive
  <2> QED
    BY <2>1, <2>2, <2>3
<1>3. ASSUME NEW q \in Reqs, Handle(q)
      PROVE  \/ sub'[r] = [result |-> AccessDenied, merge |-> FALSE]
             \/ Login(r) \/ Confirm(r)
             \/ Waits /\ Same /\ certs \subseteq certs'
  <2>1. Same
    BY <1>3 DEF Handle, LookupFinds, LookupFails, View, Login, LoginRefused,
              Confirm, ConfirmRefused, FinishSaves, FinishFails,
              connVars, sockets
  <2>2. certs \subseteq certs'
    BY <1>3 DEF Handle, LookupFinds, LookupFails, View, Login, LoginRefused,
              Confirm, ConfirmRefused, FinishSaves, FinishFails
  <2>3. CASE LookupFinds(q)
    BY <2>1, <2>2, <2>3 DEF LookupFinds, TypeOK
  <2>4. ASSUME NEW what, Reply(q, what) PROVE Waits
    BY <2>4 DEF Reply, TypeOK
  <2>5. CASE LookupFails(q) \/ View(q) \/ ConfirmRefused(q)
             \/ FinishSaves(q) \/ FinishFails(q)
    BY <2>1, <2>2, <2>4, <2>5 DEF LookupFails, View, ConfirmRefused,
              FinishSaves, FinishFails
  <2>6. ASSUME NEW result, NEW merge, Submit(q, result, merge), q # r
        PROVE  Waits
    BY <2>6 DEF Submit, TypeOK
  <2>7. CASE Login(q)
    BY <2>1, <2>2, <2>6, <2>7 DEF Login
  <2>8. CASE Confirm(q)
    BY <2>1, <2>2, <2>6, <2>8 DEF Confirm
  <2>9. CASE LoginRefused(q)
    <3>1. CASE q = r
      BY <2>9, <3>1 DEF LoginRefused, Submit, TypeOK
    <3>2. CASE q # r
      BY <2>1, <2>2, <2>6, <2>9, <3>2 DEF LoginRefused
    <3> QED
      BY <3>1, <3>2
  <2> QED
    BY <1>3, <2>3, <2>5, <2>7, <2>8, <2>9 DEF Handle
<1>4. CASE Provider
  BY <1>4 DEF Provider, Authorize, ResumeLogin, ResumeConsent, ResumeDenied,
              ExpireInteraction, connVars, reqVars, sockets
<1>5. CASE Tick /\ UNCHANGED <<reqVars, opVars, certs>>
  BY <1>5 DEF Tick, sockets, reqVars
<1>6. ASSUME NEW c \in Conns, Connect(c) PROVE Waits /\ Same /\ certs' = certs
  <2>1. Waits /\ certs' = certs
    BY <1>6 DEF Connect, reqVars
  <2>2. ctx[r].conn # c
    BY <1>6, <2>1 DEF Connect, InFlight
  <2> QED
    BY <1>0, <1>6, <2>1, <2>2 DEF Connect, Handshake, TypeOK, ConnTypeOK
<1>7. CASE Restart
  BY <1>7 DEF Restart
<1> QED
  BY <1>1, <1>2, <1>3, <1>4, <1>5, <1>6, <1>7 DEF Next, Environment

\* A login is decided on in the same step as its certificate is stored.
LEMMA LoginDecides ==
    ASSUME TypeOK, TypeOK', NEW r \in Reqs, Login(r)
    PROVE  LET c == ctx[r].conn
           IN  /\ c \in Conns /\ authorized[c] /\ authorized' = authorized
               /\ peer' = peer /\ ctx' = ctx
               /\ PromptOf(ctx[r].uid) = "login"
               /\ peer[c] \in Peers \ {<<>>}
               /\ peer[c][1].sha # NoAccount
               /\ certs' = certs \cup {peer[c][1].sha}
               /\ sub'[r] = [result |-> LoginResult(peer[c][1].sha),
                             merge |-> FALSE]
<1>1. pc[r] = "handle" /\ MayLogin(r)
  BY DEF Login, Handling
<1>2. ctx[r].conn \in Conns /\ CasChain(ctx[r].conn) # <<>>
  BY <1>1, ContextFacts DEF MayLogin, InFlight
<1>3. /\ peer[ctx[r].conn] \in Peers \ {<<>>}
      /\ CasChain(ctx[r].conn)[1].sha = peer[ctx[r].conn][1].sha
      /\ peer[ctx[r].conn][1].sha \in ClientShas
  BY <1>2, CasChainFacts
<1>4. /\ authorized' = authorized /\ peer' = peer /\ ctx' = ctx
      /\ certs' = certs \cup {CasChain(ctx[r].conn)[1].sha}
      /\ Submit(r, LoginResult(CasChain(ctx[r].conn)[1].sha), FALSE)
  BY DEF Login, connVars, sockets, Submit
<1>5. sub'[r] = [result |-> LoginResult(CasChain(ctx[r].conn)[1].sha),
                 merge |-> FALSE]
  BY <1>4 DEF Submit, TypeOK
<1> QED
  BY <1>1, <1>2, <1>3, <1>4, <1>5, InteractionsAssumption
     DEF MayLogin, Uid

\* Nothing but a login, a consent or a refusal is ever about to be submitted.
LEMMA SubmissionStep ==
    ASSUME TypeOK, TypeOK', SubmissionShape, [Next]_vars
    PROVE  SubmissionShape'
<1> SUFFICES ASSUME NEW r \in Reqs, pc'[r] = "finish"
             PROVE  \/ sub'[r] = [result |-> AccessDenied, merge |-> FALSE]
                    \/ /\ sub'[r].result = LoginResult(sub'[r].result.login)
                       /\ sub'[r].result.login # NoAccount
                       /\ ~sub'[r].merge
                       /\ PromptOf(ctx'[r].uid) = "login"
                    \/ /\ sub'[r] = [result |-> ConsentResult, merge |-> TRUE]
                       /\ PromptOf(ctx'[r].uid) = "consent"
  BY DEF SubmissionShape
<1>1. CASE Login(r)
  <2> DEFINE sha == peer[ctx[r].conn][1].sha
  <2>1. /\ sub'[r] = [result |-> LoginResult(sha), merge |-> FALSE]
        /\ ctx' = ctx /\ PromptOf(ctx[r].uid) = "login"
        /\ sha # NoAccount
    BY <1>1, LoginDecides
  <2>2. LoginResult(sha).login = sha
    BY DEF LoginResult
  <2> HIDE DEF sha
  <2>3. sub'[r].result = LoginResult(sha) /\ ~sub'[r].merge
    BY <2>1
  <2>4. sub'[r].result.login = sha
    BY <2>2, <2>3
  <2> QED
    BY <2>1, <2>3, <2>4
<1>2. CASE Confirm(r)
  BY <1>2 DEF Confirm, MayConfirm, Submit, Uid, TypeOK
<1>3. CASE pc[r] = "finish" /\ ctx'[r] = ctx[r] /\ sub'[r] = sub[r]
  BY <1>3 DEF SubmissionShape
<1> QED
  BY <1>1, <1>2, <1>3, SubmissionEffects

\* While a login waits to be stored its socket stays as it was checked.
LEMMA LoginStep ==
    ASSUME TypeOK, TypeOK', LoginIsOwn, [Next]_vars
    PROVE  LoginIsOwn'
<1> SUFFICES ASSUME NEW r \in Reqs, pc'[r] = "finish",
                    sub'[r].result.login # NoAccount
             PROVE  LET c == ctx'[r].conn
                    IN  /\ authorized'[c]
                        /\ sub'[r].result.login = peer'[c][1].sha
                        /\ sub'[r].result.login \in certs'
  BY DEF LoginIsOwn
<1>1. CASE sub'[r] = [result |-> AccessDenied, merge |-> FALSE]
  BY <1>1 DEF AccessDenied
<1>2. CASE Login(r)
  <2> DEFINE sha == peer[ctx[r].conn][1].sha
  <2>1. /\ sub'[r] = [result |-> LoginResult(sha), merge |-> FALSE]
        /\ ctx' = ctx /\ peer' = peer
        /\ authorized'[ctx[r].conn] /\ sha \in certs'
    BY <1>2, LoginDecides
  <2>2. sub'[r].result.login = sha
    <3> HIDE DEF sha
    <3> QED
      BY <2>1 DEF LoginResult
  <2> QED
    BY <2>1, <2>2
<1>3. CASE Confirm(r)
  BY <1>3 DEF Confirm, Submit, ConsentResult, TypeOK
<1>4. CASE /\ pc[r] = "finish" /\ ctx'[r] = ctx[r] /\ sub'[r] = sub[r]
           /\ peer'[ctx[r].conn] = peer[ctx[r].conn]
           /\ authorized[ctx[r].conn] => authorized'[ctx[r].conn]
           /\ certs \subseteq certs'
  BY <1>4 DEF LoginIsOwn
<1> QED
  BY <1>1, <1>2, <1>3, <1>4, SubmissionEffects

\* The certificate store grows by the certificates of logins, and goes with the
\* process.
LEMMA CertsEffects ==
    ASSUME [Next]_vars
    PROVE  certs' = certs \/ (\E r \in Reqs : Login(r)) \/ certs' = {}
<1>1. CASE UNCHANGED vars
  BY <1>1 DEF vars
<1>2. ASSUME NEW r \in Reqs, Arrive(r) PROVE certs' = certs
  BY <1>2 DEF Arrive, ArriveFails, ArriveContinue, ArriveLookup, ArriveAbort,
              Enter, Answer
<1>3. ASSUME NEW r \in Reqs, Handle(r) PROVE certs' = certs \/ Login(r)
  BY <1>3 DEF Handle, LookupFinds, LookupFails, View, LoginRefused,
              Confirm, ConfirmRefused, FinishSaves, FinishFails
<1>4. CASE Provider
  BY <1>4 DEF Provider, Authorize, ResumeLogin, ResumeConsent, ResumeDenied,
              ExpireInteraction
<1>5. CASE Environment
  BY <1>5 DEF Environment, Connect, Restart
<1> QED
  BY <1>1, <1>2, <1>3, <1>4, <1>5 DEF Next

\* A certificate enters the store when its client is authorized.
LEMMA CertsStep ==
    ASSUME TypeOK, TypeOK', AuthorizedWasAccepted, CertsAccepted, [Next]_vars
    PROVE  CertsAccepted'
<1> SUFFICES ASSUME NEW sha \in certs'
             PROVE  \E p \in Peers \ {<<>>} :
                        /\ p[1].sha = sha
                        /\ \E t \in 0 .. now' : Accepted(p, t)
  BY DEF CertsAccepted, WasAccepted
<1>1. CASE sha \in certs
  <2>1. PICK p \in Peers \ {<<>>} :
            p[1].sha = sha /\ \E t \in 0 .. now : Accepted(p, t)
    BY <1>1 DEF CertsAccepted, WasAccepted
  <2>2. \E t \in 0 .. now' : Accepted(p, t)
    BY <2>1, StillAccepted
  <2> QED
    BY <2>1, <2>2
<1>2. ASSUME NEW r \in Reqs, Login(r), sha \notin certs
      PROVE  \E p \in Peers \ {<<>>} :
                 /\ p[1].sha = sha
                 /\ \E t \in 0 .. now' : Accepted(p, t)
  <2> DEFINE p == peer[ctx[r].conn]
  <2>1. /\ ctx[r].conn \in Conns /\ authorized[ctx[r].conn]
        /\ p \in Peers \ {<<>>} /\ certs' = certs \cup {p[1].sha}
    BY <1>2, LoginDecides
  <2>2. \E t \in 0 .. now : Accepted(p, t)
    BY <2>1 DEF AuthorizedWasAccepted, WasAccepted
  <2>3. \E t \in 0 .. now' : Accepted(p, t)
    BY <2>2, StillAccepted
  <2>4. p[1].sha = sha
    BY <1>2, <2>1
  <2> QED
    BY <2>1, <2>3, <2>4
<1> QED
  BY <1>1, <1>2, CertsEffects

-----------------------------------------------------------------------------
\* Responses.

\* Whatever path a handler takes, it ends in one reply or awaits without any.
LEMMA ReplyStep ==
    ASSUME TypeOK, TypeOK', OneReply, [Next]_vars
    PROVE  OneReply'
<1> SUFFICES ASSUME NEW r \in Reqs
             PROVE  /\ pc'[r] = "done" => Len(replies'[r]) = 1
                    /\ pc'[r] # "done" => Len(replies'[r]) = 0
  BY DEF OneReply
<1> DEFINE Once == /\ pc'[r] = "done" => Len(replies'[r]) = 1
                   /\ pc'[r] # "done" => Len(replies'[r]) = 0
<1>0. replies[r] \in Seq(Replies)
  BY DEF TypeOK
<1>1. CASE UNCHANGED <<pc, replies>>
  BY <1>1 DEF OneReply
<1>2. ASSUME NEW q \in Reqs, NEW what, pc[q] # "done", Reply(q, what)
      PROVE  Once
  <2>1. CASE q # r
    BY <1>2, <2>1 DEF Reply, OneReply, TypeOK
  <2>2. CASE q = r
    <3>1. replies'[r] = Append(replies[r], what) /\ pc'[r] = "done"
      BY <1>2, <2>2 DEF Reply, TypeOK
    <3>2. Len(replies[r]) = 0
      BY <1>2, <2>2 DEF OneReply
    <3>3. Len(Append(replies[r], what)) = Len(replies[r]) + 1
      BY <1>0
    <3> QED
      BY <3>1, <3>2, <3>3
  <2> QED
    BY <2>1, <2>2
<1>3. ASSUME NEW q \in Reqs, NEW phase \in InFlight, pc[q] # "done",
             pc' = [pc EXCEPT ![q] = phase], replies' = replies
      PROVE  Once
  BY <1>3 DEF OneReply, TypeOK, InFlight
<1>4. ASSUME NEW q \in Reqs, NEW phase \in InFlight,
             pc' = [pc EXCEPT ![q] = phase],
             replies' = [replies EXCEPT ![q] = <<>>]
      PROVE  Once
  BY <1>4 DEF OneReply, TypeOK, InFlight
<1>5. ASSUME NEW q \in Reqs, NEW what, Answer(q, what) PROVE Once
  BY <1>5 DEF Answer, OneReply, TypeOK
<1>6. ASSUME NEW q \in Reqs, Arrive(q) PROVE Once
  BY <1>4, <1>5, <1>6 DEF Arrive, ArriveFails, ArriveContinue, ArriveLookup,
              ArriveAbort, Enter, InFlight
<1>7. ASSUME NEW q \in Reqs, Handle(q) PROVE Once
  <2>1. pc[q] # "done"
    BY <1>7 DEF Handle, LookupFinds, LookupFails, View, Login, LoginRefused,
              Confirm, ConfirmRefused, FinishSaves, FinishFails, Handling
  <2>2. CASE LookupFinds(q)
    BY <1>3, <2>1, <2>2 DEF LookupFinds, InFlight
  <2>3. CASE LookupFails(q) \/ View(q) \/ ConfirmRefused(q)
             \/ FinishSaves(q) \/ FinishFails(q)
    BY <1>2, <2>1, <2>3 DEF LookupFails, View, ConfirmRefused,
              FinishSaves, FinishFails
  <2>4. CASE Login(q) \/ LoginRefused(q) \/ Confirm(q)
    BY <1>3, <2>1, <2>4 DEF Login, LoginRefused, Confirm, Submit, InFlight
  <2> QED
    BY <1>7, <2>2, <2>3, <2>4 DEF Handle
<1>8. CASE Provider
  BY <1>1, <1>8 DEF Provider, Authorize, ResumeLogin, ResumeConsent,
              ResumeDenied, ExpireInteraction, reqVars
<1>9. CASE Environment
  BY <1>1, <1>9 DEF Environment, Connect, Restart, reqVars
<1> QED
  BY <1>1, <1>6, <1>7, <1>8, <1>9 DEF Next, vars, reqVars

-----------------------------------------------------------------------------
\* Interactions and flows.

\* Only the end of a handler and the provider itself write interactions.
LEMMA OpEffects ==
    ASSUME TypeOK, [Next]_vars
    PROVE  \/ UNCHANGED opVars /\ certs \subseteq certs'
           \/ \E r \in Reqs : FinishSaves(r)
           \/ Provider
           \/ Restart
<1>1. CASE UNCHANGED vars
  BY <1>1 DEF vars
<1>2. ASSUME NEW r \in Reqs, Arrive(r) PROVE UNCHANGED <<opVars, certs>>
  BY <1>2 DEF Arrive, ArriveFails, ArriveContinue, ArriveLookup, ArriveAbort,
              Enter, Answer
<1>3. ASSUME NEW r \in Reqs, Handle(r)
      PROVE  (UNCHANGED opVars /\ certs \subseteq certs') \/ FinishSaves(r)
  BY <1>3 DEF Handle, LookupFinds, LookupFails, View, Login, LoginRefused,
              Confirm, ConfirmRefused, FinishFails
<1>4. CASE Environment
  BY <1>4 DEF Environment, Connect
<1> QED
  BY <1>1, <1>2, <1>3, <1>4 DEF Next

\* What the end of a handler stores, and where.
LEMMA SaveEffects ==
    ASSUME TypeOK, SubmissionShape, NEW r \in Reqs, FinishSaves(r)
    PROVE  LET u == ctx[r].uid
           IN  /\ u \in Uids /\ interaction[u].open
               /\ \A uid \in Uids \ {u} : interaction'[uid] = interaction[uid]
               /\ interaction'[u].open
               /\ interaction'[u].lastSubmission = interaction[u].lastSubmission
               /\ \/ interaction'[u].result = AccessDenied
                  \/ /\ PromptOf(u) = "login"
                     /\ sub[r].result.login # NoAccount
                     /\ interaction'[u].result = LoginResult(sub[r].result.login)
                  \/ /\ PromptOf(u) = "consent"
                     /\ interaction'[u].result =
                           Overlay(interaction[u].lastSubmission, ConsentResult)
               /\ UNCHANGED <<stage, account, certs>>
<1> DEFINE u == ctx[r].uid
<1>1. pc[r] = "finish" /\ Details(r).open /\ UNCHANGED <<stage, account, certs>>
  BY DEF FinishSaves
<1>2. interaction' = [interaction EXCEPT ![Uid(r)].result = Finished(r)]
  BY DEF FinishSaves
<1>3. Finished(r) \in Results
  BY <1>1, FinishedType
<1>4. /\ u \in Uids
      /\ \A uid \in Uids \ {u} : interaction'[uid] = interaction[uid]
      /\ interaction'[u] = [open |-> interaction[u].open,
                            result |-> Finished(r),
                            lastSubmission |-> interaction[u].lastSubmission]
  BY <1>1, <1>2, <1>3, SavedType DEF Uid
<1>5. \/ Finished(r) = AccessDenied
      \/ /\ PromptOf(u) = "login"
         /\ sub[r].result.login # NoAccount
         /\ Finished(r) = LoginResult(sub[r].result.login)
      \/ /\ PromptOf(u) = "consent"
         /\ Finished(r) = Overlay(Details(r).lastSubmission, ConsentResult)
  <2>1. CASE sub[r] = [result |-> AccessDenied, merge |-> FALSE]
    BY <2>1 DEF Finished
  <2>2. CASE /\ sub[r].result = LoginResult(sub[r].result.login)
             /\ sub[r].result.login # NoAccount
             /\ ~sub[r].merge
             /\ PromptOf(ctx[r].uid) = "login"
    BY <2>2 DEF Finished
  <2>3. CASE /\ sub[r] = [result |-> ConsentResult, merge |-> TRUE]
             /\ PromptOf(ctx[r].uid) = "consent"
    <3>1. sub[r].result = ConsentResult /\ sub[r].merge /\ ~ConsentResult.error
      BY <2>3 DEF ConsentResult
    <3> QED
      BY <2>3, <3>1 DEF Finished
  <2> QED
    BY <1>1, <2>1, <2>2, <2>3 DEF SubmissionShape
<1>6. Details(r) = interaction[u]
  BY DEF Details
<1> HIDE DEF u
<1>7. /\ interaction'[u].open
      /\ interaction'[u].lastSubmission = interaction[u].lastSubmission
      /\ interaction'[u].result = Finished(r)
  BY <1>1, <1>4, <1>6
<1> QED
  BY <1>1, <1>4, <1>5, <1>6, <1>7 DEF u

\* The provider's steps, pointwise: a new flow opens its login prompt.
LEMMA AuthorizeEffects ==
    ASSUME TypeOK, NEW f \in Flows, Authorize(f)
    PROVE  /\ stage[f] = "none" /\ stage' = [stage EXCEPT ![f] = "login"]
           /\ interaction'[<<f, "login">>] = OpenInteraction(NoResult)
           /\ \A uid \in Uids \ {<<f, "login">>} :
                 interaction'[uid] = interaction[uid]
           /\ UNCHANGED <<account, certs>>
BY FlowUids DEF Authorize, TypeOK

\* A refused flow gives up its interaction.
LEMMA DeniedEffects ==
    ASSUME TypeOK, NEW f \in Flows, NEW prompt \in Prompts,
           ResumeDenied(f, prompt)
    PROVE  /\ interaction[<<f, prompt>>].open
           /\ stage' = [stage EXCEPT ![f] = "denied"]
           /\ interaction'[<<f, prompt>>] = NoInteraction
           /\ \A uid \in Uids \ {<<f, prompt>>} :
                 interaction'[uid] = interaction[uid]
           /\ UNCHANGED <<account, certs>>
BY FlowUids DEF ResumeDenied, TypeOK

\* A login turns into the consent prompt of the same flow.
LEMMA LoginEffects ==
    ASSUME TypeOK, NEW f \in Flows, ResumeLogin(f)
    PROVE  LET res == interaction[<<f, "login">>].result
           IN  /\ interaction[<<f, "login">>].open
               /\ res.login # NoAccount
               /\ account' = [account EXCEPT ![f] = res.login]
               /\ stage' = [stage EXCEPT ![f] = "consent"]
               /\ interaction'[<<f, "login">>] = NoInteraction
               /\ interaction'[<<f, "consent">>] = OpenInteraction(res)
               /\ \A uid \in Uids \ {<<f, "login">>, <<f, "consent">>} :
                     interaction'[uid] = interaction[uid]
               /\ UNCHANGED certs
BY FlowUids DEF ResumeLogin, TypeOK

\* A consent ends the flow.
LEMMA ConsentEffects ==
    ASSUME TypeOK, NEW f \in Flows, ResumeConsent(f)
    PROVE  LET res == interaction[<<f, "consent">>].result
           IN  /\ interaction[<<f, "consent">>].open
               /\ account' = [account EXCEPT ![f] =
                     IF res.login = NoAccount THEN @ ELSE res.login]
               /\ stage' = [stage EXCEPT ![f] = "granted"]
               /\ interaction'[<<f, "consent">>] = NoInteraction
               /\ \A uid \in Uids \ {<<f, "consent">>} :
                     interaction'[uid] = interaction[uid]
               /\ UNCHANGED certs
BY FlowUids DEF ResumeConsent, TypeOK

\* An interaction that runs out leaves its flow where it is.
LEMMA ExpireEffects ==
    ASSUME TypeOK, NEW u \in Uids, ExpireInteraction(u)
    PROVE  /\ interaction'[u] = NoInteraction
           /\ \A uid \in Uids \ {u} : interaction'[uid] = interaction[uid]
           /\ UNCHANGED <<stage, account, certs>>
BY DEF ExpireInteraction, TypeOK

\* What the invariants on interactions say of one flow, in terms of what is
\* stored for its two prompts and of its stage and its account.
SafeFlow(login, consent, at, as, known) ==
    /\ IF login.open THEN at = "login" ELSE login = NoInteraction
    /\ IF consent.open THEN at = "consent" ELSE consent = NoInteraction
    /\ consent.open => as # NoAccount /\ consent.lastSubmission.login = as
    /\ consent.result.consent => consent.result.login = as /\ as # NoAccount
    /\ at \in {"consent", "granted"} => as \in known
    /\ login.result.login \in known \cup {NoAccount}
    /\ login.lastSubmission.login \in known \cup {NoAccount}
    /\ consent.result.login \in known \cup {NoAccount}
    /\ consent.lastSubmission.login \in known \cup {NoAccount}

FlowsSafe ==
    \A f \in Flows : SafeFlow(interaction[<<f, "login">>],
                              interaction[<<f, "consent">>],
                              stage[f], account[f], certs)

\* The four invariants are those of every flow, taken together.
LEMMA SafeFlows ==
    OpenMatchesStage /\ ConsentFollowsLogin /\ ConsentKeepsLogin /\ AccountKnown
        <=> FlowsSafe
<1>1. ASSUME OpenMatchesStage, ConsentFollowsLogin, ConsentKeepsLogin,
             AccountKnown
      PROVE  FlowsSafe
  <2> SUFFICES ASSUME NEW f \in Flows
               PROVE  SafeFlow(interaction[<<f, "login">>],
                               interaction[<<f, "consent">>],
                               stage[f], account[f], certs)
    BY DEF FlowsSafe
  <2>1. \A prompt \in Prompts : <<f, prompt>> \in Uids
    BY FlowUids
  <2> QED
    BY <1>1, <2>1, FlowUids DEF OpenMatchesStage, ConsentFollowsLogin,
       ConsentKeepsLogin, AccountKnown, SafeFlow
<1>2. ASSUME FlowsSafe
      PROVE  OpenMatchesStage /\ ConsentFollowsLogin
             /\ ConsentKeepsLogin /\ AccountKnown
  <2>1. OpenMatchesStage /\ ConsentFollowsLogin /\ ConsentKeepsLogin
    BY <1>2 DEF OpenMatchesStage, ConsentFollowsLogin, ConsentKeepsLogin,
       FlowsSafe, SafeFlow, Prompts
  <2>2. \A uid \in Uids : /\ interaction[uid].result.login
                                \in certs \cup {NoAccount}
                          /\ interaction[uid].lastSubmission.login
                                \in certs \cup {NoAccount}
    <3> SUFFICES ASSUME NEW f \in Flows, NEW prompt \in Prompts
                 PROVE  /\ interaction[<<f, prompt>>].result.login
                              \in certs \cup {NoAccount}
                        /\ interaction[<<f, prompt>>].lastSubmission.login
                              \in certs \cup {NoAccount}
      BY DEF Uids
    <3>1. prompt = "login" \/ prompt = "consent"
      BY DEF Prompts
    <3> QED
      BY <1>2, <3>1 DEF FlowsSafe, SafeFlow
  <2>3. AccountKnown
    BY <1>2, <2>2 DEF AccountKnown, FlowsSafe, SafeFlow
  <2> QED
    BY <2>1, <2>3
<1> QED
  BY <1>1, <1>2

\* Nothing in an interaction that is not there, and what an opened one holds.
LEMMA OpenedFields ==
    /\ ~NoInteraction.open
    /\ NoInteraction.result.login = NoAccount
    /\ NoInteraction.lastSubmission.login = NoAccount
    /\ ~NoInteraction.result.consent
    /\ NoResult.login = NoAccount
    /\ \A last : /\ OpenInteraction(last).open
                 /\ OpenInteraction(last).result = NoResult
                 /\ OpenInteraction(last).lastSubmission = last
    /\ ~NoResult.consent
BY DEF NoInteraction, NoResult, OpenInteraction

\* The interactions of one flow are not those of another.
LEMMA OtherUids ==
    ASSUME NEW f \in Flows, NEW g \in Flows, f # g,
           \A uid \in Uids \ {<<g, "login">>, <<g, "consent">>} :
               interaction'[uid] = interaction[uid]
    PROVE  /\ interaction'[<<f, "login">>] = interaction[<<f, "login">>]
           /\ interaction'[<<f, "consent">>] = interaction[<<f, "consent">>]
<1>1. \A p, q \in Prompts : <<f, p>> \in Uids /\ <<f, p>> # <<g, q>>
  BY DEF Uids
<1>2. /\ <<f, "login">> \in Uids \ {<<g, "login">>, <<g, "consent">>}
      /\ <<f, "consent">> \in Uids \ {<<g, "login">>, <<g, "consent">>}
  BY <1>1 DEF Prompts
<1> QED
  BY <1>2

\* Every step that writes an interaction keeps every flow safe.
LEMMA FlowStep ==
    ASSUME TypeOK, TypeOK', SubmissionShape, LoginIsOwn, FlowsSafe, [Next]_vars
    PROVE  FlowsSafe'
<1> SUFFICES ASSUME NEW f \in Flows
             PROVE  SafeFlow(interaction'[<<f, "login">>],
                             interaction'[<<f, "consent">>],
                             stage'[f], account'[f], certs')
  BY DEF FlowsSafe
<1> DEFINE Safe == SafeFlow(interaction'[<<f, "login">>],
                            interaction'[<<f, "consent">>],
                            stage'[f], account'[f], certs')
<1>0. SafeFlow(interaction[<<f, "login">>], interaction[<<f, "consent">>],
               stage[f], account[f], certs)
  BY DEF FlowsSafe
<1>1. CASE UNCHANGED opVars /\ certs \subseteq certs'
  BY <1>0, <1>1 DEF opVars, SafeFlow
<1>2. ASSUME NEW r \in Reqs, FinishSaves(r) PROVE Safe
  <2> DEFINE u == ctx[r].uid
  <2>1. /\ u \in Uids /\ interaction[u].open
        /\ \A uid \in Uids \ {u} : interaction'[uid] = interaction[uid]
        /\ interaction'[u].open
        /\ interaction'[u].lastSubmission = interaction[u].lastSubmission
        /\ \/ interaction'[u].result = AccessDenied
           \/ /\ PromptOf(u) = "login"
              /\ interaction'[u].result = LoginResult(sub[r].result.login)
           \/ /\ PromptOf(u) = "consent"
              /\ interaction'[u].result =
                    Overlay(interaction[u].lastSubmission, ConsentResult)
        /\ UNCHANGED <<stage, account, certs>>
    BY <1>2, SaveEffects
  <2>2. sub[r].result.login \in certs \cup {NoAccount}
    BY <1>2 DEF LoginIsOwn, FinishSaves
  <2> HIDE DEF u
  <2>3. AccessDenied.login = NoAccount /\ ~AccessDenied.consent
    BY DEF AccessDenied
  <2>4. LoginResult(sub[r].result.login).login = sub[r].result.login
    BY DEF LoginResult
  <2>5. \A last : Overlay(last, ConsentResult).login = last.login
    BY DEF Overlay, ConsentResult
  <2>6. PromptOf(<<f, "login">>) = "login" /\ PromptOf(<<f, "consent">>) = "consent"
    BY DEF PromptOf
  <2>7. <<f, "login">> \in Uids /\ <<f, "consent">> \in Uids
        /\ <<f, "login">> # <<f, "consent">>
    BY FlowUids
  <2>8. CASE u = <<f, "login">>
    BY <1>0, <2>1, <2>2, <2>3, <2>4, <2>6, <2>7, <2>8 DEF SafeFlow
  <2>9. CASE u = <<f, "consent">>
    BY <1>0, <2>1, <2>3, <2>5, <2>6, <2>7, <2>9 DEF SafeFlow
  <2>10. CASE u # <<f, "login">> /\ u # <<f, "consent">>
    BY <1>0, <2>1, <2>7, <2>10
  <2> QED
    BY <2>8, <2>9, <2>10
<1>3. ASSUME NEW g \in Flows, Authorize(g) PROVE Safe
  <2>1. CASE g = f
    BY <1>0, <1>3, <2>1, AuthorizeEffects, FlowUids, OpenedFields
       DEF SafeFlow, TypeOK
  <2>2. CASE g # f
    <3>1. stage'[f] = stage[f] /\ account'[f] = account[f] /\ certs' = certs
      BY <1>3, <2>2, AuthorizeEffects DEF TypeOK
    <3>2. \A uid \in Uids \ {<<g, "login">>, <<g, "consent">>} :
              interaction'[uid] = interaction[uid]
      BY <1>3, AuthorizeEffects
    <3>3. /\ interaction'[<<f, "login">>] = interaction[<<f, "login">>]
          /\ interaction'[<<f, "consent">>] = interaction[<<f, "consent">>]
      BY <2>2, <3>2, OtherUids
    <3> QED
      BY <1>0, <3>1, <3>3
  <2> QED
    BY <2>1, <2>2
<1>4. ASSUME NEW g \in Flows, ResumeLogin(g) PROVE Safe
  <2>1. CASE g = f
    BY <1>0, <1>4, <2>1, LoginEffects, OpenedFields DEF SafeFlow, TypeOK
  <2>2. CASE g # f
    <3>1. stage'[f] = stage[f] /\ account'[f] = account[f] /\ certs' = certs
      BY <1>4, <2>2, LoginEffects DEF TypeOK
    <3>2. \A uid \in Uids \ {<<g, "login">>, <<g, "consent">>} :
              interaction'[uid] = interaction[uid]
      BY <1>4, LoginEffects
    <3>3. /\ interaction'[<<f, "login">>] = interaction[<<f, "login">>]
          /\ interaction'[<<f, "consent">>] = interaction[<<f, "consent">>]
      BY <2>2, <3>2, OtherUids
    <3> QED
      BY <1>0, <3>1, <3>3
  <2> QED
    BY <2>1, <2>2
<1>5. ASSUME NEW g \in Flows, ResumeConsent(g) PROVE Safe
  <2>1. CASE g = f
    BY <1>0, <1>5, <2>1, ConsentEffects, FlowUids, OpenedFields
       DEF SafeFlow, TypeOK
  <2>2. CASE g # f
    <3>1. stage'[f] = stage[f] /\ account'[f] = account[f] /\ certs' = certs
      BY <1>5, <2>2, ConsentEffects DEF TypeOK
    <3>2. \A uid \in Uids \ {<<g, "login">>, <<g, "consent">>} :
              interaction'[uid] = interaction[uid]
      BY <1>5, ConsentEffects
    <3>3. /\ interaction'[<<f, "login">>] = interaction[<<f, "login">>]
          /\ interaction'[<<f, "consent">>] = interaction[<<f, "consent">>]
      BY <2>2, <3>2, OtherUids
    <3> QED
      BY <1>0, <3>1, <3>3
  <2> QED
    BY <2>1, <2>2
<1>6. ASSUME NEW g \in Flows, NEW prompt \in Prompts, ResumeDenied(g, prompt)
      PROVE  Safe
  <2>1. CASE g = f
    <3>1. prompt = "login" \/ prompt = "consent"
      BY DEF Prompts
    <3> QED
      BY <1>0, <1>6, <2>1, <3>1, DeniedEffects, FlowUids, OpenedFields
         DEF SafeFlow, TypeOK
  <2>2. CASE g # f
    <3>1. stage'[f] = stage[f] /\ account'[f] = account[f] /\ certs' = certs
      BY <1>6, <2>2, DeniedEffects DEF TypeOK
    <3>2. \A uid \in Uids \ {<<g, "login">>, <<g, "consent">>} :
              interaction'[uid] = interaction[uid]
      BY <1>6, DeniedEffects DEF Prompts
    <3>3. /\ interaction'[<<f, "login">>] = interaction[<<f, "login">>]
          /\ interaction'[<<f, "consent">>] = interaction[<<f, "consent">>]
      BY <2>2, <3>2, OtherUids
    <3> QED
      BY <1>0, <3>1, <3>3
  <2> QED
    BY <2>1, <2>2
<1>7. ASSUME NEW u \in Uids, ExpireInteraction(u) PROVE Safe
  BY <1>0, <1>7, ExpireEffects, FlowUids, OpenedFields DEF SafeFlow
<1>8. CASE Provider
  BY <1>3, <1>4, <1>5, <1>6, <1>7, <1>8 DEF Provider
<1>9. CASE Restart
  BY <1>9, FlowUids, OpenedFields DEF Restart, SafeFlow
<1> QED
  BY <1>1, <1>2, <1>8, <1>9, OpEffects

-----------------------------------------------------------------------------

\* The invariant holds at the start.
LEMMA IInvInit ==
    ASSUME Init
    PROVE  IInv
<1>1. \A uid \in Uids : interaction[uid] = NoInteraction
  BY DEF Init
<1>2. FlowsSafe
  BY <1>1, FlowUids, OpenedFields DEF Init, FlowsSafe, SafeFlow
<1>3. SubmissionShape /\ LoginIsOwn /\ OneReply
  BY DEF Init, SubmissionShape, LoginIsOwn, OneReply
<1>4. AuthorizedWasAccepted /\ CertsAccepted
  BY DEF Init, ConnInit, AuthorizedWasAccepted, CertsAccepted
<1> QED
  BY <1>2, <1>3, <1>4, SafeFlows DEF IInv

\* Every step keeps the invariant, given the types.
LEMMA IInvStep ==
    ASSUME TypeOK, TypeOK', IInv, [Next]_vars
    PROVE  IInv'
<1> USE DEF IInv
<1>1. FlowsSafe
  BY SafeFlows
<1>2. FlowsSafe'
  BY <1>1, FlowStep
<1>3. (OpenMatchesStage /\ ConsentFollowsLogin /\ ConsentKeepsLogin
          /\ AccountKnown)'
  BY <1>2, SafeFlows, PTL
<1>4. SubmissionShape' /\ LoginIsOwn'
  BY SubmissionStep, LoginStep
<1>5. AuthorizedWasAccepted' /\ CertsAccepted'
  BY AuthorizedStep, CertsStep
<1>6. OneReply'
  BY ReplyStep
<1> QED
  BY <1>3, <1>4, <1>5, <1>6

\* The invariant holds throughout.
THEOREM Invariance == Spec => []IInv
BY IInvInit, IInvStep, TypeInvariant, PTL DEF Spec

\* An authorized socket belongs to a client whose own chain was accepted
\* (CasCertChainVerifyHandler writes the flag of the socket, and skips the check
\* where it is set).
THEOREM AuthorizedIsAccepted == Spec => []AuthorizedWasAccepted
BY Invariance, PTL DEF IInv

\* The login that is stored is that of the client the request came from
\* (CasLoginInteractionHandler, across its awaits).
THEOREM LoginsAreOwn == Spec => []LoginIsOwn
BY Invariance, PTL DEF IInv

\* Whoever is logged in, or about to be, is found in the certificate store
\* (putCert runs before finishInteraction).
THEOREM AccountsAreKnown == Spec => []AccountKnown
BY Invariance, PTL DEF IInv

\* The certificate store holds certificates of accepted clients only.
THEOREM CertsAreAccepted == Spec => []CertsAccepted
BY Invariance, PTL DEF IInv

\* A consent result never loses the login of its flow (mergeWithLastSubmission).
THEOREM ConsentNeverLogsOut == Spec => []ConsentKeepsLogin
BY Invariance, PTL DEF IInv

\* A response is sent once.
THEOREM RepliesOnce == Spec => []OneReply
BY Invariance, PTL DEF IInv

\* A client presented the certificate as its own, and with it, behind it or as
\* the same, a trust anchor that was in its validity at that moment.
Vouched(sha) ==
    \E p \in Peers \ {<<>>}, t \in 0 .. now :
        /\ p[1].sha = sha
        /\ \E i \in 1 .. Len(p) :
              p[i].sha \in Anchors /\ CheckTimeValidity(p[i], t)

\* A certificate of a client whose chain was accepted is vouched for.
LEMMA OwnerIsVouched ==
    ASSUME NEW sha,
           \E p \in Peers \ {<<>>} : p[1].sha = sha /\ WasAccepted(p)
    PROVE  Vouched(sha)
<1>1. PICK p \in Peers \ {<<>>} : p[1].sha = sha /\ WasAccepted(p)
  OBVIOUS
<1>2. PICK t \in 0 .. now : Accepted(p, t)
  BY <1>1 DEF WasAccepted
<1>3. \E i \in 1 .. Len(p) : p[i].sha \in Anchors /\ CheckTimeValidity(p[i], t)
  BY <1>2, AcceptedIsVouched
<1> QED
  BY <1>1, <1>3 DEF Vouched

\* Flows past the login, and who they are of.
SignedOn(f) == stage[f] \in {"consent", "granted"}
FlowsVouched == \A f \in Flows : SignedOn(f) => Vouched(account[f])

\* What is stored keeps accounts and acceptance together.
LEMMA FlowsAreVouched == IInv => FlowsVouched
<1> SUFFICES ASSUME IInv, NEW f \in Flows, SignedOn(f)
             PROVE  Vouched(account[f])
  BY DEF FlowsVouched
<1>1. account[f] \in certs
  BY DEF IInv, AccountKnown, SignedOn
<1>2. \E p \in Peers \ {<<>>} : p[1].sha = account[f] /\ WasAccepted(p)
  BY <1>1 DEF IInv, CertsAccepted
<1> QED
  BY <1>2, OwnerIsVouched

\* The whole of the sign-on: no flow gets past the login for anybody whom no
\* configured trust anchor vouched for, through the handshake, the check of the
\* chain, the flag on the socket, the certificate store, the awaits of the login
\* handler and the stored result, whatever happens in between and however it
\* crashes.
THEOREM SignedOnIsVouched == Spec => []FlowsVouched
BY FlowsAreVouched, Invariance, PTL

-----------------------------------------------------------------------------
\* Steps of what is built on the endpoints, as the endpoints see them.

\* The middleware ran for a socket, and nothing else happened.
Checked(c) == Verify(c) /\ UNCHANGED <<now, peer, reqVars, opVars, certs>>

BaseStep == [Next]_vars \/ \E c \in Conns : Checked(c)

\* A check keeps the types.
LEMMA CheckedType ==
    ASSUME TypeOK, NEW c \in Conns, Checked(c)
    PROVE  TypeOK'
<1>1. ConnTypeOK'
  BY DEF Checked, Verify, TypeOK, ConnTypeOK
<1> QED
  BY <1>1 DEF Checked, reqVars, opVars, TypeOK

\* A check authorizes the socket of an accepted client, and no other.
LEMMA CheckedAuthorizes ==
    ASSUME TypeOK, AuthorizedWasAccepted, NEW c \in Conns, Checked(c)
    PROVE  /\ AuthorizedWasAccepted'
           /\ \A d \in Conns : authorized[d] => authorized'[d]
<1>1. authorized' = [authorized EXCEPT ![c] = @ \/ VerifyChain(CasChain(c), now)]
  BY DEF Checked, Verify
<1>2. peer' = peer /\ now' = now /\ now \in 0 .. now
  BY ConnectionAssumption DEF Checked, TypeOK, ConnTypeOK
<1>3. \A d \in Conns : authorized[d] => authorized'[d]
  BY <1>1 DEF TypeOK, ConnTypeOK
<1>4. ASSUME NEW d \in Conns, authorized'[d]
      PROVE  \E t \in 0 .. now' : Accepted(peer'[d], t)
  <2>1. CASE authorized[d]
    BY <1>2, <2>1 DEF AuthorizedWasAccepted, WasAccepted
  <2>2. CASE ~authorized[d]
    <3>1. d = c /\ VerifyChain(CasChain(c), now)
      BY <1>1, <1>4, <2>2 DEF TypeOK, ConnTypeOK
    <3>2. Accepted(peer[d], now)
      BY <3>1 DEF Accepted, CasChain
    <3> QED
      BY <1>2, <3>2
  <2> QED
    BY <2>1, <2>2
<1>5. AuthorizedWasAccepted'
  BY <1>4 DEF AuthorizedWasAccepted, WasAccepted
<1> QED
  BY <1>3, <1>5

\* A check keeps the invariant of the interaction endpoints.
LEMMA CheckedInv ==
    ASSUME TypeOK, IInv, NEW c \in Conns, Checked(c)
    PROVE  IInv'
<1> USE DEF IInv
<1>1. /\ now' = now /\ peer' = peer /\ certs' = certs
      /\ pc' = pc /\ ctx' = ctx /\ sub' = sub /\ replies' = replies
      /\ interaction' = interaction /\ stage' = stage /\ account' = account
  BY DEF Checked, reqVars, opVars
<1>2. /\ OpenMatchesStage' /\ ConsentFollowsLogin' /\ SubmissionShape'
      /\ AccountKnown' /\ ConsentKeepsLogin' /\ OneReply'
  BY <1>1 DEF OpenMatchesStage, ConsentFollowsLogin, SubmissionShape,
              AccountKnown, ConsentKeepsLogin, OneReply
<1>3. CertsAccepted'
  BY <1>1 DEF CertsAccepted, WasAccepted
<1>4. AuthorizedWasAccepted'
  BY CheckedAuthorizes
<1>5. LoginIsOwn'
  <2>1. ASSUME NEW r \in Reqs, pc[r] = "finish"
        PROVE  ctx[r].conn \in Conns
    BY <2>1, ContextFacts DEF InFlight
  <2> QED
    BY <1>1, <2>1, CheckedAuthorizes DEF LoginIsOwn
<1> QED
  BY <1>2, <1>3, <1>4, <1>5

\* Every step keeps the types and the invariant of the interaction endpoints.
LEMMA BaseInv ==
    ASSUME TypeOK, IInv, BaseStep
    PROVE  TypeOK' /\ IInv'
BY TypeStep, IInvStep, CheckedType, CheckedInv DEF BaseStep

\* Every step leaves accepted who was accepted, and time does not go back.
LEMMA AcceptedStays ==
    ASSUME TypeOK, TypeOK', BaseStep
    PROVE  /\ now \in Nat /\ now' \in Nat /\ now <= now'
           /\ \A p : (\E t \in 0 .. now : Accepted(p, t))
                        => (\E t \in 0 .. now' : Accepted(p, t))
<1>1. now \in Nat /\ now' \in Nat
  BY ConnectionAssumption DEF TypeOK, ConnTypeOK
<1>2. CASE [Next]_vars
  <2>1. now <= now'
    BY <1>1, <1>2, SocketEffects DEF Tick, Connect, Handshake, Restart
  <2> QED
    BY <1>1, <1>2, <2>1, StillAccepted
<1>3. CASE \E c \in Conns : Checked(c)
  BY <1>1, <1>3 DEF Checked
<1> QED
  BY <1>2, <1>3 DEF BaseStep

-----------------------------------------------------------------------------
\* The contract of sign-on.

\* No consent is saved on a login prompt, and no refusal is carried over to the
\* consent prompt.
SavedShape ==
    \A f \in Flows :
        /\ ~interaction[<<f, "login">>].result.consent
        /\ ~interaction[<<f, "consent">>].lastSubmission.error

\* The results that handlers build, part by part.
LEMMA ResultParts ==
    /\ ~NoResult.consent /\ ~NoResult.error /\ NoResult.login = NoAccount
    /\ ~NoInteraction.open
    /\ NoInteraction.result = NoResult
    /\ NoInteraction.lastSubmission = NoResult
    /\ AccessDenied.error /\ ~AccessDenied.consent
    /\ \A sha : /\ LoginResult(sha).login = sha
                /\ ~LoginResult(sha).consent /\ ~LoginResult(sha).error
    /\ \A last : /\ Overlay(last, ConsentResult).login = last.login
                 /\ Overlay(last, ConsentResult).consent
                 /\ ~last.error => ~Overlay(last, ConsentResult).error
    /\ \A last : /\ OpenInteraction(last).open
                 /\ OpenInteraction(last).result = NoResult
                 /\ OpenInteraction(last).lastSubmission = last
<1>1. \A last : /\ Overlay(last, ConsentResult).login = last.login
                /\ Overlay(last, ConsentResult).consent
  BY DEF Overlay, ConsentResult
<1> QED
  BY <1>1 DEF NoResult, NoInteraction, AccessDenied, LoginResult, ConsentResult,
              Overlay, OpenInteraction

\* What is saved keeps its shape.
LEMMA SavedStep ==
    ASSUME TypeOK, SubmissionShape, SavedShape, [Next]_vars
    PROVE  SavedShape'
<1> SUFFICES ASSUME NEW f \in Flows
             PROVE  /\ ~interaction'[<<f, "login">>].result.consent
                    /\ ~interaction'[<<f, "consent">>].lastSubmission.error
  BY DEF SavedShape
<1> DEFINE Good == /\ ~interaction'[<<f, "login">>].result.consent
                   /\ ~interaction'[<<f, "consent">>].lastSubmission.error
<1>0. /\ ~interaction[<<f, "login">>].result.consent
      /\ ~interaction[<<f, "consent">>].lastSubmission.error
      /\ <<f, "login">> \in Uids /\ <<f, "consent">> \in Uids
      /\ <<f, "login">> # <<f, "consent">>
  BY FlowUids DEF SavedShape
<1>1. CASE UNCHANGED opVars
  BY <1>0, <1>1 DEF opVars
<1>2. ASSUME NEW r \in Reqs, FinishSaves(r) PROVE Good
  <2> DEFINE u == ctx[r].uid
  <2>1. /\ \A uid \in Uids \ {u} : interaction'[uid] = interaction[uid]
        /\ interaction'[u].lastSubmission = interaction[u].lastSubmission
        /\ \/ interaction'[u].result = AccessDenied
           \/ interaction'[u].result = LoginResult(sub[r].result.login)
           \/ PromptOf(u) = "consent"
    BY <1>2, SaveEffects
  <2> HIDE DEF u
  <2>2. PromptOf(<<f, "login">>) # "consent"
    BY DEF PromptOf
  <2> QED
    BY <1>0, <2>1, <2>2, ResultParts
<1>3. ASSUME NEW g \in Flows, Authorize(g) PROVE Good
  <2>1. /\ interaction'[<<g, "login">>] = OpenInteraction(NoResult)
        /\ \A uid \in Uids \ {<<g, "login">>} :
              interaction'[uid] = interaction[uid]
    BY <1>3, AuthorizeEffects
  <2>2. <<f, "consent">> # <<g, "login">>
    OBVIOUS
  <2> QED
    BY <1>0, <2>1, <2>2, ResultParts
<1>4. ASSUME NEW g \in Flows, ResumeLogin(g) PROVE Good
  <2>1. ~interaction[<<g, "login">>].result.error
    BY <1>4 DEF ResumeLogin
  <2>2. /\ interaction'[<<g, "login">>] = NoInteraction
        /\ interaction'[<<g, "consent">>] =
              OpenInteraction(interaction[<<g, "login">>].result)
        /\ \A uid \in Uids \ {<<g, "login">>, <<g, "consent">>} :
              interaction'[uid] = interaction[uid]
    BY <1>4, LoginEffects
  <2> QED
    BY <1>0, <2>1, <2>2, OtherUids, ResultParts
<1>5. ASSUME NEW g \in Flows, NEW u \in Uids,
             interaction'[u] = NoInteraction,
             \A uid \in Uids \ {u} : interaction'[uid] = interaction[uid]
      PROVE  Good
  BY <1>0, <1>5, ResultParts
<1>6. CASE Provider
  <2>1. ASSUME NEW g \in Flows, ResumeConsent(g) PROVE Good
    BY <1>5, <2>1, ConsentEffects, FlowUids
  <2>2. ASSUME NEW g \in Flows, NEW prompt \in Prompts, ResumeDenied(g, prompt)
        PROVE  Good
    BY <1>5, <2>2, DeniedEffects, FlowUids
  <2>3. ASSUME NEW u \in Uids, ExpireInteraction(u) PROVE Good
    BY <1>5, <2>3, ExpireEffects
  <2> QED
    BY <1>3, <1>4, <1>6, <2>1, <2>2, <2>3 DEF Provider
<1>7. CASE Restart
  BY <1>0, <1>7, ResultParts DEF Restart
<1> QED
  BY <1>1, <1>2, <1>6, <1>7, OpEffects

-----------------------------------------------------------------------------
\* The mapping.

AcceptedClients == UNION {AcceptedAt[t] : t \in 0 .. now}
DecisionOf(f) == Held(stage[f], interaction[<<f, stage[f]>>])
Decisions == [f \in Flows |-> DecisionOf(f)]

\* Time only adds to the accepted clients.
LEMMA AcceptedGrows ==
    ASSUME TypeOK, TypeOK', [Next]_vars
    PROVE  /\ AcceptedClients \subseteq AcceptedClients'
           /\ AcceptedClients' \subseteq ClientShas
<1>1. now \in 0 .. MaxTime /\ now' \in 0 .. MaxTime /\ MaxTime \in Nat
  BY ConnectionAssumption DEF TypeOK, ConnTypeOK
<1>2. now <= now'
  BY <1>1, SocketEffects DEF Tick, Connect, Handshake, Restart
<1>3. 0 .. now \subseteq 0 .. now' /\ 0 .. now' \subseteq 0 .. MaxTime
  BY <1>1, <1>2
<1>4. AcceptedClients \subseteq AcceptedClients'
  BY <1>3 DEF AcceptedClients, AcceptedAt
<1>5. \A t \in 0 .. MaxTime : AcceptedAt[t] \subseteq ClientShas
  BY DEF AcceptedAt, ClientShas
<1>6. AcceptedClients' \subseteq ClientShas
  BY <1>3, <1>5 DEF AcceptedClients, AcceptedAt
<1> QED
  BY <1>4, <1>6

\* A peer that was accepted is among them.
LEMMA WasAcceptedClient ==
    ASSUME TypeOK, NEW p \in Peers \ {<<>>}, WasAccepted(p)
    PROVE  p[1].sha \in AcceptedClients
<1>1. PICK t \in 0 .. now : Accepted(p, t)
  BY DEF WasAccepted
<1>2. t \in 0 .. MaxTime
  BY ConnectionAssumption DEF TypeOK, ConnTypeOK
<1>3. p[1].sha \in AcceptedAt[t]
  BY <1>1, <1>2 DEF AcceptedAt
<1> QED
  BY <1>3 DEF AcceptedClients

\* What an interaction holds, case by case.
LEMMA HeldCases ==
    ASSUME NEW at, NEW i
    PROVE  /\ at \notin Prompts => Held(at, i) = Contract!Undecided
           /\ at \in Prompts =>
                 /\ ~i.open => Held(at, i) = Contract!Lapsed
                 /\ i.open /\ i.result = NoResult =>
                       Held(at, i) = Contract!Undecided
                 /\ i.open /\ i.result.error => Held(at, i) = Contract!Refusal
                 /\ i.open /\ ~i.result.error /\ i.result.consent =>
                       Held(at, i) = Contract!ConsentOf(i.result.login)
                 /\ /\ i.open /\ ~i.result.error /\ ~i.result.consent
                    /\ i.result.login # NoAccount
                    => Held(at, i) = Contract!LogInAs(i.result.login)
                 /\ i.open => Held(at, i) # Contract!Lapsed
BY ResultParts
   DEF Held, Contract!Undecided, Contract!Lapsed, Contract!Refusal,
       Contract!ConsentOf, Contract!LogInAs

\* A flow that a step does not touch keeps its decision.
LEMMA DecisionKept ==
    ASSUME NEW f \in Flows, stage'[f] = stage[f],
           interaction'[<<f, "login">>] = interaction[<<f, "login">>],
           interaction'[<<f, "consent">>] = interaction[<<f, "consent">>]
    PROVE  DecisionOf(f)' = DecisionOf(f)
<1>1. CASE stage[f] \in Prompts
  BY <1>1 DEF DecisionOf, Prompts
<1>2. CASE stage[f] \notin Prompts
  BY <1>2, HeldCases DEF DecisionOf
<1> QED
  BY <1>1, <1>2

\* A step that touches the interactions of one flow changes one decision.
LEMMA DecisionChanged ==
    ASSUME NEW f \in Flows, NEW d, DecisionOf(f)' = d,
           \A g \in Flows \ {f} : stage'[g] = stage[g],
           \A uid \in Uids \ {<<f, "login">>, <<f, "consent">>} :
               interaction'[uid] = interaction[uid]
    PROVE  Decisions' = [Decisions EXCEPT ![f] = d]
<1>1. ASSUME NEW g \in Flows, g # f PROVE DecisionOf(g)' = DecisionOf(g)
  BY <1>1, OtherUids, DecisionKept
<1> QED
  BY <1>1 DEF Decisions

-----------------------------------------------------------------------------
\* The steps.

\* A step that changes no flow is a change of who is accepted or known.
LEMMA QuietStep ==
    ASSUME TypeOK, TypeOK', IInv, [Next]_vars,
           UNCHANGED opVars, certs \subseteq certs'
    PROVE  Contract!Next
<1>1. stage' = stage /\ account' = account /\ Decisions' = Decisions
  BY DecisionKept DEF opVars, Decisions
<1>2. CASE certs' = certs
  BY <1>1, <1>2, AcceptedGrows
     DEF Contract!Next, Contract!Accept, AcceptedClients, Decisions, DecisionOf
<1>3. ASSUME NEW r \in Reqs, Login(r) PROVE Contract!Next
  <2> DEFINE sha == peer[ctx[r].conn][1].sha
  <2>1. /\ ctx[r].conn \in Conns /\ authorized[ctx[r].conn]
        /\ peer[ctx[r].conn] \in Peers \ {<<>>}
        /\ certs' = certs \cup {sha}
    BY <1>3, LoginDecides
  <2>2. sha \in AcceptedClients
    BY <2>1, WasAcceptedClient DEF IInv, AuthorizedWasAccepted
  <2>3. sha \in ClientShas
    BY <2>1 DEF ClientShas
  <2>4. AcceptedClients' = AcceptedClients
    BY <1>3 DEF Login, connVars, AcceptedClients, AcceptedAt
  <2> HIDE DEF sha
  <2>5. Contract!Know(sha)
    BY <1>1, <2>1, <2>2, <2>4
       DEF Contract!Know, AcceptedClients, Decisions, DecisionOf
  <2> QED
    BY <2>3, <2>5 DEF Contract!Next
<1> QED
  BY <1>2, <1>3, CertsEffects

\* The end of a handler decides the flow it was called for.
LEMMA SaveDecides ==
    ASSUME TypeOK, TypeOK', IInv, SavedShape, NEW r \in Reqs, FinishSaves(r)
    PROVE  Contract!Next
<1> USE DEF IInv
<1> DEFINE u == ctx[r].uid
           shas == sub[r].result.login
<1>1. /\ u \in Uids /\ interaction[u].open
      /\ \A uid \in Uids \ {u} : interaction'[uid] = interaction[uid]
      /\ interaction'[u].open
      /\ \/ interaction'[u].result = AccessDenied
         \/ /\ PromptOf(u) = "login"
            /\ shas # NoAccount
            /\ interaction'[u].result = LoginResult(shas)
         \/ /\ PromptOf(u) = "consent"
            /\ interaction'[u].result =
                  Overlay(interaction[u].lastSubmission, ConsentResult)
      /\ UNCHANGED <<stage, account, certs>>
  BY SaveEffects
<1>2. shas # NoAccount => shas \in certs
  BY DEF LoginIsOwn, FinishSaves
<1>3. AcceptedClients' = AcceptedClients
  BY DEF FinishSaves, connVars, AcceptedClients, AcceptedAt
<1> HIDE DEF u, shas
<1>4. PICK f \in Flows, prompt \in Prompts : u = <<f, prompt>>
  BY <1>1 DEF Uids
<1>5. stage[f] = prompt /\ stage'[f] = prompt /\ PromptOf(u) = prompt
  BY <1>1, <1>4 DEF OpenMatchesStage, PromptOf
<1>6. stage[f] \in {"login", "consent"} /\ Decisions[f] # Contract!Lapsed
  BY <1>1, <1>4, <1>5, HeldCases DEF Decisions, DecisionOf, Prompts
<1>7. ASSUME NEW d, DecisionOf(f)' = d PROVE Contract!Decide(f, d)
  <2>1. \A uid \in Uids \ {<<f, "login">>, <<f, "consent">>} :
            interaction'[uid] = interaction[uid]
    BY <1>1, <1>4 DEF Prompts
  <2>2. Decisions' = [Decisions EXCEPT ![f] = d]
    BY <1>1, <1>7, <2>1, DecisionChanged
  <2> QED
    BY <1>1, <1>3, <1>6, <2>2
       DEF Contract!Decide, AcceptedClients, Decisions, DecisionOf
<1>8. CASE interaction'[u].result = AccessDenied
  <2>1. DecisionOf(f)' = Contract!Refusal
    BY <1>1, <1>4, <1>5, <1>8, ResultParts, HeldCases DEF DecisionOf
  <2> QED
    BY <1>7, <2>1 DEF Contract!Refuse, Contract!Next
<1>9. CASE /\ prompt = "login" /\ shas # NoAccount
           /\ interaction'[u].result = LoginResult(shas)
  <2>1. DecisionOf(f)' = Contract!LogInAs(shas)
    BY <1>1, <1>4, <1>5, <1>9, ResultParts, HeldCases DEF DecisionOf
  <2>2. shas \in certs /\ certs \subseteq ClientShas
    BY <1>2, <1>9 DEF TypeOK
  <2> QED
    BY <1>5, <1>7, <1>9, <2>1, <2>2 DEF Contract!DecideLogin, Contract!Next
<1>10. CASE /\ prompt = "consent"
            /\ interaction'[u].result =
                  Overlay(interaction[u].lastSubmission, ConsentResult)
  <2>1. ~interaction[u].lastSubmission.error
    BY <1>4, <1>10 DEF SavedShape
  <2>2. interaction[u].lastSubmission.login = account[f]
    BY <1>1, <1>4, <1>10 DEF ConsentFollowsLogin
  <2>3. DecisionOf(f)' = Contract!ConsentOf(account[f])
    BY <1>1, <1>4, <1>5, <1>10, <2>1, <2>2, ResultParts, HeldCases DEF DecisionOf
  <2> QED
    BY <1>5, <1>7, <1>10, <2>3 DEF Contract!DecideConsent, Contract!Next
<1> QED
  BY <1>1, <1>5, <1>8, <1>9, <1>10

\* The provider moves a flow by what is decided, and forgets the decision.
LEMMA ProviderMoves ==
    ASSUME TypeOK, TypeOK', IInv, SavedShape, Provider
    PROVE  Contract!Next
<1> USE DEF IInv
<1>1. AcceptedClients' = AcceptedClients
  BY DEF Provider, Authorize, ResumeLogin, ResumeConsent, ResumeDenied,
         ExpireInteraction, connVars, AcceptedClients, AcceptedAt
<1>2. ASSUME NEW f \in Flows, NEW from, NEW to, stage[f] = from,
             stage' = [stage EXCEPT ![f] = to],
             DecisionOf(f)' = Contract!Undecided, certs' = certs,
             \A uid \in Uids \ {<<f, "login">>, <<f, "consent">>} :
                 interaction'[uid] = interaction[uid]
      PROVE  Contract!Proceed(f, from, to)
  <2>1. \A g \in Flows \ {f} : stage'[g] = stage[g]
    BY <1>2 DEF TypeOK
  <2>2. Decisions' = [Decisions EXCEPT ![f] = Contract!Undecided]
    BY <1>2, <2>1, DecisionChanged
  <2> QED
    BY <1>1, <1>2, <2>2
       DEF Contract!Proceed, AcceptedClients, Decisions, DecisionOf
<1>3. ASSUME NEW f \in Flows, Authorize(f) PROVE Contract!Next
  <2>1. /\ stage[f] = "none" /\ stage' = [stage EXCEPT ![f] = "login"]
        /\ interaction'[<<f, "login">>] = OpenInteraction(NoResult)
        /\ \A uid \in Uids \ {<<f, "login">>} :
              interaction'[uid] = interaction[uid]
        /\ UNCHANGED <<account, certs>>
    BY <1>3, AuthorizeEffects
  <2>2. stage'[f] = "login"
    BY <2>1 DEF TypeOK
  <2>3. DecisionOf(f)' = Contract!Undecided
    BY <2>1, <2>2, HeldCases, ResultParts DEF DecisionOf, Prompts
  <2>4. Contract!Begin(f)
    BY <1>2, <2>1, <2>3 DEF Contract!Begin
  <2> QED
    BY <2>4 DEF Contract!Next
<1>4. ASSUME NEW f \in Flows, ResumeLogin(f) PROVE Contract!Next
  <2> DEFINE i == interaction[<<f, "login">>]
  <2>1. /\ i.open /\ i.result.login # NoAccount
        /\ account' = [account EXCEPT ![f] = i.result.login]
        /\ stage' = [stage EXCEPT ![f] = "consent"]
        /\ interaction'[<<f, "consent">>] = OpenInteraction(i.result)
        /\ \A uid \in Uids \ {<<f, "login">>, <<f, "consent">>} :
              interaction'[uid] = interaction[uid]
        /\ UNCHANGED certs
    BY <1>4, LoginEffects
  <2>2. stage[f] = "login" /\ stage'[f] = "consent"
    BY <2>1 DEF OpenMatchesStage, TypeOK, Prompts
  <2>3. ~i.result.error /\ ~i.result.consent
    BY <1>4 DEF ResumeLogin, SavedShape
  <2>4. DecisionOf(f) = Contract!LogInAs(i.result.login)
    BY <2>1, <2>2, <2>3, HeldCases DEF DecisionOf, Prompts
  <2>5. DecisionOf(f)' = Contract!Undecided
    BY <2>1, <2>2, HeldCases, ResultParts DEF DecisionOf, Prompts
  <2>6. i.result.login \in ClientShas
    BY <2>1, FlowUids DEF AccountKnown, TypeOK
  <2> HIDE DEF i
  <2>7. Contract!LogIn(f, i.result.login)
    BY <1>2, <2>1, <2>2, <2>4, <2>5
       DEF Contract!LogIn, Decisions, DecisionOf
  <2> QED
    BY <2>6, <2>7 DEF Contract!Next
<1>5. ASSUME NEW f \in Flows, ResumeConsent(f) PROVE Contract!Next
  <2> DEFINE i == interaction[<<f, "consent">>]
  <2>1. /\ i.open /\ i.result.consent /\ ~i.result.error
        /\ account' = [account EXCEPT ![f] =
              IF i.result.login = NoAccount THEN @ ELSE i.result.login]
        /\ stage' = [stage EXCEPT ![f] = "granted"]
        /\ \A uid \in Uids \ {<<f, "consent">>} :
              interaction'[uid] = interaction[uid]
        /\ UNCHANGED certs
    BY <1>5, ConsentEffects DEF ResumeConsent
  <2>2. stage[f] = "consent" /\ stage'[f] = "granted"
    BY <2>1 DEF OpenMatchesStage, TypeOK, Prompts
  <2>3. i.result.login = account[f]
    BY <2>1 DEF ConsentKeepsLogin
  <2>4. account' = account
    BY <2>1, <2>3 DEF TypeOK
  <2>5. DecisionOf(f) = Contract!ConsentOf(account[f])
    BY <2>1, <2>2, <2>3, HeldCases DEF DecisionOf, Prompts
  <2>6. DecisionOf(f)' = Contract!Undecided
    BY <2>2, HeldCases DEF DecisionOf, Prompts
  <2> HIDE DEF i
  <2>7. Contract!Grant(f)
    BY <1>2, <2>1, <2>2, <2>4, <2>5, <2>6
       DEF Contract!Grant, Decisions, DecisionOf
  <2> QED
    BY <2>7 DEF Contract!Next
<1>6. ASSUME NEW f \in Flows, NEW prompt \in Prompts, ResumeDenied(f, prompt)
      PROVE  Contract!Next
  <2>1. /\ interaction[<<f, prompt>>].open
        /\ interaction[<<f, prompt>>].result.error
        /\ stage' = [stage EXCEPT ![f] = "denied"]
        /\ \A uid \in Uids \ {<<f, prompt>>} :
              interaction'[uid] = interaction[uid]
        /\ UNCHANGED <<account, certs>>
    BY <1>6, DeniedEffects DEF ResumeDenied
  <2>2. stage[f] = prompt /\ stage'[f] = "denied"
    BY <2>1 DEF OpenMatchesStage, TypeOK
  <2>3. DecisionOf(f) = Contract!Refusal
    BY <2>1, <2>2, HeldCases DEF DecisionOf
  <2>4. DecisionOf(f)' = Contract!Undecided
    BY <2>2, HeldCases DEF DecisionOf, Prompts
  <2>5. Contract!Proceed(f, prompt, "denied")
    BY <1>2, <2>1, <2>2, <2>4 DEF Prompts
  <2>6. Contract!Deny(f)
    BY <2>1, <2>3, <2>5 DEF Contract!Deny, Decisions, DecisionOf, Prompts
  <2> QED
    BY <2>6 DEF Contract!Next
<1>7. ASSUME NEW u \in Uids, ExpireInteraction(u) PROVE Contract!Next
  <2>1. /\ interaction[u].open /\ interaction'[u] = NoInteraction
        /\ \A uid \in Uids \ {u} : interaction'[uid] = interaction[uid]
        /\ UNCHANGED <<stage, account, certs>>
    BY <1>7, ExpireEffects DEF ExpireInteraction
  <2>2. PICK f \in Flows, prompt \in Prompts : u = <<f, prompt>>
    BY DEF Uids
  <2>3. stage[f] = prompt /\ stage'[f] = prompt
    BY <2>1, <2>2 DEF OpenMatchesStage
  <2>4. DecisionOf(f) # Contract!Lapsed
    BY <2>1, <2>2, <2>3, HeldCases DEF DecisionOf
  <2>5. DecisionOf(f)' = Contract!Lapsed
    BY <2>1, <2>2, <2>3, HeldCases, ResultParts DEF DecisionOf
  <2>6. \A uid \in Uids \ {<<f, "login">>, <<f, "consent">>} :
            interaction'[uid] = interaction[uid]
    BY <2>1, <2>2 DEF Prompts
  <2>7. Decisions' = [Decisions EXCEPT ![f] = Contract!Lapsed]
    BY <2>1, <2>5, <2>6, DecisionChanged
  <2>8. Contract!Lapse(f)
    BY <1>1, <2>1, <2>3, <2>4, <2>7
       DEF Contract!Lapse, Contract!Decide, AcceptedClients, Decisions,
           DecisionOf, Prompts
  <2> QED
    BY <2>8 DEF Contract!Next
<1> QED
  BY <1>3, <1>4, <1>5, <1>6, <1>7 DEF Provider

\* At the start nobody is known and nothing is decided.
LEMMA ContractInit == Init => Contract!Init /\ SavedShape
<1>1. Init => Contract!Init
  <2> SUFFICES ASSUME Init PROVE Contract!Init
    OBVIOUS
  <2>1. \A f \in Flows : DecisionOf(f) = Contract!Undecided
    BY HeldCases DEF Init, DecisionOf, Prompts
  <2>2. AcceptedClients \subseteq ClientShas
    <3>1. now = 0 /\ 0 .. 0 \subseteq 0 .. MaxTime
      BY ConnectionAssumption DEF Init, ConnInit
    <3> QED
      BY <3>1 DEF AcceptedClients, AcceptedAt, ClientShas
  <2> QED
    BY <2>1, <2>2 DEF Init, Contract!Init, AcceptedClients, DecisionOf
<1>2. Init => SavedShape
  BY FlowUids, ResultParts DEF Init, SavedShape
<1> QED
  BY <1>1, <1>2

\* Every step of the endpoints is a step of the contract.
LEMMA ContractStep ==
    ASSUME TypeOK, TypeOK', IInv, SavedShape, [Next]_vars
    PROVE  Contract!Next /\ SavedShape'
<1>1. SavedShape'
  BY SavedStep DEF IInv
<1>2. CASE UNCHANGED opVars /\ certs \subseteq certs'
  BY <1>1, <1>2, QuietStep
<1>3. ASSUME NEW r \in Reqs, FinishSaves(r) PROVE Contract!Next
  BY <1>3, SaveDecides
<1>4. CASE Provider
  BY <1>1, <1>4, ProviderMoves
<1>5. CASE Restart
  <2>1. \A f \in Flows : DecisionOf(f)' = Contract!Undecided
    BY <1>5, HeldCases DEF Restart, DecisionOf, Prompts
  <2>2. AcceptedClients' = AcceptedClients
    BY <1>5 DEF Restart, AcceptedClients, AcceptedAt
  <2>3. Contract!Restart
    BY <1>5, <2>1, <2>2
       DEF Restart, Contract!Restart, AcceptedClients, DecisionOf
  <2> QED
    BY <1>1, <2>3 DEF Contract!Next
<1> QED
  BY <1>1, <1>2, <1>3, <1>4, <1>5, OpEffects

\* So is every step of what is built on the endpoints, since checking a socket
\* changes nothing that the contract speaks of.
LEMMA ContractBaseStep ==
    ASSUME TypeOK, TypeOK', IInv, SavedShape, BaseStep
    PROVE  Contract!Next /\ SavedShape'
<1>1. ASSUME NEW c \in Conns, Checked(c) PROVE Contract!Next /\ SavedShape'
  <2>1. now' = now /\ UNCHANGED opVars /\ certs' = certs
    BY <1>1 DEF Checked
  <2>2. /\ stage' = stage /\ account' = account /\ Decisions' = Decisions
        /\ AcceptedClients' = AcceptedClients
    BY <2>1, DecisionKept DEF opVars, Decisions, AcceptedClients, AcceptedAt
  <2>3. AcceptedClients \subseteq ClientShas
    <3>1. now \in 0 .. MaxTime /\ MaxTime \in Nat
      BY ConnectionAssumption DEF TypeOK, ConnTypeOK
    <3>2. 0 .. now \subseteq 0 .. MaxTime
      BY <3>1
    <3> QED
      BY <3>2 DEF AcceptedClients, AcceptedAt, ClientShas
  <2>4. Contract!Accept
    BY <2>1, <2>2, <2>3
       DEF Contract!Accept, AcceptedClients, Decisions, DecisionOf
  <2>5. SavedShape'
    BY <2>1 DEF SavedShape, opVars
  <2> QED
    BY <2>4, <2>5 DEF Contract!Next
<1> QED
  BY <1>1, ContractStep DEF BaseStep

\* The endpoints keep the contract of sign-on.
THEOREM SignOnIsKept == Spec => ImplementsSignOn
<1>1. /\ TypeOK /\ TypeOK' /\ IInv /\ SavedShape /\ [Next]_vars
      => [Contract!Next]_(Contract!contractVars) /\ SavedShape'
  BY ContractStep
<1> QED
  BY <1>1, ContractInit, TypeInvariant, Invariance, PTL
     DEF Spec, ImplementsSignOn, Contract!Spec

=============================================================================
