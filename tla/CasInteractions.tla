--------------------------- MODULE CasInteractions ---------------------------
(***************************************************************************)
(* The interaction endpoints /:uid, /:uid/login, /:uid/confirm,            *)
(* /:uid/continue and /:uid/abort, from a request's arrival at the         *)
(* middleware to its response, with the certificate store and the          *)
(* oidc-provider interactions they work on.                                *)
(*                                                                         *)
(* A handler is cut where it awaits: the lookup of the interaction and the *)
(* saving of its result go through the oidc-provider Adapter, whose        *)
(* methods return promises.  Other requests, the provider's own endpoints, *)
(* the clock and a crash may come in between.                              *)
(***************************************************************************)
EXTENDS CasConnection

CONSTANTS
    Reqs,               \* slots for requests in flight at the same time
    Flows,              \* sign-on flows: an authorization request and what
                        \* follows from it
    NoAccount,
    TransparentSignin,  \* transparentInteractionFlows
    TransparentConsent

-----------------------------------------------------------------------------

Prompts == {"login", "consent"}
Uids == Flows \X Prompts
PromptOf(uid) == uid[2]

\* Digests of certificates a client may present as its own.
ClientShas == {p[1].sha : p \in Peers \ {<<>>}}
Accounts == ClientShas \cup {NoAccount}

ASSUME InteractionsAssumption ==
    /\ NoAccount \notin ClientShas
    /\ TransparentSignin \in BOOLEAN
    /\ TransparentConsent \in BOOLEAN

\* An interaction result: the account of its login part, and whether it has a
\* consent part and an error part.
Results == [login : Accounts, consent : BOOLEAN, error : BOOLEAN]
NoResult == [login |-> NoAccount, consent |-> FALSE, error |-> FALSE]
LoginResult(sha) == [login |-> sha, consent |-> FALSE, error |-> FALSE]
ConsentResult == [login |-> NoAccount, consent |-> TRUE, error |-> FALSE]
AccessDenied == [login |-> NoAccount, consent |-> FALSE, error |-> TRUE]

\* { ...lastSubmission, ...result } of interactionFinished.
Overlay(last, result) ==
    [login   |-> IF result.login = NoAccount THEN last.login ELSE result.login,
     consent |-> last.consent \/ result.consent,
     error   |-> last.error \/ result.error]

\* What Adapter.find of the Interaction model has stored under a uid.
Interactions == [open : BOOLEAN, result : Results, lastSubmission : Results]
NoInteraction ==
    [open |-> FALSE, result |-> NoResult, lastSubmission |-> NoResult]

Contexts ==
    [conn : Conns, uid : Uids,
     endpoint : {"view", "login", "confirm", "continue", "abort"}]
Submissions == [result : Results, merge : BOOLEAN]
None == <<>>

Replies == {"loginPage", "consentPage", "loginStep", "confirmStep", "returnTo",
            "ok", "forbidden", "errorPage", "serverError"}

VARIABLES
    pc,             \* per request slot
    ctx,            \* per request slot: req, as the handler uses it
    sub,            \* per request slot: the arguments of finishInteraction
    replies,        \* per request slot: what was sent on its response so far
    interaction,    \* per uid
    stage,          \* per flow: where the provider's authorization stands
    account,        \* per flow: the account its session is logged in with
    certs           \* the keys of CasDbInMem.certs

reqVars == <<pc, ctx, sub, replies>>
opVars == <<interaction, stage, account>>
vars == <<connVars, reqVars, opVars, certs>>

InFlight == {"lookup", "handle", "finish"}

TypeOK ==
    /\ ConnTypeOK
    /\ pc \in [Reqs -> {"free", "done"} \cup InFlight]
    /\ ctx \in [Reqs -> Contexts \cup {None}]
    /\ sub \in [Reqs -> Submissions \cup {None}]
    /\ replies \in [Reqs -> Seq(Replies)]
    /\ interaction \in [Uids -> Interactions]
    /\ stage \in [Flows -> {"none", "login", "consent", "granted", "denied"}]
    /\ account \in [Flows -> Accounts]
    /\ certs \subseteq ClientShas
    /\ \A r \in Reqs : pc[r] \in InFlight => ctx[r] # None
    /\ \A r \in Reqs : pc[r] = "finish" => sub[r] # None

-----------------------------------------------------------------------------

Init ==
    /\ ConnInit
    /\ pc = [r \in Reqs |-> "free"]
    /\ ctx = [r \in Reqs |-> None]
    /\ sub = [r \in Reqs |-> None]
    /\ replies = [r \in Reqs |-> <<>>]
    /\ interaction = [u \in Uids |-> NoInteraction]
    /\ stage = [f \in Flows |-> "none"]
    /\ account = [f \in Flows |-> NoAccount]
    /\ certs = {}

\* resp.send or resp.redirect as the last thing a handler does.
Reply(r, what) ==
    /\ replies' = [replies EXCEPT ![r] = Append(@, what)]
    /\ pc' = [pc EXCEPT ![r] = "done"]
    /\ ctx' = [ctx EXCEPT ![r] = None]
    /\ sub' = [sub EXCEPT ![r] = None]

\* await finishInteraction(req, resp, result, merge)
Submit(r, result, merge) ==
    /\ sub' = [sub EXCEPT ![r] = [result |-> result, merge |-> merge]]
    /\ pc' = [pc EXCEPT ![r] = "finish"]
    /\ UNCHANGED <<ctx, replies>>

-----------------------------------------------------------------------------
\* A request arrives: the middleware runs, then the handler of its route up to
\* the first await.

Idle(r) == pc[r] \in {"free", "done"}

\* The request takes the slot, and the middleware lets it pass to its handler.
Enter(r, c, uid, endpoint, phase) ==
    /\ Idle(r)
    /\ ~VerifyFails(c)
    /\ Verify(c)
    /\ pc' = [pc EXCEPT ![r] = phase]
    /\ ctx' = [ctx EXCEPT ![r] =
                  [conn |-> c, uid |-> uid, endpoint |-> endpoint]]
    /\ UNCHANGED <<now, peer, opVars, certs>>

\* The request is answered within one step.
Answer(r, what) ==
    /\ Idle(r)
    /\ replies' = [replies EXCEPT ![r] = <<what>>]
    /\ pc' = [pc EXCEPT ![r] = "done"]
    /\ UNCHANGED <<now, peer, ctx, sub, opVars, certs>>

\* express answers for a middleware that threw.
ArriveFails(r, c) ==
    /\ VerifyFails(c)
    /\ Answer(r, "serverError")
    /\ UNCHANGED authorized

\* view, login and confirm await getInteractionDetails first.
ArriveLookup(r, c, uid) ==
    /\ \E endpoint \in {"view", "login", "confirm"} :
          Enter(r, c, uid, endpoint, "lookup")
    /\ replies' = [replies EXCEPT ![r] = <<>>]
    /\ UNCHANGED sub

\* A fault of ArriveAbort: it finishes without a result.
ArriveAbortBare(r, c, uid) ==
    /\ Enter(r, c, uid, "abort", "finish")
    /\ replies' = [replies EXCEPT ![r] = <<>>]
    /\ UNCHANGED sub

\* abort calls finishInteraction without looking at the interaction.
ArriveAbort(r, c, uid) ==
    /\ Enter(r, c, uid, "abort", "finish")
    /\ replies' = [replies EXCEPT ![r] = <<>>]
    /\ sub' = [sub EXCEPT ![r] = [result |-> AccessDenied, merge |-> FALSE]]

ArriveContinue(r, c) ==
    /\ ~VerifyFails(c)
    /\ Verify(c)
    /\ Answer(r, IF authorized'[c] THEN "ok" ELSE "forbidden")

Arrive(r) ==
    \E c \in Conns :
        \/ ArriveFails(r, c)
        \/ ArriveContinue(r, c)
        \/ \E uid \in Uids : ArriveLookup(r, c, uid) \/ ArriveAbort(r, c, uid)

-----------------------------------------------------------------------------
\* The handlers behind their awaits.

Uid(r) == ctx[r].uid
Details(r) == interaction[ctx[r].uid]

\* getInteractionDetails finds the interaction.
LookupFinds(r) ==
    /\ pc[r] = "lookup"
    /\ Details(r).open
    /\ pc' = [pc EXCEPT ![r] = "handle"]
    /\ UNCHANGED <<connVars, ctx, sub, replies, opVars, certs>>

\* A fault of LookupFails: the handler goes on after the redirect.
LookupFailsGoesOn(r) ==
    /\ pc[r] = "lookup"
    /\ ~Details(r).open
    /\ replies' = [replies EXCEPT ![r] = Append(@, "errorPage")]
    /\ pc' = [pc EXCEPT ![r] = "handle"]
    /\ UNCHANGED <<connVars, ctx, sub, opVars, certs>>

\* It does not: redirect to the error page and return undefined.
LookupFails(r) ==
    /\ pc[r] = "lookup"
    /\ ~Details(r).open
    /\ Reply(r, "errorPage")
    /\ UNCHANGED <<connVars, opVars, certs>>

Handling(r, endpoint) == pc[r] = "handle" /\ ctx[r].endpoint = endpoint

\* The redirect to the page of the prompt or, in a transparent flow, straight to
\* the endpoint that ends it.
View(r) ==
    /\ Handling(r, "view")
    /\ Reply(r, IF PromptOf(Uid(r)) = "login"
                THEN IF TransparentSignin THEN "loginStep" ELSE "loginPage"
                ELSE IF TransparentConsent THEN "confirmStep" ELSE "consentPage")
    /\ UNCHANGED <<connVars, opVars, certs>>

\* A fault of MayLogin: any certificate will do.
MayLoginUnchecked(r) ==
    /\ CasChain(ctx[r].conn) # <<>>
    /\ PromptOf(Uid(r)) = "login"

\* req.client.authorized as it is after the await.
MayLogin(r) ==
    /\ authorized[ctx[r].conn]
    /\ CasChain(ctx[r].conn) # <<>>
    /\ PromptOf(Uid(r)) = "login"

\* A fault of Login: the certificate is not stored before the result is.
LoginWithoutPut(r) ==
    /\ Handling(r, "login")
    /\ MayLogin(r)
    /\ Submit(r, LoginResult(CasChain(ctx[r].conn)[1].sha), FALSE)
    /\ UNCHANGED <<connVars, opVars, certs>>

Login(r) ==
    /\ Handling(r, "login")
    /\ MayLogin(r)
    /\ LET sha == CasChain(ctx[r].conn)[1].sha
       IN  /\ certs' = certs \cup {sha}
           /\ Submit(r, LoginResult(sha), FALSE)
    /\ UNCHANGED <<connVars, opVars>>

LoginRefused(r) ==
    /\ Handling(r, "login")
    /\ ~MayLogin(r)
    /\ Submit(r, AccessDenied, FALSE)
    /\ UNCHANGED <<connVars, opVars, certs>>

\* A fault of MayConfirm: on any prompt.
MayConfirmAnyPrompt(r) == authorized[ctx[r].conn]

MayConfirm(r) == authorized[ctx[r].conn] /\ PromptOf(Uid(r)) = "consent"

\* A fault of Confirm: the last submission is not merged.
ConfirmWithoutMerge(r) ==
    /\ Handling(r, "confirm")
    /\ MayConfirm(r)
    /\ Submit(r, ConsentResult, FALSE)
    /\ UNCHANGED <<connVars, opVars, certs>>

Confirm(r) ==
    /\ Handling(r, "confirm")
    /\ MayConfirm(r)
    /\ Submit(r, ConsentResult, TRUE)
    /\ UNCHANGED <<connVars, opVars, certs>>

ConfirmRefused(r) ==
    /\ Handling(r, "confirm")
    /\ ~MayConfirm(r)
    /\ Reply(r, "forbidden")
    /\ UNCHANGED <<connVars, opVars, certs>>

\* provider.interactionFinished: look the interaction up again, store the
\* result, redirect to the provider's returnTo.
Finished(r) ==
    LET s == sub[r]
    IN  IF s.merge /\ ~s.result.error
        THEN Overlay(Details(r).lastSubmission, s.result)
        ELSE s.result

FinishSaves(r) ==
    /\ pc[r] = "finish"
    /\ Details(r).open
    /\ interaction' = [interaction EXCEPT ![Uid(r)].result = Finished(r)]
    /\ Reply(r, "returnTo")
    /\ UNCHANGED <<connVars, stage, account, certs>>

FinishFails(r) ==
    /\ pc[r] = "finish"
    /\ ~Details(r).open
    /\ Reply(r, "errorPage")
    /\ UNCHANGED <<connVars, opVars, certs>>

Handle(r) ==
    \/ LookupFinds(r) \/ LookupFails(r)
    \/ View(r)
    \/ Login(r) \/ LoginRefused(r)
    \/ Confirm(r) \/ ConfirmRefused(r)
    \/ FinishSaves(r) \/ FinishFails(r)

-----------------------------------------------------------------------------
\* oidc-provider, as the code in src/ uses it.

OpenInteraction(last) ==
    [open |-> TRUE, result |-> NoResult, lastSubmission |-> last]

\* An authorization request without a session: prompt for login.
Authorize(f) ==
    /\ stage[f] = "none"
    /\ stage' = [stage EXCEPT ![f] = "login"]
    /\ interaction' = [interaction EXCEPT ![<<f, "login">>] =
                          OpenInteraction(NoResult)]
    /\ UNCHANGED <<connVars, reqVars, account, certs>>

\* The user agent follows returnTo: the interaction is destroyed and its result
\* acted on.
ResumeDenied(f, prompt) ==
    LET uid == <<f, prompt>>
    IN  /\ interaction[uid].open
        /\ interaction[uid].result.error
        /\ interaction' = [interaction EXCEPT ![uid] = NoInteraction]
        /\ stage' = [stage EXCEPT ![f] = "denied"]
        /\ UNCHANGED <<connVars, reqVars, account, certs>>

\* Logged in: the consent prompt is next.
ResumeLogin(f) ==
    LET uid == <<f, "login">>
        res == interaction[uid].result
    IN  /\ interaction[uid].open
        /\ res.login # NoAccount /\ ~res.error
        /\ account' = [account EXCEPT ![f] = res.login]
        /\ stage' = [stage EXCEPT ![f] = "consent"]
        /\ interaction' = [interaction EXCEPT
                              ![uid] = NoInteraction,
                              ![<<f, "consent">>] = OpenInteraction(res)]
        /\ UNCHANGED <<connVars, reqVars, certs>>

\* Consented: the code is issued.  A login in the result is applied again.
ResumeConsent(f) ==
    LET uid == <<f, "consent">>
        res == interaction[uid].result
    IN  /\ interaction[uid].open
        /\ res.consent /\ ~res.error
        /\ account' = [account EXCEPT ![f] =
                          IF res.login = NoAccount THEN @ ELSE res.login]
        /\ stage' = [stage EXCEPT ![f] = "granted"]
        /\ interaction' = [interaction EXCEPT ![uid] = NoInteraction]
        /\ UNCHANGED <<connVars, reqVars, certs>>

\* The short-lived cookie or the stored interaction ran out.
ExpireInteraction(uid) ==
    /\ interaction[uid].open
    /\ interaction' = [interaction EXCEPT ![uid] = NoInteraction]
    /\ UNCHANGED <<connVars, reqVars, stage, account, certs>>

Provider ==
    \/ \E f \in Flows : \/ Authorize(f) \/ ResumeLogin(f) \/ ResumeConsent(f)
                        \/ \E prompt \in Prompts : ResumeDenied(f, prompt)
    \/ \E uid \in Uids : ExpireInteraction(uid)

-----------------------------------------------------------------------------

\* A socket is replaced when no request in flight refers to it.
Connect(c) ==
    /\ \A r \in Reqs : pc[r] \in InFlight => ctx[r].conn # c
    /\ Handshake(c)
    /\ UNCHANGED <<reqVars, opVars, certs>>

\* The process dies and is started again.  Every store is in memory.
Restart ==
    /\ peer' = [c \in Conns |-> <<>>]
    /\ authorized' = [c \in Conns |-> FALSE]
    /\ pc' = [r \in Reqs |-> "free"]
    /\ ctx' = [r \in Reqs |-> None]
    /\ sub' = [r \in Reqs |-> None]
    /\ replies' = [r \in Reqs |-> <<>>]
    /\ interaction' = [u \in Uids |-> NoInteraction]
    /\ stage' = [f \in Flows |-> "none"]
    /\ account' = [f \in Flows |-> NoAccount]
    /\ certs' = {}
    /\ UNCHANGED now

Environment ==
    \/ Tick /\ UNCHANGED <<reqVars, opVars, certs>>
    \/ \E c \in Conns : Connect(c)
    \/ Restart

Next == (\E r \in Reqs : Arrive(r) \/ Handle(r)) \/ Provider \/ Environment

\* The event loop runs every continuation; nobody has to send, wait or resume.
Fairness == \A r \in Reqs : WF_vars(Handle(r))

Spec == Init /\ [][Next]_vars /\ Fairness

-----------------------------------------------------------------------------

\* Whoever is or is about to be logged in can be found by getCert: putCert runs
\* before the result is stored, and a crash takes both.  findAccount and
\* adaptTokenExpiry rely on it.
AccountKnown ==
    /\ \A f \in Flows : stage[f] \in {"consent", "granted"} => account[f] \in certs
    /\ \A uid \in Uids : \A res \in {interaction[uid].result,
                                    interaction[uid].lastSubmission} :
          res.login \in certs \cup {NoAccount}

\* A login that waits to be stored is that of the certificate its own socket
\* presented, and that socket is still authorized (CasLoginInteractionHandler
\* reads req.client and req.cas after an await and is awaited itself).
LoginIsOwn ==
    \A r \in Reqs :
        pc[r] = "finish" /\ sub[r].result.login # NoAccount =>
            LET c == ctx[r].conn
            IN  /\ authorized[c]
                /\ sub[r].result.login = peer[c][1].sha
                /\ sub[r].result.login \in certs

\* The certificate store, which /api/list returns and token expiry is computed
\* from, holds only certificates of clients that were accepted once.
CertsAccepted ==
    \A sha \in certs :
        \E p \in Peers \ {<<>>} : p[1].sha = sha /\ WasAccepted(p)

\* A response is sent once: none before the handler is through, one then,
\* whatever its error paths redirected to.
OneReply ==
    \A r \in Reqs : /\ pc[r] = "done"   => Len(replies[r]) = 1
                    /\ pc[r] # "done"   => Len(replies[r]) = 0

\* Consent never undoes the login of its flow: a consent result still names the
\* account the flow is logged in with (the merge flag of finishInteraction).
ConsentKeepsLogin ==
    \A f \in Flows :
        LET res == interaction[<<f, "consent">>].result
        IN  res.consent => res.login = account[f] /\ account[f] # NoAccount

\* The clients whose chain passes at an instant.
AcceptedAt ==
    [t \in 0 .. MaxTime |->
        {p[1].sha : p \in {q \in Peers \ {<<>>} : Accepted(q, t)}}]

\* What an interaction holds, as a decision of the contract, when its flow is at
\* a stage.
Held(at, i) ==
    LET what == IF at \notin Prompts THEN "open"
                ELSE IF ~i.open THEN "lapsed"
                ELSE IF i.result.error THEN "refusal"
                ELSE IF i.result.consent THEN "consent"
                ELSE IF i.result.login # NoAccount THEN "login"
                ELSE "open"
    IN  [what |-> what,
         by   |-> IF what \in {"login", "consent"} THEN i.result.login
                  ELSE NoAccount]

Contract ==
    INSTANCE SignOn WITH
        Clients  <- ClientShas,
        accepted <- UNION {AcceptedAt[t] : t \in 0 .. now},
        known    <- certs,
        decision <- [f \in Flows |-> Held(stage[f], interaction[<<f, stage[f]>>])]

\* The endpoints keep the contract of sign-on: whatever requests, awaits and
\* crashes come in between, a flow moves by the decision it holds, which is the
\* last one saved at its stage; nobody is decided on who is not known, nobody is
\* known who was not accepted, and consent is for the account that logged in.
ImplementsSignOn == Contract!Spec

=============================================================================
