------------------------------- MODULE CasApi -------------------------------
(***************************************************************************)
(* The API endpoints /api/auth, /api/whoami and /api/list beside the       *)
(* interaction endpoints: they run behind the same middleware, read the    *)
(* flag on the socket and, for the list, the certificate store.  They do   *)
(* not wait, so a request is one step.                                     *)
(***************************************************************************)
EXTENDS CasInteractions

VARIABLE answer     \* the response sent in the last step, if one was

apiVars == <<vars, answer>>

NoAnswer == [endpoint |-> "none"]

ApiTypeOK ==
    \/ answer = NoAnswer
    \/ /\ answer.endpoint \in {"auth", "whoami", "list"}
       /\ answer.conn \in Conns
       /\ answer.status \in {200, 403, 500}
       /\ answer.cert \in Accounts
       /\ answer.list \subseteq ClientShas

ApiInit == Init /\ answer = NoAnswer

Respond(c, endpoint, status, cert, list) ==
    answer' = [endpoint |-> endpoint, conn |-> c, status |-> status,
               cert |-> cert, list |-> list]

\* A fault of Request: the handler asks for a certificate only.
RequestAnyCert(c, endpoint, cert, list) ==
    /\ ~VerifyFails(c)
    /\ Verify(c)
    /\ IF CasChain(c) # <<>>
       THEN Respond(c, endpoint, 200, cert, list)
       ELSE Respond(c, endpoint, 403, NoAccount, {})
    /\ UNCHANGED <<now, peer, reqVars, opVars, certs>>

\* The middleware, and then a handler that tests req.client.authorized and
\* sends 200 with what it has, or 403.
Request(c, endpoint, cert, list) ==
    /\ ~VerifyFails(c)
    /\ Verify(c)
    /\ IF authorized'[c]
       THEN Respond(c, endpoint, 200, cert, list)
       ELSE Respond(c, endpoint, 403, NoAccount, {})
    /\ UNCHANGED <<now, peer, reqVars, opVars, certs>>

Auth(c) == Request(c, "auth", NoAccount, {})

\* out.cert is undefined when the certificate could not be adapted.
WhoAmI(c) ==
    Request(c, "whoami",
            IF CasChain(c) = <<>> THEN NoAccount ELSE CasChain(c)[1].sha, {})

\* db.knownCerts()
List(c) == Request(c, "list", NoAccount, certs)

RequestFails(c) ==
    /\ VerifyFails(c)
    /\ \E endpoint \in {"auth", "whoami", "list"} :
          Respond(c, endpoint, 500, NoAccount, {})
    /\ UNCHANGED vars

Api(c) == Auth(c) \/ WhoAmI(c) \/ List(c) \/ RequestFails(c)

ApiNext ==
    \/ Next /\ answer' = NoAnswer
    \/ \E c \in Conns : Api(c)

ApiSpec == ApiInit /\ [][ApiNext]_apiVars

-----------------------------------------------------------------------------

\* Only a client whose own chain was accepted once is ever told that it is
\* authorized, and whoami shows it its own certificate.
AnswersAccepted ==
    answer # NoAnswer /\ answer.status = 200 =>
        /\ WasAccepted(peer[answer.conn])
        /\ answer.cert # NoAccount => answer.cert = peer[answer.conn][1].sha

\* A refusal is never stale: the chain check would not pass at that instant.
\* It is the cached verdict that can be out of date only the other way.
RefusalFresh ==
    answer # NoAnswer /\ answer.status = 403 =>
        ~VerifyChain(CasChain(answer.conn), now)

\* What /api/list shows are the certificates of clients that were accepted,
\* never one that only tried to log in.
ListedAccepted ==
    answer # NoAnswer =>
        \A sha \in answer.list :
            \E p \in Peers \ {<<>>} : p[1].sha = sha /\ WasAccepted(p)

=============================================================================
