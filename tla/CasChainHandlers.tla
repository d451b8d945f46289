-------------------------- MODULE CasChainHandlers --------------------------
(***************************************************************************)
(* The two synchronous middleware handlers that every request passes, loop *)
(* iteration by loop iteration: CasDataAdaptationHandler, whose work is    *)
(* CasCertInputAdaptor.fromSocket, and CasCertChainVerifyHandler.          *)
(*                                                                         *)
(* getPeerCertificate(true) yields a linked structure that may be cyclic:  *)
(* a root is its own issuerCertificate.                                    *)
(***************************************************************************)
EXTENDS CertChain, FiniteSets

CONSTANT Times      \* the instants a request may arrive at

ASSUME TimesAssumption == Times \subseteq Int

VARIABLES
    peer,           \* the structure getPeerCertificate returned
    now,            \* Date.now(), constant while the handlers run
    pc,
    current,        \* currentCertInChain, as a position; 0 when undefined
    seenSerialNrs,
    adapted,        \* the certificates linked so far, the client's first
    failed,         \* out.failureDetails is set
    link,           \* the position of currentCert in the verification loop
    authorized      \* req.client.authorized

vars == <<peer, now, pc, current, seenSerialNrs, adapted, failed, link,
          authorized>>
inputs == <<peer, now>>

clientCertificate == IF failed THEN <<>> ELSE adapted

Init ==
    /\ peer \in Peers
    /\ now \in Times
    /\ authorized \in {FALSE, TlsAuthorized(peer, now)}
    /\ pc = "adapt"
    /\ current = IF peer = <<>> THEN 0 ELSE 1
    /\ seenSerialNrs = {}
    /\ adapted = <<>>
    /\ failed = FALSE
    /\ link = 1

\* isEmpty(input): no certificate was provided.
NoCertificate ==
    /\ pc = "adapt"
    /\ peer = <<>>
    /\ failed' = TRUE
    /\ pc' = "verify"
    /\ UNCHANGED <<inputs, current, seenSerialNrs, adapted, link, authorized>>

\* currentCertInChain.issuerCertificate, as a position; 0 when undefined.
IssuerOf(i) ==
    CASE i < Len(peer)             -> i + 1
      [] IsIssuer(peer[i], peer[i]) -> i
      [] OTHER                     -> 0

\* Faults of Advance: the serial numbers seen are not kept, or positions are
\* kept in their place.
AdvanceForgets ==
    LET next == IssuerOf(current)
        seen == {peer[current].serial}
    IN  /\ current' = next
        /\ seenSerialNrs' = seen
        /\ pc' = IF next # 0 /\ peer[next].serial \notin seen
                 THEN "adapt" ELSE "verify"
AdvanceByPosition ==
    LET next == IssuerOf(current)
        seen == seenSerialNrs \cup {current}
    IN  /\ current' = next
        /\ seenSerialNrs' = seen
        /\ pc' = IF next # 0 /\ next \notin seen THEN "adapt" ELSE "verify"

\* The end of an iteration: move to the issuer, and leave the loop when there
\* is none or its serial number was seen.
Advance ==
    LET next == IssuerOf(current)
        seen == seenSerialNrs \cup {peer[current].serial}
    IN  /\ current' = next
        /\ seenSerialNrs' = seen
        /\ pc' = IF next # 0 /\ peer[next].serial \notin seen
                 THEN "adapt" ELSE "verify"

AdaptOk ==
    /\ pc = "adapt" /\ peer # <<>>
    /\ peer[current].reads \in {"ok", "unparsed"}
    /\ adapted' = Append(adapted, peer[current])
    /\ Advance
    /\ UNCHANGED <<inputs, failed, link, authorized>>

\* failureDetails from fromDer: return at once.
AdaptFailure ==
    /\ pc = "adapt" /\ peer # <<>>
    /\ peer[current].reads = "failure"
    /\ failed' = TRUE
    /\ pc' = "verify"
    /\ UNCHANGED <<inputs, current, seenSerialNrs, adapted, link, authorized>>

\* The catch clause records the failure and the loop goes on.
AdaptThrows ==
    /\ pc = "adapt" /\ peer # <<>>
    /\ peer[current].reads = "throws"
    /\ failed' = TRUE
    /\ Advance
    /\ UNCHANGED <<inputs, adapted, link, authorized>>

\* The chain check is skipped without a certificate or when the socket is
\* authorized already.
SkipVerify ==
    /\ pc = "verify"
    /\ clientCertificate = <<>> \/ authorized
    /\ pc' = "done"
    /\ UNCHANGED <<inputs, current, seenSerialNrs, adapted, failed, link,
                   authorized>>

\* Certificate.fromPEM of the client certificate, before the loop.
StartVerify ==
    /\ pc = "verify"
    /\ clientCertificate # <<>> /\ ~authorized
    /\ pc' = IF Parses(adapted[1]) THEN "walk" ELSE "thrown"
    /\ UNCHANGED <<inputs, current, seenSerialNrs, adapted, failed, link,
                   authorized>>

\* A fault of GoesOn: the last pair of the chain is left out.
GoesOnShort(verified) == ~verified /\ link + 2 < Len(adapted)

\* verified === false && cont, at the end of an iteration.
GoesOn(verified) == ~verified /\ link + 1 < Len(adapted)

\* One iteration over the pair at link; the verdict is written to the socket
\* only when the loop ends.
WalkLink ==
    /\ pc = "walk"
    /\ link < Len(adapted)
    /\ Parses(adapted[link + 1])
    /\ LET verified == VerifiedLink(adapted, link, now)
       IN  /\ link' = link + 1
           /\ pc' = IF GoesOn(verified) THEN "walk" ELSE "done"
           /\ authorized' = verified
    /\ UNCHANGED <<inputs, current, seenSerialNrs, adapted, failed>>

\* Certificate.fromPEM of an issuer throws: express answers with an error and
\* no handler behind this one runs.
WalkThrows ==
    /\ pc = "walk"
    /\ link < Len(adapted)
    /\ ~Parses(adapted[link + 1])
    /\ pc' = "thrown"
    /\ UNCHANGED <<inputs, current, seenSerialNrs, adapted, failed, link,
                   authorized>>

\* A fault of WalkNoIssuer: cont is not reset.
WalkNoIssuerContinues ==
    /\ pc = "walk"
    /\ link >= Len(adapted)
    /\ UNCHANGED vars

\* No issuer behind the client certificate: cont = false.
WalkNoIssuer ==
    /\ pc = "walk"
    /\ link >= Len(adapted)
    /\ pc' = "done"
    /\ UNCHANGED <<inputs, current, seenSerialNrs, adapted, failed, link,
                   authorized>>

Next ==
    \/ NoCertificate
    \/ AdaptOk \/ AdaptFailure \/ AdaptThrows
    \/ SkipVerify \/ StartVerify
    \/ WalkLink \/ WalkThrows \/ WalkNoIssuer

\* A handler runs to its end: nothing in it waits.
Spec == Init /\ [][Next]_vars /\ WF_vars(Next)

-----------------------------------------------------------------------------

TypeOK ==
    /\ peer \in Peers
    /\ now \in Times
    /\ pc \in {"adapt", "verify", "walk", "done", "thrown"}
    /\ current \in 0 .. Len(peer)
    /\ seenSerialNrs \subseteq {peer[i].serial : i \in 1 .. Len(peer)}
    /\ adapted \in Seq({peer[i] : i \in 1 .. Len(peer)})
    /\ failed \in BOOLEAN
    /\ link \in Nat \ {0}
    /\ authorized \in BOOLEAN

Finished == pc \in {"done", "thrown"}

\* When both handlers are done, the client certificate and its issuers are the
\* longest prefix of the presented chain without a repeated serial number, or
\* nothing when one of those could not be adapted, also when the chain ends in
\* a root that is its own issuer (fromSocket's do-while and failure paths).
AdaptsWholePrefix == Finished => clientCertificate = ClientChain(peer)

\* When both handlers are done, the socket is authorized exactly when the TLS
\* layer authorized it, or some certificate of the adapted chain is vouched for
\* by a trusted anchor right above it; and the chain check throws exactly when
\* it meets a certificate it cannot parse before that one (the while loop of
\* CasCertChainVerifyHandler with its early exit and its continue).
VerdictIsAnchored ==
    LET chain == ClientChain(peer)
        byTls == authorized /\ TlsAuthorized(peer, now)
    IN  /\ pc = "done"   => (byTls \/ (authorized <=> VerifyChain(chain, now)))
        /\ pc = "thrown" => (~authorized /\ VerifyThrows(chain, now))

\* To whoever runs between requests the two handlers are one step.
OneStep ==
    INSTANCE CasConnection WITH
        Conns <- {"socket"},
        MaxTime <- 0,
        peer <- [c \in {"socket"} |-> peer],
        authorized <- [c \in {"socket"} |-> authorized]

\* An iteration, seen as a part of that step.
PartOfOneStep ==
    /\ UNCHANGED inputs
    /\ pc' = "done"   => ~OneStep!VerifyFails("socket") /\ OneStep!Verify("socket")
    /\ pc' = "thrown" => OneStep!VerifyFails("socket")
    /\ pc' # "done"   => UNCHANGED authorized

\* The handlers are the one step that the rest of the system takes them for:
\* until the last iteration nothing is written to the socket, and the last one
\* leaves the verdict of the whole chain there, or throws where that step fails
\* and leaves the socket as it was (CasConnection's Verify and VerifyFails).
HandlersAreOneStep == [][PartOfOneStep]_vars

\* Both loops terminate for every structure of issuer references, the cyclic
\* ones included.
Terminates == <>Finished

\* "/api/auth returns true if the user's x509 client cert can be authenticated
\* [...], returns false otherwise": a client that ends up authorized presented a
\* certificate that is within its own validity at that moment.
AuthorizedLeafInTime ==
    pc = "done" /\ authorized => CheckTimeValidity(peer[1], now)

=============================================================================
