----------------------------- MODULE CertChain -----------------------------
(***************************************************************************)
(* What the certificate middleware computes from the chain a TLS peer      *)
(* presented, as operators without state.                                  *)
(*                                                                         *)
(* A peer chain is a sequence of certificates, the client's own first and  *)
(* each next one its issuer; the empty sequence is a peer that presented   *)
(* none.  A certificate is abstracted to the fields the handlers read.     *)
(***************************************************************************)
EXTENDS Integers, Sequences

CONSTANTS
    Anchors,        \* digests of the configured trust anchors (acceptedCAs)
    Peers           \* the chains that connecting clients may present

\* "ok": the handlers can read the certificate; "failure": Adaptor.fromDer
\* returned failureDetails; "throws": its raw bytes were missing, so that
\* fromSocket's catch clause ran; "unparsed": fromDer adapted it but
\* Certificate.fromPEM of @fidm/x509 throws on it.
Reading == {"ok", "failure", "throws", "unparsed"}

IsCert(c) ==
    /\ DOMAIN c = {"sha", "serial", "subject", "issuer",
                   "notBefore", "notAfter", "reads"}
    /\ c.notBefore \in Int
    /\ c.notAfter \in Int
    /\ c.reads \in Reading

\* Certificate.isIssuer of @fidm/x509: the child names the parent as issuer.
IsIssuer(child, parent) == child.issuer = parent.subject

\* getPeerCertificate(true) links a certificate to the one its issuer field
\* names and ends at a certificate whose issuer was not presented, or at a
\* self-issued one, which is its own issuerCertificate.
IsPeerChain(p) ==
    /\ p \in Seq({p[i] : i \in DOMAIN p})
    /\ \A i \in DOMAIN p : IsCert(p[i])
    /\ \A i \in 1 .. Len(p) - 1 : /\ IsIssuer(p[i], p[i + 1])
                                  /\ ~IsIssuer(p[i], p[i])

ASSUME PeersAssumption == \A p \in Peers : IsPeerChain(p)

-----------------------------------------------------------------------------

CheckTimeValidity(cert, at) ==
    at >= cert.notBefore /\ at <= cert.notAfter

\* One pass of the verification loop: the pair of a certificate and its issuer.
VerifiedLink(chain, k, at) ==
    /\ CheckTimeValidity(chain[k], at)
    /\ CheckTimeValidity(chain[k + 1], at)
    /\ IsIssuer(chain[k], chain[k + 1])
    /\ chain[k + 1].sha \in Anchors

Parses(cert) == cert.reads # "unparsed"

\* The verdict of the whole loop: it stops at the first link that verifies and
\* passes over the links that do not, provided it could parse what it passed.
VerifyChain(chain, at) ==
    \E k \in 1 .. Len(chain) - 1 :
        /\ VerifiedLink(chain, k, at)
        /\ \A i \in 1 .. k + 1 : Parses(chain[i])

\* fromPEM throws out of the handler: on the client certificate before the
\* loop, on an issuer when the links below it did not verify.
VerifyThrows(chain, at) ==
    \E n \in 1 .. Len(chain) :
        /\ ~Parses(chain[n])
        /\ \A k \in 1 .. n - 2 : ~VerifiedLink(chain, k, at)

-----------------------------------------------------------------------------

DistinctSerials(shown, n) ==
    \A i, j \in 1 .. n : shown[i].serial = shown[j].serial => i = j

\* How many certificates the adaptation loop visits: it stops before the first
\* one whose serial number it has seen.
Visited(shown) ==
    CHOOSE n \in 0 .. Len(shown) :
        /\ DistinctSerials(shown, n)
        /\ n < Len(shown) => ~DistinctSerials(shown, n + 1)

\* req.cas.clientCertificate with the issuers linked behind it, or <<>> when
\* the handler leaves it undefined.
ClientChain(shown) ==
    LET n == Visited(shown)
    IN  IF \E i \in 1 .. n : shown[i].reads \in {"failure", "throws"}
        THEN <<>>
        ELSE SubSeq(shown, 1, n)

\* Node's verdict at the end of the handshake (rejectUnauthorized is false, so
\* the connection survives a negative one) can only be positive when every
\* certificate is in its validity and the chain ends in a self-issued anchor.
TlsAuthorized(shown, at) ==
    LET n == Len(shown)
    IN  /\ n > 0
        /\ \A i \in 1 .. n : CheckTimeValidity(shown[i], at)
        /\ IsIssuer(shown[n], shown[n])
        /\ shown[n].sha \in Anchors

\* A peer is accepted at a time when either check passes then.
Accepted(shown, at) ==
    TlsAuthorized(shown, at) \/ VerifyChain(ClientChain(shown), at)

=============================================================================
