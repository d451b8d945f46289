--------------------------- MODULE CasConnection ---------------------------
(***************************************************************************)
(* TLS connections and what the middleware in front of every handler does  *)
(* to them.  req.client is the socket, so the flag that                    *)
(* CasCertChainVerifyHandler writes outlives the request: later requests   *)
(* on the connection find it set and skip the chain check.                 *)
(*                                                                         *)
(* Time moves on between requests and while handlers wait, never while     *)
(* one computes: a step of a handler reads one Date.now().                 *)
(***************************************************************************)
EXTENDS CertChain, FiniteSets

CONSTANTS
    Conns,          \* sockets
    MaxTime         \* bound of the clock

ASSUME ConnectionAssumption ==
    /\ MaxTime \in Nat
    /\ <<>> \in Peers       \* requestCert does not force a client to send one

VARIABLES
    now,            \* Date.now()
    peer,           \* per socket: the presented chain
    authorized      \* per socket: req.client.authorized

sockets == <<peer, authorized>>
connVars == <<now, sockets>>

ConnTypeOK ==
    /\ now \in 0 .. MaxTime
    /\ peer \in [Conns -> Peers]
    /\ authorized \in [Conns -> BOOLEAN]

\* A socket without a client certificate stands for one not opened yet.
ConnInit ==
    /\ now = 0
    /\ peer = [c \in Conns |-> <<>>]
    /\ authorized = [c \in Conns |-> FALSE]

Tick ==
    /\ now < MaxTime
    /\ now' = now + 1
    /\ UNCHANGED sockets

\* A fault of Handshake: the flag of the closed socket stays.
HandshakeKeepsFlag(c) ==
    \E p \in Peers : \E a \in {FALSE, TlsAuthorized(p, now)} :
        /\ peer' = [peer EXCEPT ![c] = p]
        /\ authorized' = [authorized EXCEPT ![c] = @ \/ a]
        /\ UNCHANGED now

\* A new handshake in place of a closed socket: requestCert asks for a
\* certificate, rejectUnauthorized = false keeps the connection whatever the
\* verdict.  Node may refuse for reasons that are not modelled (key usage,
\* path length, signatures).
Handshake(c) ==
    \E p \in Peers : \E a \in {FALSE, TlsAuthorized(p, now)} :
        /\ peer' = [peer EXCEPT ![c] = p]
        /\ authorized' = [authorized EXCEPT ![c] = a]
        /\ UNCHANGED now

-----------------------------------------------------------------------------

\* req.cas.clientCertificate and the certificates linked behind it.
CasChain(c) == ClientChain(peer[c])

\* CasCertChainVerifyHandler.handle up to next(): the chain is checked unless
\* the socket is authorized already.
Verify(c) ==
    authorized' = [authorized EXCEPT ![c] = @ \/ VerifyChain(CasChain(c), now)]

\* The chain check threw, and no handler behind it runs.
VerifyFails(c) == ~authorized[c] /\ VerifyThrows(CasChain(c), now)

\* A chain was accepted at some instant up to now.
WasAccepted(p) == \E t \in 0 .. now : Accepted(p, t)

-----------------------------------------------------------------------------

\* An authorized socket belongs to a client whose own chain was accepted at
\* some instant: the flag that one request leaves on a socket is never that of
\* another client, whatever requests and handshakes come in between.
AuthorizedWasAccepted ==
    \A c \in Conns : authorized[c] => WasAccepted(peer[c])

=============================================================================
