------------------------- MODULE MCCasInteractions -------------------------
(***************************************************************************)
(* Clients for CasInteractions: alice, authorized by the chain check alone *)
(* since only her intermediate CA is an anchor and until her certificate   *)
(* runs out; bob, authorized by the TLS layer; one that nobody vouches     *)
(* for; one whose certificate makes the chain check throw; and one that    *)
(* presents no certificate.                                                *)
(***************************************************************************)
EXTENDS CasInteractions, TLC

Cert(subject, issuer, notAfter, reads) ==
    [sha |-> subject, serial |-> subject, subject |-> subject,
     issuer |-> issuer, notBefore |-> 0, notAfter |-> notAfter,
     reads |-> reads]

Root == Cert("root", "root", 9, "ok")
Mid  == Cert("mid", "far", 9, "ok")

alice   == <<Cert("alice", "mid", 0, "ok"), Mid>>
bob     == <<Cert("bob", "root", 9, "ok"), Root>>
carol   == <<Cert("carol", "unknown", 9, "ok")>>
broken  == <<Cert("broken", "mid", 9, "unparsed"), Mid>>

MCAnchors == {"root", "mid"}
MCPeers   == {<<>>, alice, bob, carol, broken}

\* Sockets and request slots are interchangeable.
Symmetry == Permutations(Conns) \cup Permutations(Reqs)

=============================================================================
