----------------------------- MODULE MCCasTokens -----------------------------
(***************************************************************************)
(* Clients for CasApi and CasTokens, in seconds of two milliseconds:       *)
(* alice, whom the chain check accepts until her certificate runs out in   *)
(* the middle of a second; bob, whom the TLS layer may accept until the    *)
(* turn of a second; carol, whom nobody vouches for; one that makes the    *)
(* chain check throw; dave, whom the TLS layer accepts although his        *)
(* certificate cannot be adapted; and one that presents no certificate.    *)
(* Times to live are shorter and longer than what certificates have left.  *)
(***************************************************************************)
EXTENDS CasTokens

Cert(subject, issuer, notAfter, reads) ==
    [sha |-> subject, serial |-> subject, subject |-> subject,
     issuer |-> issuer, notBefore |-> 0, notAfter |-> notAfter,
     reads |-> reads]

Root == Cert("root", "root", 99, "ok")
Mid  == Cert("mid", "far", 99, "ok")

alice  == <<Cert("alice", "mid", 3, "ok"), Mid>>
bob    == <<Cert("bob", "root", 4, "ok"), Root>>
carol  == <<Cert("carol", "unknown", 99, "ok")>>
broken == <<Cert("broken", "mid", 99, "unparsed"), Mid>>
dave   == <<Cert("dave", "root", 99, "failure"), Root>>

MCAnchors == {"root", "mid"}
MCPeers   == {<<>>, alice, bob, carol, broken, dave}
MCTtl     == [AccessToken |-> 1, IdToken |-> 3, RefreshToken |-> 2]

=============================================================================
