------------------------- MODULE MCCasChainHandlers -------------------------
(***************************************************************************)
(* A pool of certificates for CasChainHandlers: serial numbers that repeat *)
(* along a chain, certificates that expire at different instants, every    *)
(* way of reading one, an anchor in the middle and one at the top.         *)
(***************************************************************************)
EXTENDS CasChainHandlers

MCTimes == 1 .. 3

Cert(subject, issuer, serial, notAfter, reads) ==
    [sha |-> <<subject, serial, notAfter, reads>>,
     serial |-> serial, subject |-> subject, issuer |-> issuer,
     notBefore |-> 1, notAfter |-> notAfter, reads |-> reads]

Leaves == {Cert("client", i, 1, t, r) :
              i \in {"mid", "root"}, t \in {1, 3}, r \in Reading}
Mids   == {Cert("mid", "root", n, t, r) :
              n \in {1, 2}, t \in {2, 3}, r \in Reading}
Roots  == {Cert("root", "root", n, 3, r) : n \in {1, 2, 3}, r \in Reading}

MCAnchors == {c.sha : c \in {r \in Roots : r.serial # 2}}
             \cup {c.sha : c \in {m \in Mids : m.notAfter = 3}}

Chains == {<<>>} \cup {<<r>> : r \in Roots} \cup {<<l>> : l \in Leaves}
          \cup (Leaves \X (Mids \cup Roots)) \cup (Leaves \X Mids \X Roots)

MCPeers == {p \in Chains :
              \A i \in 1 .. Len(p) - 1 : IsIssuer(p[i], p[i + 1])}

=============================================================================
