-------------------------- MODULE MCCasCertFields --------------------------
(***************************************************************************)
(* Every set of key usages under a plain name; names that lack an address, *)
(* repeat an attribute, or have attributes of no use; key identifiers with *)
(* bytes on both sides of 16; extensions repeated, unknown, empty or       *)
(* unreadable, at the first, a middle and the last place.                  *)
(***************************************************************************)
EXTENDS CasCertFields

AVA(type, value) == [type |-> type, value |-> value]
Plain    == <<AVA("CN", "v1"), AVA("emailAddress", "v2")>>
NoMail   == <<AVA("C", "v1"), AVA("O", "v2"), AVA("CN", "v1")>>
Repeated == <<AVA("OU", "v1"), AVA("title", "v2"), AVA("OU", "v2"),
              AVA("emailAddress", "v1"), AVA("emailAddress", "v2")>>

Ext(id, critical, grants, bytes) ==
    [id |-> id, critical |-> critical, parsed |-> TRUE,
     grants |-> grants, bytes |-> bytes]
Unparsed(ext) == [ext EXCEPT !.parsed = FALSE]
Usage(usages) == Ext("keyUsage", TRUE, usages, <<>>)
BC(grants) == Ext("basicConstraints", TRUE, grants, <<>>)
Purpose(purposes) == Ext("keyUsageExtended", FALSE, purposes, <<>>)
Authority(bytes) == Ext("authorityKeyIdentifier", FALSE, {}, bytes)
Subject(bytes) == Ext("subjectKeyIdentifier", FALSE, {}, bytes)
Unknown == Unparsed(Ext("other", FALSE, {}, <<>>))

Identifiers == {<<1, 16>>, <<17, 0>>, <<17, 32>>, <<33, 32>>, <<17, 33>>, <<17>>,
                <<1, 1>>, <<255, 16>>}
Lists ==
    {<<Usage({"digitalSignature"}), Unknown, BC({"CA"})>>,
     <<BC({"CA"}), Purpose({"clientAuth", "other"}), BC({})>>,
     <<Usage({"keyCertSign"}), Usage({"cRLSign"})>>,
     <<BC({"CA"}), Unparsed(Usage({}))>>,
     <<Subject(<<>>), Purpose({}), Usage({"keyCertSign"})>>,
     <<Unparsed(BC({})), BC({})>>,
     <<Purpose({"clientAuth"}), Unparsed(Usage({})), Subject(<<17, 32>>)>>,
     <<Subject(<<17, 32>>), Unparsed(Authority(<<>>))>>}

Ec    == [algorithm |-> "EC", curve |-> "secp384r1", modulus |-> NoValue]
Rsa   == [algorithm |-> "RSA", curve |-> NoValue, modulus |-> 256]
Other == [algorithm |-> "1.3.101.112", curve |-> NoValue, modulus |-> NoValue]

Cert(subject, extensions, key) ==
    [subject |-> subject, issuer |-> Plain, extensions |-> extensions, key |-> key]

MCClientCerts ==
    {Cert(Plain, <<Usage(usages)>>, Rsa) : usages \in SUBSET Usages}
    \cup {Cert(Plain, <<Ext("keyUsage", FALSE, usages, <<>>)>>, Rsa) :
              usages \in SUBSET {"cRLSign", "decipherOnly"}}
    \cup {Cert(Plain, <<Authority(a), Subject(s)>>, Ec) :
              a \in Identifiers, s \in Identifiers}
    \cup {Cert(subject, extensions, key) :
              subject \in {<<>>, NoMail, Repeated},
              extensions \in Lists \cup {<<>>}, key \in {Ec, Rsa, Other}}

=============================================================================
