------------------------- MODULE CasCommonAdaptor -------------------------
(***************************************************************************)
(* The parts of Adaptor.fromDer: what CertAssert keeps of a certificate,   *)
(* from what the ASN.1 library hands over: names, extensions, public key.  *)
(* Attribute values are opaque.  An extension has an id, is critical or    *)
(* not, was parsed or not, and grants a set of usages or purposes or has   *)
(* the bytes of an identifier.                                             *)
(***************************************************************************)
EXTENDS Naturals, SequencesExt

CONSTANTS
    NoValue         \* undefined

Attributes == {"CN", "O", "OU", "L", "C", "ST", "emailAddress"}
KeyUsageBit ==
    [digitalSignature |-> 0, nonRepudiation |-> 1, keyEncipherment |-> 2,
     dataEncipherment |-> 3, keyAgreement |-> 4, keyCertSign |-> 5,
     cRLSign |-> 6, encipherOnly |-> 7, decipherOnly |-> 8]
Usages == DOMAIN KeyUsageBit
Purposes == {"codeSigning", "serverAuth", "timeStamping", "clientAuth",
             "emailProtection", "ocspSigning"}
ExtensionIds == {"basicConstraints", "keyUsage", "keyUsageExtended",
                 "authorityKeyIdentifier", "subjectKeyIdentifier"}
KeyAlgorithms ==
    [RSA |-> "RSA", SHA_256_WITH_RSA_ENCR |-> "sha256WithRSAEncryption",
     ISO |-> "iso", MD2_RSA |-> "MD2_RSA", SHA1_RSA |-> "SHA1_RSA",
     ID_RSAES_OAEP |-> "id-RSAES-OAEP", MD5_RSA |-> "MD5_RSA",
     RSASSA_PSS |-> "RSASSA-PSS", EC |-> "ecPublicKey",
     RSA_OAEP_EMCRYPTION_SET |-> "RSAOAEPEncryptionSET"]

----------------------------------------------------------------------------
(* Key usage. *)

Bits(usages) == {KeyUsageBit[u] : u \in usages}

\* A bit of an octet: the first is the highest.
OctetBit(octet, k) == (octet \div 2 ^ (7 - k)) % 2 = 1
\* DER of a named bit list: zero bits at the end are left out.
Octets(usages) ==
    IF usages = {} THEN <<>>
    ELSE [i \in 1 .. (Max(Bits(usages)) \div 8) + 1 |->
             CHOOSE octet \in 0 .. 255 : \A k \in 0 .. 7 :
                 OctetBit(octet, k) <=> 8 * (i - 1) + k \in Bits(usages)]
UnusedBits(usages) ==
    IF usages = {} THEN 0 ELSE 7 - (Max(Bits(usages)) % 8)

\* A fault of ShiftedBits: the unused bits stay.
ShiftedBitsWhole(octets, unused) == IF Len(octets) = 1 THEN octets[1] ELSE 0

\* Of one octet the octet; the reduction of several ends in a comma operator,
\* whose value is 0.
ShiftedBits(octets, unused) ==
    (IF Len(octets) = 1 THEN octets[1] ELSE 0) \div 2 ^ unused

\* The bits as text, from the left, padded to their number.
IsSet(shifted, nofBits, index) ==
    /\ index < nofBits
    /\ (shifted \div 2 ^ (nofBits - 1 - index)) % 2 = 1

AdaptKeyUsage(ext) ==
    LET octets == Octets(ext.grants)
        unused == UnusedBits(ext.grants)
        shifted == ShiftedBits(octets, unused)
    IN  [critical |-> FALSE,
         usages |-> IF octets = <<>>
                    THEN IF ext.critical THEN {"cRLSign"} ELSE {}
                    ELSE {u \in Usages : IsSet(shifted, 8 * Len(octets) - unused,
                                               KeyUsageBit[u])}]

----------------------------------------------------------------------------
(* Distinguished names. *)

Occurrences(name, attribute) ==
    {i \in 1 .. Len(name) : name[i].type = attribute}

\* A fault of AdaptDn: the name is kept as the library hands it over.
AdaptDnRaw(name) == name

\* Of every attribute the first value.
AdaptDn(name) ==
    [attribute \in Attributes |->
        IF Occurrences(name, attribute) = {} THEN NoValue
        ELSE name[Min(Occurrences(name, attribute))].value]

----------------------------------------------------------------------------
(* The other extensions. *)

AdaptBC(ext) == [CA |-> "CA" \in ext.grants, critical |-> ext.critical]
AdaptExtendedKeyUsage(ext) ==
    [critical |-> ext.critical, purposes |-> ext.grants \cap Purposes]

\* A fault of HexDigits: the high digit is lost.
HexDigitsLow(byte) == <<byte % 16>>
\* A byte below 16 has one digit.
HexDigits(byte) ==
    IF byte < 16 THEN <<byte>> ELSE <<byte \div 16, byte % 16>>
BufferToHex(bytes) == FlattenSeq([i \in DOMAIN bytes |-> HexDigits(bytes[i])])

AdaptExtension(ext) ==
    CASE ext.id = "basicConstraints" -> AdaptBC(ext)
      [] ext.id = "keyUsage"         -> AdaptKeyUsage(ext)
      [] ext.id = "keyUsageExtended" -> AdaptExtendedKeyUsage(ext)
      [] ext.id \in {"authorityKeyIdentifier", "subjectKeyIdentifier"} ->
             BufferToHex(ext.bytes)

WithId(exts, id) == {i \in DOMAIN exts : exts[i].id = id}

\* A fault of Keep: the first of a kind stays.
KeepFirst(kept, ext) ==
    [id \in DOMAIN kept \cup ({ext.id} \cap ExtensionIds) |->
        IF id \in DOMAIN kept THEN kept[id] ELSE AdaptExtension(ext)]
\* One extension more: it overwrites an earlier one of its kind, and is ignored if
\* its kind is not known.
Keep(kept, ext) ==
    [id \in DOMAIN kept \cup ({ext.id} \cap ExtensionIds) |->
        IF id = ext.id THEN AdaptExtension(ext) ELSE kept[id]]

----------------------------------------------------------------------------
(* The public key: its algorithm, and the curve or the length in octets if   *)
(* the library has parsed it as a key of one of the two kinds.               *)

AlgorithmLabel(algorithm) ==
    IF algorithm \in DOMAIN KeyAlgorithms THEN KeyAlgorithms[algorithm]
    ELSE algorithm
AdaptPublicKeyInfo(key) ==
    CASE key.curve # NoValue ->
             [algorithmId |-> AlgorithmLabel(key.algorithm), curve |-> key.curve]
      [] key.curve = NoValue /\ key.modulus # NoValue ->
             [algorithmId |-> AlgorithmLabel(key.algorithm),
              bitLength |-> 8 * key.modulus]
      [] OTHER -> [algorithmId |-> "UNKNOWN"]

----------------------------------------------------------------------------
\* The library has no value that its adapter could read something of, and the
\* adapter throws.  A value that is no ASN.1 is not there at all; of one that is,
\* but not as its kind should be, the library hands over an empty one, which reads
\* as one that grants nothing, except for an authority key identifier: without an
\* identifier it throws, be it ill-formed or by name and number.
Unreadable(ext) == ext.id \in ExtensionIds /\ ~ext.parsed

=============================================================================
