--------------------------- MODULE CasCertFields ---------------------------
(***************************************************************************)
(* From a certificate to the claims about its owner: the reading of it by  *)
(* fromDer, extension by extension, the storing of the adapted certificate *)
(* at login, and the claims that findAccount makes from it for the scopes  *)
(* of a token.                                                             *)
(***************************************************************************)
EXTENDS CasCommonAdaptor

CONSTANTS
    ClientCerts     \* certificates as the ASN.1 library hands them over

Scopes == {"profile", "email"}

ASSUME CertFieldsAssumption ==
    \A cert \in ClientCerts :
        /\ \A name \in {cert.subject, cert.issuer} :
              /\ name \in Seq(Range(name))
              /\ \A i \in 1 .. Len(name) : name[i].value # NoValue
        /\ cert.extensions \in Seq(Range(cert.extensions))
        /\ \A i \in DOMAIN cert.extensions :
              LET ext == cert.extensions[i]
              IN  /\ ext.critical \in BOOLEAN /\ ext.parsed \in BOOLEAN
                  /\ ext.id = "keyUsage" => ext.grants \subseteq Usages
                  /\ ext.bytes \in Seq(0 .. 255)

VARIABLES
    cert,           \* the client certificate
    next,           \* the extension to be read next, 0 if fromDer is not running
    kept,           \* the extensions adapted so far
    adapted,        \* the certificate of the request, or NoCert
    stored,         \* what the store holds of it, or NoCert
    answer          \* the last claims, and the scopes they were made for

fieldsVars == <<cert, next, kept, adapted, stored, answer>>

NoCert == [subject |-> NoValue]
NoSubject == [attribute \in {} |-> NoValue]
NoAnswer == [scope |-> {}, known |-> FALSE, claims |-> NoSubject]
NothingKept == [id \in {} |-> NoValue]
Values == {NoValue} \cup UNION {{c.subject[i].value : i \in 1 .. Len(c.subject)} :
                                   c \in ClientCerts}
Subjects == [Attributes -> Values]

FieldsTypeOK ==
    /\ cert \in ClientCerts
    /\ next \in 0 .. Len(cert.extensions) + 1
    /\ DOMAIN kept \subseteq ExtensionIds
    /\ \A c \in {adapted, stored} : c = NoCert \/ c.subject \in Subjects
    /\ answer.scope \subseteq Scopes /\ answer.known \in BOOLEAN
    /\ answer.claims \in Subjects \cup {NoSubject}

FieldsInit ==
    /\ cert \in ClientCerts
    /\ next = 0
    /\ kept = NothingKept
    /\ adapted = NoCert /\ stored = NoCert
    /\ answer = NoAnswer

\* A request comes in, and fromDer is called with its certificate.
AdaptStart ==
    /\ next = 0
    /\ next' = 1
    /\ kept' = NothingKept
    /\ adapted' = NoCert
    /\ UNCHANGED <<cert, stored, answer>>

AdaptNext ==
    /\ next \in DOMAIN cert.extensions
    /\ ~Unreadable(cert.extensions[next])
    /\ kept' = Keep(kept, cert.extensions[next])
    /\ next' = next + 1
    /\ UNCHANGED <<cert, adapted, stored, answer>>

\* A fault of AdaptThrows: the error is caught within the loop, which goes on.
AdaptThrowsCaught ==
    /\ next \in DOMAIN cert.extensions
    /\ Unreadable(cert.extensions[next])
    /\ next' = next + 1
    /\ UNCHANGED <<cert, kept, adapted, stored, answer>>

\* The error leaves the loop and is caught by fromDer: there are failureDetails, and
\* no certificate.
AdaptThrows ==
    /\ next \in DOMAIN cert.extensions
    /\ Unreadable(cert.extensions[next])
    /\ next' = 0
    /\ kept' = NothingKept
    /\ UNCHANGED <<cert, adapted, stored, answer>>

AdaptDone ==
    /\ next = Len(cert.extensions) + 1
    /\ adapted' = [subject |-> AdaptDn(cert.subject),
                   issuer |-> AdaptDn(cert.issuer),
                   extensions |-> kept,
                   publicKeyInfo |-> AdaptPublicKeyInfo(cert.key)]
    /\ next' = 0
    /\ kept' = NothingKept
    /\ UNCHANGED <<cert, stored, answer>>

\* putCert of the adapted certificate.
Login ==
    /\ next = 0 /\ adapted # NoCert
    /\ stored' = adapted
    /\ UNCHANGED <<cert, next, kept, adapted, answer>>

\* The server is started anew: the store is in memory.
Forget ==
    /\ next' = 0
    /\ kept' = NothingKept
    /\ adapted' = NoCert /\ stored' = NoCert
    /\ answer' = NoAnswer
    /\ UNCHANGED cert

Claims(subject, scope) ==
    [attribute \in Attributes |->
        IF attribute = "emailAddress"
        THEN IF "email" \in scope THEN subject[attribute] ELSE NoValue
        ELSE IF "profile" \in scope THEN subject[attribute] ELSE NoValue]

\* A fault of FindAccount: the claims are the stored subject itself, and the
\* address is deleted from it.
FindAccountAliased(scope) ==
    /\ next = 0
    /\ answer' = [scope |-> scope, known |-> stored # NoCert,
                  claims |-> IF stored = NoCert THEN NoSubject
                             ELSE Claims(stored.subject, scope)]
    /\ stored' = IF stored # NoCert /\ "profile" \in scope
                 THEN [stored EXCEPT !.subject.emailAddress = NoValue] ELSE stored
    /\ UNCHANGED <<cert, next, kept, adapted>>

\* findAccount(...).claims: nothing but sub if the certificate is not known.
FindAccount(scope) ==
    /\ next = 0
    /\ answer' = [scope |-> scope, known |-> stored # NoCert,
                  claims |-> IF stored = NoCert THEN NoSubject
                             ELSE Claims(stored.subject, scope)]
    /\ UNCHANGED <<cert, next, kept, adapted, stored>>

FieldsNext ==
    \/ AdaptStart \/ AdaptNext \/ AdaptThrows \/ AdaptDone
    \/ Login \/ Forget
    \/ \E scope \in SUBSET Scopes : FindAccount(scope)

FieldsSpec == FieldsInit /\ [][FieldsNext]_fieldsVars

----------------------------------------------------------------------------
(* Properties *)

Exts(id) == {cert.extensions[i] : i \in WithId(cert.extensions, id)}

\* A key usage whose bits fit into one octet is read as it was written, whatever
\* the number of its unused bits and whatever stands beside it.
OneOctetRead ==
    stored # NoCert => \A usage \in Exts("keyUsage") :
        (/\ Exts("keyUsage") = {usage}
         /\ usage.grants # {} /\ "decipherOnly" \notin usage.grants) =>
            stored.extensions["keyUsage"].usages = usage.grants

\* What the loop over the extensions leaves behind is what a reader of the whole
\* certificate would keep: of every known kind that is there the last, adapted, of
\* no other kind anything, and all of them could be read.  A certificate of which
\* an extension could not be read is not stored without it, wherever in the list it
\* stands and whatever was adapted before it.
StoredWhole ==
    stored # NoCert =>
        \A id \in ExtensionIds :
            /\ \A ext \in Exts(id) : ext.parsed
            /\ id \in DOMAIN stored.extensions <=> Exts(id) # {}
            /\ \A i \in WithId(cert.extensions, id) :
                  \/ \E j \in WithId(cert.extensions, id) : j > i
                  \/ stored.extensions[id] = AdaptExtension(cert.extensions[i])

\* The texts of the two key identifiers of a certificate that has one of each are
\* equal only if the identifiers are, unless a byte of them is below 16 and was
\* left unpadded.
IdentifiersTold ==
    stored # NoCert =>
        \A a \in Exts("authorityKeyIdentifier"),
           s \in Exts("subjectKeyIdentifier") :
            \/ Exts(a.id) # {a} \/ Exts(s.id) # {s}
            \/ a.bytes = s.bytes
            \/ stored.extensions[a.id] # stored.extensions[s.id]
            \/ \E ext \in {a, s} : \E i \in DOMAIN ext.bytes : ext.bytes[i] < 16

\* What a token releases depends on its scopes and on the certificate alone:
\* not on what was asked before, which works on copies of the stored subject.
\* The address is a claim of the email scope, the rest are those of profile.
ClaimsFollowScope ==
    answer.known =>
        \A attribute \in Attributes :
            answer.claims[attribute] =
                IF (IF attribute = "emailAddress" THEN "email" ELSE "profile")
                       \in answer.scope
                THEN AdaptDn(cert.subject)[attribute]
                ELSE NoValue

=============================================================================
