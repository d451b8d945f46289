-------------------------- MODULE CasTrustAnchors --------------------------
(***************************************************************************)
(* The trust anchors of the two layers that accept a client certificate.   *)
(* CertAssert.init reads the files of acceptedCAs once, for the chain      *)
(* check: each file becomes at most one anchor, and one that cannot be     *)
(* read as a certificate is left out.  CasServer.init reads the same files *)
(* again, joined by line ends, for the TLS listener, and does so at every  *)
(* start of the listeners.  Between the two, and after them, a file may be *)
(* replaced.                                                               *)
(*                                                                         *)
(* The text of a file is a sequence of its labels, the encoded             *)
(* certificates and other text; line ends are left out.                    *)
(***************************************************************************)
EXTENDS Naturals, SequencesExt

CONSTANTS
    Certs,          \* encoded certificates
    Adaptable,      \* those that fromDer makes a CasCert of
    Padded,         \* those whose base64 text ends in a padding sign
    Paths,          \* config.acceptedCAs, a sequence of distinct paths
    Texts,          \* what a file may hold
    Missing,        \* the file does not exist or cannot be opened
    MaxReplaced     \* bound on replacements of a file

Tokens == {"BEGIN", "END", "text"} \cup Certs

ASSUME AnchorsAssumption ==
    /\ Adaptable \subseteq Certs
    /\ Padded \subseteq Certs
    /\ Certs \cap {"BEGIN", "END", "text"} = {}
    /\ Paths \in Seq(Range(Paths))
    /\ Texts \subseteq Seq(Tokens)
    /\ Missing \notin Texts
    /\ MaxReplaced \in Nat

----------------------------------------------------------------------------
(* The chain check: one anchor of a file. *)

Has(text, label) == \E i \in DOMAIN text : text[i] = label
IndexOf(text, label) ==
    CHOOSE i \in DOMAIN text :
        text[i] = label /\ \A j \in 1 .. i - 1 : text[j] # label

\* A fault of NormalisePem: a text with both labels is kept as it is.
NormalisePemUncut(text) ==
    (IF Has(text, "BEGIN") THEN <<>> ELSE <<"BEGIN">>)
        \o text \o (IF Has(text, "END") THEN <<>> ELSE <<"END">>)

\* A label that is missing is added at its end of the text; with both, the text
\* is cut to what they enclose.  substring exchanges its arguments if the first
\* end label precedes the first begin label: what is between them remains.
NormalisePem(text) ==
    LET begin == IndexOf(text, "BEGIN")
        end == IndexOf(text, "END")
    IN  IF Has(text, "BEGIN") /\ Has(text, "END")
        THEN IF begin < end THEN SubSeq(text, begin, end)
             ELSE SubSeq(text, end + 1, begin - 1)
        ELSE (IF Has(text, "BEGIN") THEN <<>> ELSE <<"BEGIN">>)
                 \o text \o (IF Has(text, "END") THEN <<>> ELSE <<"END">>)

\* pemToDer decodes everything that is not a label, and stops at a padding
\* sign.  Bytes behind the certificate are part of what is hashed: the digest
\* of such an anchor is that of no certificate, as if there were none.
PemToDer(pem) ==
    {c \in Certs : \E i \in DOMAIN pem :
        /\ pem[i] = c
        /\ \A j \in DOMAIN pem \ {i} :
              pem[j] \in {"BEGIN", "END"} \/ (j > i /\ c \in Padded)}
FromRaw(text) == PemToDer(NormalisePem(text)) \cap Adaptable

\* A fault of InputAdaptCertArray: one file that fails costs them all.
InputAdaptCertArrayAllOrNone(files) ==
    IF \E i \in DOMAIN files : FromRaw(files[i]) = {} THEN {}
    ELSE UNION {FromRaw(files[i]) : i \in DOMAIN files}
\* Another: the results that are failures are kept.
InputAdaptCertArrayUnfiltered(files) ==
    UNION {IF FromRaw(files[i]) = {} THEN {"undefined"} ELSE FromRaw(files[i]) :
              i \in DOMAIN files}
\* A file without a certificate is filtered out.
InputAdaptCertArray(files) == UNION {FromRaw(files[i]) : i \in DOMAIN files}

----------------------------------------------------------------------------
(* The listener: Node takes the blocks of one text in order, passes over     *)
(* what is outside of them, and stops at the first it cannot read.           *)

IsBlock(text, i) ==
    /\ i + 2 <= Len(text)
    /\ text[i + 1] \in Certs
    /\ text[i + 2] = "END"
AddCACert(text) ==
    {text[i + 1] : i \in {k \in DOMAIN text :
        \A j \in 1 .. k : (text[j] = "BEGIN" \/ j = k) =>
                              text[j] = "BEGIN" /\ IsBlock(text, j)}}

----------------------------------------------------------------------------
VARIABLES
    disk,           \* the files
    stage,          \* of the process and its listener
    chainAnchors,   \* trustedAnchors of the chain check
    tlsAnchors,     \* ca of the listener that was started last
    seen,           \* per layer: the files when it was started, Missing before
    replaced        \* number of replacements

vars == <<disk, stage, chainAnchors, tlsAnchors, seen, replaced>>

Files == Range(Paths)
Contents == Texts \cup {Missing}

TypeOK ==
    /\ disk \in [Files -> Contents]
    /\ stage \in {"down", "booting", "up", "closed", "failed"}
    /\ chainAnchors \subseteq Certs
    /\ tlsAnchors \subseteq Certs
    /\ seen \in [{"chain", "tls"} -> [Files -> Contents]]
    /\ replaced \in 0 .. MaxReplaced

NothingSeen == [layer \in {"chain", "tls"} |-> [p \in Files |-> Missing]]

Init ==
    /\ disk \in [Files -> Contents]
    /\ stage = "down"
    /\ chainAnchors = {} /\ tlsAnchors = {}
    /\ seen = NothingSeen
    /\ replaced = 0

Readable == \A p \in Files : disk[p] # Missing
InOrder == [i \in DOMAIN Paths |-> disk[Paths[i]]]

\* CertAssert.init: readFileSync throws out of it if a file is missing.
InitApp ==
    /\ stage = "down"
    /\ IF Readable
       THEN /\ stage' = "booting"
            /\ chainAnchors' = InputAdaptCertArray(InOrder)
            /\ seen' = [seen EXCEPT !.chain = disk]
       ELSE stage' = "failed" /\ UNCHANGED <<chainAnchors, seen>>
    /\ UNCHANGED <<disk, tlsAnchors, replaced>>

\* A fault of Listen: the certificates of the last start are kept.
ListenCached ==
    /\ stage \in {"booting", "closed"}
    /\ IF Readable
       THEN /\ stage' = "up"
            /\ tlsAnchors' = IF stage = "closed" THEN tlsAnchors
                             ELSE AddCACert(FlattenSeq(InOrder))
            /\ seen' = [seen EXCEPT !.tls = disk]
       ELSE /\ stage' = IF stage = "booting" THEN "failed" ELSE "closed"
            /\ UNCHANGED <<tlsAnchors, seen>>
    /\ UNCHANGED <<disk, chainAnchors, replaced>>
\* CasServer.init, behind the promise of the provider at boot, where nobody
\* catches what it throws, or again by the owner of a closed server.
Listen ==
    /\ stage \in {"booting", "closed"}
    /\ IF Readable
       THEN /\ stage' = "up"
            /\ tlsAnchors' = AddCACert(FlattenSeq(InOrder))
            /\ seen' = [seen EXCEPT !.tls = disk]
       ELSE /\ stage' = IF stage = "booting" THEN "failed" ELSE "closed"
            /\ UNCHANGED <<tlsAnchors, seen>>
    /\ UNCHANGED <<disk, chainAnchors, replaced>>

\* CasServer.close.
Close ==
    /\ stage = "up"
    /\ stage' = "closed"
    /\ UNCHANGED <<disk, chainAnchors, tlsAnchors, seen, replaced>>

\* The process ends and is started again.
Restart ==
    /\ stage # "down"
    /\ stage' = "down"
    /\ chainAnchors' = {} /\ tlsAnchors' = {}
    /\ seen' = NothingSeen
    /\ UNCHANGED <<disk, replaced>>

\* The owner replaces a file, or removes it.
Replace(p, content) ==
    /\ replaced < MaxReplaced
    /\ disk[p] # content
    /\ disk' = [disk EXCEPT ![p] = content]
    /\ replaced' = replaced + 1
    /\ UNCHANGED <<stage, chainAnchors, tlsAnchors, seen>>

Next ==
    \/ InitApp \/ Listen \/ Close \/ Restart
    \/ \E p \in Files, content \in Contents : Replace(p, content)

Spec == Init /\ [][Next]_vars

----------------------------------------------------------------------------
(* Properties *)

Labelled(text, c) ==
    \E i \in DOMAIN text :
        text[i] = "BEGIN" /\ IsBlock(text, i) /\ text[i + 1] = c
\* One labelled certificate, with nothing but text around it.
Holds(text, c) ==
    \E i \in DOMAIN text :
        /\ text[i] = "BEGIN" /\ IsBlock(text, i) /\ text[i + 1] = c
        /\ \A j \in DOMAIN text : text[j] # "text" => j \in i .. i + 2
\* A block that Node cannot read.
Damaged(text) ==
    \E i \in DOMAIN text : text[i] = "BEGIN" /\ ~IsBlock(text, i)

Booted == stage \in {"booting", "up", "closed"}

\* A file that holds one certificate at the boot gives the chain check its anchor,
\* whatever the other files hold and whatever becomes of them: fromRaw fails for one
\* file, and inputAdaptCertArray leaves that file out.
DamageIsLocal ==
    Booted => \A p \in Files, c \in Certs :
                  Holds(seen.chain[p], c) /\ c \in Adaptable => c \in chainAnchors

\* Where the chain check reads a certificate without labels around it: before the
\* first begin label, and, if there is one, behind an end label.
Bare(text, c) ==
    \E i \in DOMAIN text :
        /\ text[i] = c
        /\ ~Has(SubSeq(text, 1, i), "BEGIN")
        /\ Has(text, "BEGIN") => Has(SubSeq(text, 1, i), "END")

\* What the chain check trusts and a running listener does not stood at the boot in a
\* file that was another when the listener was started again, or was the same and is
\* read otherwise: in or behind a file with a block that cannot be read (Node
\* ignores that and all the rest), or without a begin label before it, where the
\* labels are added, or the exchange in substring lets the text between an end label
\* and the begin label behind it remain.
ChainTrustsMore ==
    stage = "up" => \A c \in chainAnchors \ tlsAnchors :
        \E n \in DOMAIN Paths :
            LET text == seen.chain[Paths[n]]
            IN  /\ Has(text, c)
                /\ \/ seen.tls[Paths[n]] # text
                   \/ Bare(text, c)
                   \/ \E m \in 1 .. n : Damaged(seen.tls[Paths[m]])

\* What a running listener trusts and the chain check does not is in a file that has
\* come since the boot, or that was there and holds something else besides, or it is a
\* certificate that cannot be adapted.  It has its labels there, or a file up to it
\* is cut, so that a label of the one ends up beside the certificate of the other.
ListenerTrustsMore ==
    stage = "up" => \A c \in tlsAnchors \ chainAnchors :
        \E n \in DOMAIN Paths :
            LET text == seen.tls[Paths[n]]
            IN  /\ Has(text, c)
                /\ \/ Labelled(text, c)
                   \/ \E m \in 1 .. n : Damaged(seen.tls[Paths[m]])
                /\ \/ seen.chain[Paths[n]] # text
                   \/ ~Holds(text, c)
                   \/ c \notin Adaptable

\* What a layer trusts is in one of the files it has read.
TrustIsRead ==
    /\ \A c \in chainAnchors : \E p \in Files : Has(seen.chain[p], c)
    /\ \A c \in tlsAnchors : \E p \in Files : Has(seen.tls[p], c)

=============================================================================
