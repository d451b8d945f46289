---------------------- MODULE CasDataAdaptationProofs ----------------------
(***************************************************************************)
(* What the adapters keep, whatever is handed to them.  Of the trusted     *)
(* files: every anchor that a file gives, whatever the others hold, and    *)
(* where the two layers that read them differ.  Of a certificate: all of   *)
(* it or nothing, texts of identifiers that tell them apart, and claims by *)
(* the scopes alone.                                                       *)
(***************************************************************************)
EXTENDS CasTrustAnchors, CasCertFields, TLAPS, SequenceTheorems,
        WellFoundedInduction

----------------------------------------------------------------------------
(* Trust anchors (CasTrustAnchors). *)

\* Every variable stays within its type.
THEOREM TypeCorrect == Spec => []TypeOK
<1>1. Init => TypeOK
  BY AnchorsAssumption DEF Init, TypeOK, NothingSeen, Contents
<1>2. TypeOK /\ [Next]_vars => TypeOK'
  <2> SUFFICES ASSUME TypeOK, [Next]_vars
               PROVE  TypeOK'
    OBVIOUS
  <2> USE DEF TypeOK
  <2>1. CASE InitApp
    <3>1. InputAdaptCertArray(InOrder) \subseteq Certs
      BY DEF InputAdaptCertArray, FromRaw, PemToDer
    <3> QED
      BY <2>1, <3>1 DEF InitApp
  <2>2. CASE Listen
    <3>1. AddCACert(FlattenSeq(InOrder)) \subseteq Certs
      <4> DEFINE text == FlattenSeq(InOrder)
      <4> HIDE DEF TypeOK
      <4> SUFFICES ASSUME NEW c \in AddCACert(text)
                   PROVE  c \in Certs
        OBVIOUS
      <4>1. PICK k \in DOMAIN text :
              /\ c = text[k + 1]
              /\ \A j \in 1 .. k : (text[j] = "BEGIN" \/ j = k) =>
                                      text[j] = "BEGIN" /\ IsBlock(text, j)
        BY DEF AddCACert
      <4> QED
        BY <4>1 DEF IsBlock
    <3> QED
      BY <2>2, <3>1 DEF Listen
  <2>3. CASE Close
    BY <2>3 DEF Close
  <2>4. CASE Restart
    BY <2>4 DEF Restart, NothingSeen, Contents
  <2>5. ASSUME NEW p \in Files, NEW content \in Contents, Replace(p, content)
        PROVE  TypeOK'
    BY <2>5, AnchorsAssumption DEF Replace
  <2>6. CASE UNCHANGED vars
    BY <2>6 DEF vars
  <2> QED
    BY <2>1, <2>2, <2>3, <2>4, <2>5, <2>6 DEF Next
<1> QED
  BY <1>1, <1>2, PTL DEF Spec


----------------------------------------------------------------------------
\* Three tokens of a text.
LEMMA Slice ==
    ASSUME NEW S, NEW text \in Seq(S),
           NEW i \in Nat, i >= 1, i + 2 <= Len(text)
    PROVE  LET slice == SubSeq(text, i, i + 2)
           IN  /\ DOMAIN slice = 1 .. 3
               /\ slice[1] = text[i]
               /\ slice[2] = text[i + 1]
               /\ slice[3] = text[i + 2]
<1> DEFINE slice == SubSeq(text, i, i + 2)
<1>0. i <= i + 2 /\ (i + 2) - i + 1 = 3
  OBVIOUS
<1>1. i \in Int /\ i + 2 \in Int /\ \A j \in i .. i + 2 : text[j] \in S
  OBVIOUS
<1>2. slice \in Seq(S) /\ Len(slice) = 3
  BY <1>0, <1>1, SubSeqProperties
<1>3. \A j \in 1 .. 3 : slice[j] = text[i + j - 1]
  BY <1>0, <1>1, SubSeqProperties
<1>4. DOMAIN slice = 1 .. 3
  BY <1>2
<1>5. slice[1] = text[i + 1 - 1] /\ slice[2] = text[i + 2 - 1]
      /\ slice[3] = text[i + 3 - 1]
  BY <1>3
<1>6. i + 1 - 1 = i /\ i + 2 - 1 = i + 1 /\ i + 3 - 1 = i + 2
  OBVIOUS
<1> QED
  BY <1>4, <1>5, <1>6

\* What the chain check makes of a file that holds one certificate.
LEMMA CanonicalIsRead ==
    ASSUME NEW text \in Seq(Tokens), NEW c \in Certs, Holds(text, c)
    PROVE  c \in PemToDer(NormalisePem(text))
<1>1. PICK i \in DOMAIN text :
        /\ text[i] = "BEGIN" /\ IsBlock(text, i) /\ text[i + 1] = c
        /\ \A j \in DOMAIN text : text[j] # "text" => j \in i .. i + 2
  BY DEF Holds
<1>2. i \in Nat /\ i >= 1 /\ i + 2 <= Len(text) /\ text[i + 2] = "END"
  BY <1>1 DEF IsBlock
<1>3. c # "BEGIN" /\ c # "END" /\ c # "text"
  BY AnchorsAssumption
<1>4. /\ i + 1 \in DOMAIN text /\ i + 2 \in DOMAIN text
      /\ DOMAIN text = 1 .. Len(text)
  BY <1>2
<1>5. \A j \in DOMAIN text : text[j] = "BEGIN" => j = i
  BY <1>1, <1>2, <1>3, <1>4
<1>6. \A j \in DOMAIN text : text[j] = "END" => j = i + 2
  BY <1>1, <1>2, <1>3, <1>4
<1>7. IndexOf(text, "BEGIN") = i
  <2>1. \A j \in 1 .. i - 1 : text[j] # "BEGIN"
    BY <1>2, <1>4, <1>5
  <2> QED
    BY <1>1, <1>5, <2>1 DEF IndexOf
<1>8. IndexOf(text, "END") = i + 2
  <2>1. \A j \in 1 .. (i + 2) - 1 : text[j] # "END"
    BY <1>2, <1>4, <1>6
  <2> QED
    BY <1>2, <1>4, <1>6, <2>1 DEF IndexOf
<1> DEFINE pem == SubSeq(text, i, i + 2)
<1>9. NormalisePem(text) = pem
  <2>1. Has(text, "BEGIN") /\ Has(text, "END") /\ i < i + 2
    BY <1>1, <1>2, <1>4 DEF Has
  <2> QED
    BY <2>1, <1>7, <1>8, Zenon DEF NormalisePem
<1>10. DOMAIN pem = 1 .. 3 /\ pem[1] = "BEGIN" /\ pem[2] = c /\ pem[3] = "END"
  BY <1>1, <1>2, Slice
<1> HIDE DEF pem
<1>11. \A j \in DOMAIN pem \ {2} : pem[j] \in {"BEGIN", "END"}
  BY <1>10
<1> QED
  BY <1>9, <1>10, <1>11 DEF PemToDer

\* What the layers hold is what they made of the files they have seen.
SeenBy(layer) == [i \in DOMAIN Paths |-> seen[layer][Paths[i]]]
AllThere(layer) == \A p \in Files : seen[layer][p] # Missing
AnchorsAreRead ==
    /\ chainAnchors # {} \/ Booted =>
          AllThere("chain") /\ chainAnchors = InputAdaptCertArray(SeenBy("chain"))
    /\ tlsAnchors # {} \/ stage = "up" =>
          AllThere("tls") /\ tlsAnchors = AddCACert(FlattenSeq(SeenBy("tls")))

\* Each layer's anchors are a function of the files as it read them, whatever is
\* replaced, closed and started again since.
LEMMA AnchorsStayRead == Spec => []AnchorsAreRead
<1>1. Init => AnchorsAreRead
  BY DEF Init, AnchorsAreRead, Booted
<1>2. TypeOK /\ AnchorsAreRead /\ [Next]_vars => AnchorsAreRead'
  <2> SUFFICES ASSUME TypeOK, AnchorsAreRead, [Next]_vars
               PROVE  AnchorsAreRead'
    OBVIOUS
  <2>0. \A layer \in {"chain", "tls"} :
          seen'[layer] = seen[layer] =>
              SeenBy(layer)' = SeenBy(layer) /\ AllThere(layer)' = AllThere(layer)
    BY DEF SeenBy, AllThere
  <2>1. CASE InitApp
    <3>1. CASE Readable
      <4>1. /\ stage' = "booting" /\ chainAnchors' = InputAdaptCertArray(InOrder)
            /\ seen'["chain"] = disk /\ seen'["tls"] = seen["tls"]
            /\ tlsAnchors' = tlsAnchors
        BY <2>1, <3>1 DEF InitApp, TypeOK
      <4>2. SeenBy("chain")' = InOrder /\ AllThere("chain")'
        BY <3>1, <4>1 DEF SeenBy, AllThere, InOrder, Readable
      <4>3. Booted'
        BY <4>1 DEF Booted
      <4> QED
        BY <2>0, <4>1, <4>2, <4>3 DEF AnchorsAreRead
    <3>2. CASE ~Readable
      <4>1. /\ stage = "down" /\ stage' = "failed"
            /\ UNCHANGED <<chainAnchors, tlsAnchors, seen>>
        BY <2>1, <3>2 DEF InitApp
      <4> QED
        BY <2>0, <4>1 DEF AnchorsAreRead, Booted
    <3> QED
      BY <3>1, <3>2
  <2>2. CASE Listen
    <3>1. chainAnchors' = chainAnchors /\ Booted
      BY <2>2 DEF Listen, Booted
    <3>2. CASE Readable
      <4>1. /\ stage' = "up" /\ tlsAnchors' = AddCACert(FlattenSeq(InOrder))
            /\ seen'["tls"] = disk /\ seen'["chain"] = seen["chain"]
        BY <2>2, <3>2 DEF Listen, TypeOK
      <4>2. SeenBy("tls")' = InOrder /\ AllThere("tls")'
        BY <3>2, <4>1 DEF SeenBy, AllThere, InOrder, Readable
      <4>3. Booted'
        BY <4>1 DEF Booted
      <4> QED
        BY <2>0, <3>1, <4>1, <4>2, <4>3 DEF AnchorsAreRead
    <3>3. CASE ~Readable
      <4>1. /\ stage' = IF stage = "booting" THEN "failed" ELSE "closed"
            /\ stage' # "up" /\ UNCHANGED <<tlsAnchors, seen>>
        BY <2>2, <3>3 DEF Listen
      <4> QED
        BY <2>0, <3>1, <4>1 DEF AnchorsAreRead, Booted
    <3> QED
      BY <3>2, <3>3
  <2>3. CASE Close
    <3>1. /\ UNCHANGED <<chainAnchors, tlsAnchors, seen>>
          /\ stage = "up" /\ stage' = "closed"
      BY <2>3 DEF Close
    <3> QED
      BY <2>0, <3>1 DEF AnchorsAreRead, Booted
  <2>4. CASE Restart
    BY <2>4 DEF Restart, AnchorsAreRead, Booted
  <2>5. ASSUME NEW p \in Files, NEW content \in Contents, Replace(p, content)
        PROVE  AnchorsAreRead'
    <3>1. UNCHANGED <<stage, chainAnchors, tlsAnchors, seen>>
      BY <2>5 DEF Replace
    <3> QED
      BY <2>0, <3>1 DEF AnchorsAreRead, Booted
  <2>6. CASE UNCHANGED vars
    <3>1. UNCHANGED <<stage, chainAnchors, tlsAnchors, seen>>
      BY <2>6 DEF vars
    <3> QED
      BY <2>0, <3>1 DEF AnchorsAreRead, Booted
  <2> QED
    BY <2>1, <2>2, <2>3, <2>4, <2>5, <2>6 DEF Next
<1> QED
  BY <1>1, <1>2, TypeCorrect, PTL DEF Spec

\* The files as a layer has seen them.
LEMMA FilesRead ==
    ASSUME TypeOK, NEW layer \in {"chain", "tls"}, AllThere(layer)
    PROVE  /\ SeenBy(layer) \in Seq(Seq(Tokens))
           /\ DOMAIN SeenBy(layer) = DOMAIN Paths
           /\ \A n \in DOMAIN Paths : /\ Paths[n] \in Files
                                      /\ SeenBy(layer)[n] = seen[layer][Paths[n]]
           /\ \A p \in Files : seen[layer][p] \in Seq(Tokens)
<1>1. /\ DOMAIN Paths = 1 .. Len(Paths) /\ Len(Paths) \in Nat
      /\ \A n \in DOMAIN Paths : Paths[n] \in Files
  BY AnchorsAssumption DEF Files, Range
<1>2. \A p \in Files : seen[layer][p] \in Seq(Tokens)
  BY AnchorsAssumption DEF TypeOK, AllThere, Contents
<1>3. SeenBy(layer) \in [1 .. Len(Paths) -> Seq(Tokens)]
  BY <1>1, <1>2 DEF SeenBy
<1> QED
  BY <1>1, <1>2, <1>3 DEF SeenBy

\* A file that holds one certificate at the boot gives the chain check its anchor,
\* whatever becomes of it and of the other files.
THEOREM DamageStaysLocal == Spec => []DamageIsLocal
<1>1. TypeOK /\ AnchorsAreRead => DamageIsLocal
  <2> SUFFICES ASSUME TypeOK, AnchorsAreRead, Booted, NEW p \in Files,
                      NEW c \in Certs, Holds(seen.chain[p], c), c \in Adaptable
               PROVE  c \in chainAnchors
    BY DEF DamageIsLocal
  <2>1. AllThere("chain") /\ chainAnchors = InputAdaptCertArray(SeenBy("chain"))
    BY DEF AnchorsAreRead
  <2>2. seen.chain[p] \in Seq(Tokens)
    BY <2>1, FilesRead
  <2>3. c \in FromRaw(seen.chain[p])
    BY <2>2, CanonicalIsRead DEF FromRaw
  <2>4. PICK n \in DOMAIN Paths : p = Paths[n]
    BY DEF Files, Range
  <2>5. n \in DOMAIN SeenBy("chain") /\ SeenBy("chain")[n] = seen.chain[p]
    BY <2>4 DEF SeenBy
  <2> QED
    BY <2>1, <2>3, <2>5 DEF InputAdaptCertArray
<1> QED
  BY <1>1, TypeCorrect, AnchorsStayRead, PTL

----------------------------------------------------------------------------
\* A set that has 1 and, with a number below n, the next one, has all of 1 .. n.
LEMMA UpTo ==
    ASSUME NEW n \in Nat, NEW T, 1 \in T,
           \A m \in 1 .. n - 1 : m \in T => m + 1 \in T
    PROVE  1 .. n \subseteq T
<1> DEFINE R == OpToRel(<, Nat)
           Out == 1 .. n \ T
<1>1. IsWellFoundedOn(R, Nat)
  BY NatLessThanWellFounded
<1>2. \A x, y \in Nat : y < x => <<y, x>> \in R
  BY DEF OpToRel
<1> SUFFICES ASSUME Out # {}
             PROVE  FALSE
  OBVIOUS
<1>3. Out \subseteq Nat
  OBVIOUS
<1> HIDE DEF R
<1>4. PICK m \in Out : \A k \in Out : ~(<<k, m>> \in R)
  <2> HIDE DEF Out
  <2> QED
    BY <1>1, <1>3, WFMin
<1>5. m - 1 \in 1 .. n - 1 /\ m - 1 < m /\ (m - 1) + 1 = m
  OBVIOUS
<1>6. m - 1 \notin T
  OBVIOUS
<1>7. m - 1 \in Out
  BY <1>5, <1>6
<1>8. m \in Nat /\ m - 1 \in Nat
  OBVIOUS
<1> QED
  <2> HIDE DEF Out
  <2> QED
    BY <1>2, <1>4, <1>5, <1>7, <1>8

\* What FlattenSeq computes: the text after each of the sequences.
Joining(seqs, F, n) ==
    [i \in 1 .. n |-> IF i = 1 THEN seqs[i] ELSE F[i - 1] \o seqs[i]]

\* There is such a function, for any number of sequences.
LEMMA JoiningExists ==
    ASSUME NEW seqs, NEW n \in Nat \ {0}
    PROVE  \E F : F = Joining(seqs, F, n)
<1> DEFINE T == {k \in 1 .. n : \E F : F = Joining(seqs, F, k)}
<1>1. 1 \in T
  <2> DEFINE F == [i \in 1 .. 1 |-> seqs[i]]
  <2>1. F = Joining(seqs, F, 1)
    BY DEF Joining
  <2> QED
    BY <2>1
<1>2. ASSUME NEW m \in 1 .. n - 1, m \in T
      PROVE  m + 1 \in T
  <2>1. PICK G : G = Joining(seqs, G, m)
    BY <1>2
  <2> DEFINE F == [i \in 1 .. m + 1 |-> IF i = m + 1 THEN G[m] \o seqs[i] ELSE G[i]]
  <2>2. \A i \in 1 .. m :
            G[i] = IF i = 1 THEN seqs[i] ELSE G[i - 1] \o seqs[i]
    <3> DEFINE J == Joining(seqs, G, m)
    <3>1. \A i \in 1 .. m :
             J[i] = IF i = 1 THEN seqs[i] ELSE G[i - 1] \o seqs[i]
      BY DEF Joining
    <3> HIDE DEF J
    <3> QED
      BY <2>1, <3>1 DEF J
  <2>3. \A i \in 1 .. m : i \in 1 .. m + 1 /\ i # m + 1 /\ F[i] = G[i]
    OBVIOUS
  <2>4. F[m + 1] = F[m] \o seqs[m + 1]
    <3>1. m + 1 \in 1 .. m + 1 /\ m \in 1 .. m
      OBVIOUS
    <3>2. F[m + 1] = G[m] \o seqs[m + 1]
      BY <3>1
    <3> HIDE DEF F
    <3> QED
      BY <2>3, <3>1, <3>2
  <2>5. \A i \in 1 .. m + 1 :
            F[i] = IF i = 1 THEN seqs[i] ELSE F[i - 1] \o seqs[i]
    <3> SUFFICES ASSUME NEW i \in 1 .. m + 1
                 PROVE  F[i] = IF i = 1 THEN seqs[i] ELSE F[i - 1] \o seqs[i]
      OBVIOUS
    <3>1. CASE i = m + 1
      <4>1. i # 1 /\ i - 1 = m
        BY <3>1
      <4> HIDE DEF F
      <4> QED
        BY <2>4, <3>1, <4>1
    <3>2. CASE i # m + 1
      <4>1. i \in 1 .. m /\ (i # 1 => i - 1 \in 1 .. m)
        BY <3>2
      <4> HIDE DEF F
      <4> QED
        BY <2>2, <2>3, <4>1
    <3> QED
      BY <3>1, <3>2
  <2>6. F = Joining(seqs, F, m + 1)
    <3>1. F = [i \in 1 .. m + 1 |-> F[i]]
      OBVIOUS
    <3> HIDE DEF F
    <3> QED
      BY <2>5, <3>1 DEF Joining
  <2> QED
    BY <2>6
<1>3. 1 .. n \subseteq T
  <2> HIDE DEF T
  <2> QED
    BY <1>1, <1>2, UpTo
<1> QED
  BY <1>3

\* FlattenSeq is the last of what is joined (adaptCACerts, bufferToHex).
LEMMA Flattening ==
    ASSUME NEW seqs, Len(seqs) \in Nat \ {0}
    PROVE  \E F : /\ F = Joining(seqs, F, Len(seqs))
                  /\ FlattenSeq(seqs) = F[Len(seqs)]
<1> DEFINE C == CHOOSE F : F = Joining(seqs, F, Len(seqs))
<1>1. C = Joining(seqs, C, Len(seqs))
  BY JoiningExists
<1>2. FlattenSeq(seqs) = C[Len(seqs)]
  BY DEF FlattenSeq, Joining
<1> QED
  BY <1>1, <1>2

\* A position of a part is one of the whole.
LEMMA Within ==
    ASSUME NEW a \in Nat, NEW b \in Nat, NEW c \in Nat, a + b <= c,
           NEW i \in 1 .. b
    PROVE  a + i \in 1 .. c
OBVIOUS

\* The parts up to m, where they start in what is joined of them.
PlacedUpTo(S, seqs, F, start, m) ==
    /\ F[m] \in Seq(S)
    /\ Len(F[m]) = start[m] + Len(seqs[m])
    /\ \A n \in 1 .. m : /\ start[n] \in Nat
                         /\ start[n] + Len(seqs[n]) <= Len(F[m])
    /\ \A n \in 1 .. m : \A i \in 1 .. Len(seqs[n]) :
          F[m][start[n] + i] = seqs[n][i]
    /\ \A k \in 1 .. Len(F[m]) :
          \E n \in 1 .. m : \E i \in 1 .. Len(seqs[n]) : k = start[n] + i

\* Where the parts of a joined text start: the tokens of each part are there in
\* their order, part after part, and there are no others.
LEMMA JoinedText ==
    ASSUME NEW S, NEW seqs \in Seq(Seq(S)), seqs # <<>>
    PROVE  \E start \in [1 .. Len(seqs) -> Nat] :
              /\ FlattenSeq(seqs) \in Seq(S)
              /\ \A n \in 1 .. Len(seqs) : \A i \in 1 .. Len(seqs[n]) :
                    /\ start[n] + i \in DOMAIN FlattenSeq(seqs)
                    /\ FlattenSeq(seqs)[start[n] + i] = seqs[n][i]
              /\ \A k \in DOMAIN FlattenSeq(seqs) :
                    \E n \in 1 .. Len(seqs) : \E i \in 1 .. Len(seqs[n]) :
                        k = start[n] + i
              /\ \A n, m \in 1 .. Len(seqs) :
                    n < m => start[n] + Len(seqs[n]) <= start[m]
<1> DEFINE L == Len(seqs)
<1>1. L \in Nat \ {0} /\ \A n \in 1 .. L : seqs[n] \in Seq(S)
  OBVIOUS
<1>2. PICK F : F = Joining(seqs, F, L) /\ FlattenSeq(seqs) = F[L]
  BY <1>1, Flattening
<1>3. \A n \in 1 .. L : F[n] = IF n = 1 THEN seqs[n] ELSE F[n - 1] \o seqs[n]
  <2> DEFINE J == Joining(seqs, F, L)
  <2>1. \A n \in 1 .. L : J[n] = IF n = 1 THEN seqs[n] ELSE F[n - 1] \o seqs[n]
    BY DEF Joining
  <2> HIDE DEF J
  <2> QED
    BY <1>2, <2>1 DEF J
<1>4. F[1] = seqs[1]
  BY <1>1, <1>3
<1>5. \A n \in 1 .. L - 1 : F[n + 1] = F[n] \o seqs[n + 1]
  <2> SUFFICES ASSUME NEW n \in 1 .. L - 1
               PROVE  F[n + 1] = F[n] \o seqs[n + 1]
    OBVIOUS
  <2>1. n + 1 \in 1 .. L /\ n + 1 # 1 /\ (n + 1) - 1 = n
    BY <1>1
  <2> QED
    BY <1>3, <2>1
<1> DEFINE start == [n \in 1 .. L |-> IF n = 1 THEN 0 ELSE Len(F[n - 1])]
           Placed(m) == PlacedUpTo(S, seqs, F, start, m)
           T == {m \in 1 .. L : Placed(m)}
<1>6. start[1] = 0 /\ \A n \in 1 .. L - 1 : start[n + 1] = Len(F[n])
  <2>1. 1 \in 1 .. L /\ \A n \in 1 .. L - 1 :
            n + 1 \in 1 .. L /\ n + 1 # 1 /\ (n + 1) - 1 = n
    BY <1>1
  <2> QED
    BY <2>1
<1> HIDE DEF start
<1>7. 1 \in T
  <2>1. 1 \in 1 .. L /\ seqs[1] \in Seq(S) /\ Len(seqs[1]) \in Nat
    BY <1>1
  <2>2. \A k \in 1 .. Len(F[1]) : k = start[1] + k /\ k \in 1 .. Len(seqs[1])
    BY <1>4, <1>6, <2>1
  <2>3. \A n \in 1 .. 1 : n = 1
    OBVIOUS
  <2>4. \A i \in 1 .. Len(seqs[1]) : start[1] + i = i
    BY <1>6, <2>1
  <2>5. /\ F[1] \in Seq(S) /\ Len(F[1]) = start[1] + Len(seqs[1])
        /\ start[1] \in Nat /\ start[1] + Len(seqs[1]) <= Len(F[1])
        /\ \A i \in 1 .. Len(seqs[1]) : F[1][start[1] + i] = seqs[1][i]
    BY <1>4, <1>6, <2>1, <2>4
  <2>6. Placed(1)
    BY <2>2, <2>3, <2>5 DEF PlacedUpTo
  <2> QED
    BY <2>1, <2>6
<1>8. ASSUME NEW m \in 1 .. L - 1, m \in T
      PROVE  m + 1 \in T
  <2> DEFINE new == seqs[m + 1]
  <2>0. Placed(m)
    BY <1>8
  <2>1. /\ m + 1 \in 1 .. L /\ m \in 1 .. L /\ m \in Nat
        /\ new \in Seq(S) /\ Len(new) \in Nat
        /\ F[m] \in Seq(S)
        /\ start[m + 1] = Len(F[m]) /\ Len(F[m]) \in Nat
    <3>1. m + 1 \in 1 .. L /\ m \in 1 .. L /\ m \in Nat
      BY <1>1
    <3>2. new \in Seq(S) /\ Len(new) \in Nat
      BY <1>1, <3>1
    <3>3. F[m] \in Seq(S) /\ Len(F[m]) \in Nat
      BY <2>0 DEF PlacedUpTo
    <3> QED
      BY <1>6, <3>1, <3>2, <3>3
  <2>2. \A n \in 1 .. m + 1 : n \in 1 .. m \/ n = m + 1
    BY <2>1
  <2>3. /\ F[m + 1] = F[m] \o new /\ F[m + 1] \in Seq(S)
        /\ Len(F[m + 1]) = Len(F[m]) + Len(new)
    <3>1. F[m + 1] = F[m] \o new
      BY <1>5
    <3> HIDE DEF new
    <3> QED
      BY <2>1, <3>1
  <2>4. /\ \A k \in 1 .. Len(F[m]) : F[m + 1][k] = F[m][k]
        /\ \A i \in 1 .. Len(new) : F[m + 1][Len(F[m]) + i] = new[i]
    <3> HIDE DEF new
    <3> QED
      BY <2>1, <2>3
  <2> HIDE DEF new
  <2>5. \A n \in 1 .. m + 1 : /\ start[n] \in Nat
                              /\ start[n] + Len(seqs[n]) <= Len(F[m + 1])
    <3> SUFFICES ASSUME NEW n \in 1 .. m + 1
                 PROVE  /\ start[n] \in Nat
                        /\ start[n] + Len(seqs[n]) <= Len(F[m + 1])
      OBVIOUS
    <3>1. CASE n \in 1 .. m
      <4>1. start[n] \in Nat /\ start[n] + Len(seqs[n]) <= Len(F[m])
        BY <2>0, <3>1 DEF PlacedUpTo
      <4>2. Len(seqs[n]) \in Nat
        BY <1>1, <2>1, <3>1
      <4> QED
        BY <2>1, <2>3, <4>1, <4>2
    <3>2. CASE n = m + 1
      <4>1. start[n] = Len(F[m]) /\ Len(seqs[n]) = Len(new)
        BY <2>1, <3>2 DEF new
      <4> QED
        BY <2>1, <2>3, <4>1
    <3> QED
      BY <2>2, <3>1, <3>2
  <2>6. ASSUME NEW n \in 1 .. m + 1, NEW i \in 1 .. Len(seqs[n])
        PROVE  F[m + 1][start[n] + i] = seqs[n][i]
    <3>1. CASE n \in 1 .. m
      <4>1. /\ start[n] \in Nat /\ start[n] + Len(seqs[n]) <= Len(F[m])
            /\ F[m][start[n] + i] = seqs[n][i]
        BY <2>0, <3>1 DEF PlacedUpTo
      <4>2. Len(seqs[n]) \in Nat
        BY <1>1, <2>1, <3>1
      <4>3. start[n] + i \in 1 .. Len(F[m])
        BY <2>1, <4>1, <4>2, Within
      <4> QED
        BY <2>4, <4>1, <4>3
    <3>2. CASE n = m + 1
      BY <2>1, <2>4, <3>2 DEF new
    <3> QED
      BY <2>2, <3>1, <3>2
  <2>7. ASSUME NEW k \in 1 .. Len(F[m + 1])
        PROVE  \E n \in 1 .. m + 1 : \E i \in 1 .. Len(seqs[n]) : k = start[n] + i
    <3>1. CASE k <= Len(F[m])
      <4>1. k \in 1 .. Len(F[m])
        BY <2>1, <2>3, <3>1
      <4>2. PICK n \in 1 .. m : \E i \in 1 .. Len(seqs[n]) : k = start[n] + i
        BY <2>0, <4>1 DEF PlacedUpTo
      <4>3. n \in 1 .. m + 1
        BY <2>1
      <4> QED
        BY <4>2, <4>3
    <3>2. CASE k > Len(F[m])
      <4> DEFINE i == k - Len(F[m])
      <4>1. i \in 1 .. Len(new) /\ k = Len(F[m]) + i
        BY <2>1, <2>3, <3>2
      <4>2. m + 1 \in 1 .. m + 1
        BY <2>1
      <4> QED
        BY <2>1, <4>1, <4>2 DEF new
    <3> QED
      BY <2>1, <2>3, <3>1, <3>2
  <2>8. Len(F[m + 1]) = start[m + 1] + Len(seqs[m + 1])
    BY <2>1, <2>3 DEF new
  <2>9. Placed(m + 1)
    BY <2>3, <2>5, <2>6, <2>7, <2>8 DEF PlacedUpTo
  <2> QED
    BY <2>1, <2>9
<1>9. \A m \in 1 .. L : Placed(m)
  <2>1. 1 .. L \subseteq T
    <3> HIDE DEF T
    <3> QED
      BY <1>1, <1>7, <1>8, UpTo
  <2> QED
    BY <2>1
<1>10. \A n, m \in 1 .. L : n < m => start[n] + Len(seqs[n]) <= start[m]
  <2> SUFFICES ASSUME NEW n \in 1 .. L, NEW m \in 1 .. L, n < m
               PROVE  start[n] + Len(seqs[n]) <= start[m]
    OBVIOUS
  <2>1. m - 1 \in 1 .. L - 1 /\ m - 1 \in 1 .. L /\ n \in 1 .. m - 1
        /\ (m - 1) + 1 = m
    BY <1>1
  <2>2. start[m] = Len(F[m - 1])
    BY <1>6, <2>1
  <2> QED
    BY <1>9, <2>1, <2>2 DEF PlacedUpTo
<1>11. /\ L \in 1 .. L /\ Placed(L) /\ F[L] \in Seq(S)
       /\ Len(F[L]) \in Nat /\ DOMAIN F[L] = 1 .. Len(F[L])
  <2>1. L \in 1 .. L /\ Placed(L)
    BY <1>1, <1>9
  <2>2. F[L] \in Seq(S)
    BY <2>1 DEF PlacedUpTo
  <2> HIDE DEF L
  <2> QED
    BY <2>1, <2>2
<1>12. \A n \in 1 .. L : start[n] \in Nat
  BY <1>11 DEF PlacedUpTo
<1>13. start \in [1 .. L -> Nat]
  BY <1>12 DEF start
<1>14. ASSUME NEW n \in 1 .. L, NEW i \in 1 .. Len(seqs[n])
       PROVE  start[n] + i \in 1 .. Len(F[L])
  <2>1. start[n] \in Nat /\ start[n] + Len(seqs[n]) <= Len(F[L])
    BY <1>11 DEF PlacedUpTo
  <2>2. Len(seqs[n]) \in Nat /\ Len(F[L]) \in Nat
    BY <1>1, <1>11
  <2> QED
    BY <2>1, <2>2
<1> QED
  <2> HIDE DEF L
  <2>1. \A n \in 1 .. L : \A i \in 1 .. Len(seqs[n]) :
           /\ start[n] + i \in DOMAIN F[L]
           /\ F[L][start[n] + i] = seqs[n][i]
    BY <1>11, <1>14 DEF PlacedUpTo
  <2>2. \A k \in DOMAIN F[L] :
           \E n \in 1 .. L : \E i \in 1 .. Len(seqs[n]) : k = start[n] + i
    BY <1>11 DEF PlacedUpTo
  <2>3. F[L] \in Seq(S)
    BY <1>11
  <2>4. /\ FlattenSeq(seqs) \in Seq(S)
        /\ \A n \in 1 .. L : \A i \in 1 .. Len(seqs[n]) :
              /\ start[n] + i \in DOMAIN FlattenSeq(seqs)
              /\ FlattenSeq(seqs)[start[n] + i] = seqs[n][i]
        /\ \A k \in DOMAIN FlattenSeq(seqs) :
              \E n \in 1 .. L : \E i \in 1 .. Len(seqs[n]) : k = start[n] + i
    BY <1>2, <2>1, <2>2, <2>3
  <2> USE DEF L
  <2> WITNESS start \in [1 .. L -> Nat]
  <2> QED
    BY <1>10, <2>4

----------------------------------------------------------------------------
\* A label that is in a text has a first place there.
LEMMA FirstIndex ==
    ASSUME NEW text, Len(text) \in Nat, DOMAIN text = 1 .. Len(text),
           NEW label, Has(text, label)
    PROVE  /\ IndexOf(text, label) \in DOMAIN text
           /\ text[IndexOf(text, label)] = label
           /\ \A j \in 1 .. IndexOf(text, label) - 1 : text[j] # label
<1> DEFINE T == {k \in 1 .. Len(text) : \A j \in 1 .. k : text[j] # label}
<1>1. SUFFICES ASSUME \A i \in DOMAIN text : text[i] = label =>
                         ~ \A j \in 1 .. i - 1 : text[j] # label
               PROVE  FALSE
  BY DEF IndexOf
<1>2. PICK i \in 1 .. Len(text) : text[i] = label
  BY DEF Has
<1>3. 1 \in T
  <2>1. 1 \in 1 .. Len(text) /\ (1 .. 1 - 1) = {} /\ \A j \in 1 .. 1 : j = 1
    BY <1>2
  <2>2. text[1] # label
    BY <1>1, <2>1
  <2> QED
    BY <2>1, <2>2
<1>4. ASSUME NEW m \in 1 .. Len(text) - 1, m \in T
      PROVE  m + 1 \in T
  <2>1. m + 1 \in 1 .. Len(text) /\ (m + 1) - 1 = m
    OBVIOUS
  <2>2. \A j \in 1 .. m + 1 : j \in 1 .. m \/ j = m + 1
    OBVIOUS
  <2>3. text[m + 1] # label
    BY <1>1, <1>4, <2>1
  <2> QED
    BY <1>4, <2>1, <2>2, <2>3
<1>5. 1 .. Len(text) \subseteq T
  <2> HIDE DEF T
  <2> QED
    BY <1>3, <1>4, UpTo
<1>6. i \in 1 .. i
  BY <1>2
<1> QED
  BY <1>2, <1>5, <1>6

\* What a part of a text holds, the text holds.
LEMMA InSlice ==
    ASSUME NEW S, NEW text \in Seq(S),
           NEW a \in 1 .. Len(text) + 1, NEW b \in 0 .. Len(text),
           NEW i \in DOMAIN SubSeq(text, a, b)
    PROVE  a + i - 1 \in DOMAIN text /\ SubSeq(text, a, b)[i] = text[a + i - 1]
<1>1. a \in Int /\ b \in Int /\ \A j \in a .. b : text[j] \in S
  OBVIOUS
<1>2. /\ Len(SubSeq(text, a, b)) = IF a <= b THEN b - a + 1 ELSE 0
      /\ SubSeq(text, a, b) \in Seq(S)
      /\ \A j \in 1 .. b - a + 1 : SubSeq(text, a, b)[j] = text[a + j - 1]
  BY <1>1, SubSeqProperties
<1>3. i \in 1 .. b - a + 1
  BY <1>1, <1>2
<1> QED
  BY <1>2, <1>3

\* What two texts hold together, one of them holds.
LEMMA Appended ==
    ASSUME NEW S, NEW s \in Seq(S), NEW t \in Seq(S), NEW c, Has(s \o t, c)
    PROVE  Has(s, c) \/ Has(t, c)
<1>1. PICK i \in DOMAIN (s \o t) : (s \o t)[i] = c
  BY DEF Has
<1>2. i \in 1 .. Len(s) + Len(t) /\ Len(s) \in Nat /\ Len(t) \in Nat
  OBVIOUS
<1>3. CASE i <= Len(s)
  <2>1. i \in DOMAIN s /\ (s \o t)[i] = s[i]
    BY <1>2, <1>3
  <2> QED
    BY <1>1, <2>1 DEF Has
<1>4. CASE i > Len(s)
  <2>1. i - Len(s) \in DOMAIN t /\ (s \o t)[i] = t[i - Len(s)]
    BY <1>2, <1>4
  <2> QED
    BY <1>1, <2>1 DEF Has
<1> QED
  BY <1>2, <1>3, <1>4

\* What is read of a file's text is in it.
LEMMA ReadIsThere ==
    ASSUME NEW text \in Seq(Tokens), NEW c \in FromRaw(text)
    PROVE  Has(text, c)
<1> DEFINE pem == NormalisePem(text)
           begin == IndexOf(text, "BEGIN")
           end == IndexOf(text, "END")
<1>1. c \in Certs /\ c # "BEGIN" /\ c # "END"
  BY AnchorsAssumption DEF FromRaw, PemToDer
<1>2. PICK i \in DOMAIN pem : pem[i] = c
  BY DEF FromRaw, PemToDer
<1>3. DOMAIN text = 1 .. Len(text) /\ Len(text) \in Nat
  OBVIOUS
<1>4. CASE Has(text, "BEGIN") /\ Has(text, "END")
  <2>1. begin \in 1 .. Len(text) /\ end \in 1 .. Len(text)
    BY <1>3, <1>4, FirstIndex
  <2>2. PICK a \in 1 .. Len(text) + 1, b \in 0 .. Len(text) :
            pem = SubSeq(text, a, b)
    <3>1. pem = IF begin < end THEN SubSeq(text, begin, end)
                ELSE SubSeq(text, end + 1, begin - 1)
      BY <1>4 DEF NormalisePem
    <3> HIDE DEF pem, begin, end
    <3>2. /\ begin \in 1 .. Len(text) + 1 /\ end \in 0 .. Len(text)
          /\ end + 1 \in 1 .. Len(text) + 1 /\ begin - 1 \in 0 .. Len(text)
      BY <1>3, <2>1
    <3> QED
      BY <3>1, <3>2
  <2> HIDE DEF pem
  <2>3. a + i - 1 \in DOMAIN text /\ pem[i] = text[a + i - 1]
    BY <1>2, <2>2, InSlice
  <2> QED
    BY <1>2, <2>3 DEF Has
<1>5. CASE ~(Has(text, "BEGIN") /\ Has(text, "END"))
  <2>1. PICK before \in {<<>>, <<"BEGIN">>}, after \in {<<>>, <<"END">>} :
            pem = before \o text \o after
    BY <1>5 DEF NormalisePem
  <2>2. /\ before \in Seq(Tokens) /\ ~Has(before, c)
    <3>1. CASE before = <<>>
      BY <3>1 DEF Has
    <3>2. CASE before = <<"BEGIN">>
      BY <1>1, <3>2 DEF Has, Tokens
    <3> QED
      BY <3>1, <3>2
  <2>3. /\ after \in Seq(Tokens) /\ ~Has(after, c)
    <3>1. CASE after = <<>>
      BY <3>1 DEF Has
    <3>2. CASE after = <<"END">>
      BY <1>1, <3>2 DEF Has, Tokens
    <3> QED
      BY <3>1, <3>2
  <2>4. before \o text \in Seq(Tokens)
    BY <2>2
  <2>5. Has((before \o text) \o after, c)
    BY <1>2, <2>1 DEF Has
  <2>6. Has(before \o text, c)
    BY <2>3, <2>4, <2>5, Appended
  <2> QED
    BY <2>2, <2>6, Appended
<1> QED
  BY <1>4, <1>5

\* What Node takes of the joined text of files is in one of them, with its labels
\* unless a file up to that one is damaged.
LEMMA AddedIsThere ==
    ASSUME NEW files \in Seq(Seq(Tokens)),
           NEW c \in AddCACert(FlattenSeq(files))
    PROVE  \E n \in DOMAIN files :
               /\ Has(files[n], c)
               /\ Labelled(files[n], c) \/ \E m \in 1 .. n : Damaged(files[m])
<1> DEFINE text == FlattenSeq(files)
<1>1. PICK k \in DOMAIN text :
        c = text[k + 1] /\ text[k] = "BEGIN" /\ IsBlock(text, k)
  <2>1. PICK k \in DOMAIN text :
          /\ c = text[k + 1]
          /\ \A j \in 1 .. k : (text[j] = "BEGIN" \/ j = k) =>
                                  text[j] = "BEGIN" /\ IsBlock(text, j)
    BY DEF AddCACert
  <2>2. text \in Seq(Tokens)
    <3>1. CASE files = <<>>
      BY <3>1 DEF FlattenSeq
    <3>2. CASE files # <<>>
      BY <3>2, JoinedText
    <3> QED
      BY <3>1, <3>2
  <2> HIDE DEF text
  <2>3. k \in 1 .. k
    BY <2>2
  <2> QED
    BY <2>1, <2>3
<1>2. files # <<>>
  <2> SUFFICES ASSUME files = <<>>
               PROVE  FALSE
    OBVIOUS
  <2>1. text = <<>>
    BY DEF FlattenSeq
  <2> QED
    BY <1>1, <2>1
<1>3. PICK start \in [1 .. Len(files) -> Nat] :
        /\ text \in Seq(Tokens)
        /\ \A n \in 1 .. Len(files) : \A i \in 1 .. Len(files[n]) :
              /\ start[n] + i \in DOMAIN text
              /\ text[start[n] + i] = files[n][i]
        /\ \A j \in DOMAIN text :
              \E n \in 1 .. Len(files) : \E i \in 1 .. Len(files[n]) :
                  j = start[n] + i
        /\ \A n, m \in 1 .. Len(files) :
              n < m => start[n] + Len(files[n]) <= start[m]
  BY <1>2, JoinedText
<1> HIDE DEF text
<1>4. k + 1 \in DOMAIN text
  BY <1>1, <1>3 DEF IsBlock
<1>5a. PICK n \in 1 .. Len(files) : \E i \in 1 .. Len(files[n]) : k + 1 = start[n] + i
  BY <1>3, <1>4
<1>5. PICK i \in 1 .. Len(files[n]) : k + 1 = start[n] + i
  BY <1>5a
<1>6. files[n][i] = c
  BY <1>1, <1>3, <1>5
<1>7. /\ n \in DOMAIN files /\ i \in DOMAIN files[n] /\ Len(files[n]) \in Nat
      /\ DOMAIN files = 1 .. Len(files)
  <2>1. files[n] \in Seq(Tokens)
    OBVIOUS
  <2> QED
    BY <2>1
<1>8a. PICK m \in 1 .. Len(files) : \E q \in 1 .. Len(files[m]) : k = start[m] + q
  BY <1>1, <1>3
<1>8. PICK q \in 1 .. Len(files[m]) : k = start[m] + q
  BY <1>8a
<1>9. /\ m \in DOMAIN files /\ q \in DOMAIN files[m] /\ Len(files[m]) \in Nat
      /\ DOMAIN files[m] = 1 .. Len(files[m])
      /\ files[m][q] = "BEGIN"
      /\ start[m] \in Nat /\ start[n] \in Nat
  <2>1. files[m] \in Seq(Tokens)
    OBVIOUS
  <2>2. files[m][q] = text[start[m] + q]
    BY <1>3
  <2>3. files[m][q] = "BEGIN"
    BY <1>1, <1>8, <2>2
  <2>4. start[m] \in Nat /\ start[n] \in Nat
    BY <1>3
  <2> QED
    BY <1>7, <2>1, <2>3, <2>4
<1>10. CASE q + 2 <= Len(files[m])
  <2>1. q + 1 \in 1 .. Len(files[m]) /\ q + 2 \in 1 .. Len(files[m])
    BY <1>9, <1>10
  <2>2. /\ start[m] + (q + 1) = k + 1 /\ start[m] + (q + 2) = k + 2
    BY <1>8, <1>9
  <2>3. files[m][q + 1] = c /\ files[m][q + 2] = "END" /\ c \in Certs
    BY <1>1, <1>3, <2>1, <2>2 DEF IsBlock
  <2>4. Labelled(files[m], c) /\ Has(files[m], c)
    BY <1>9, <1>10, <2>1, <2>3 DEF Labelled, Has, IsBlock
  <2> QED
    BY <1>9, <2>4
<1>11. CASE ~(q + 2 <= Len(files[m]))
  <2>1. Damaged(files[m])
    BY <1>9, <1>11 DEF Damaged, IsBlock
  <2>2. m <= n
    <3> SUFFICES ASSUME n < m
                 PROVE  FALSE
      OBVIOUS
    <3>1. start[n] + Len(files[n]) <= start[m]
      BY <1>3
    <3>2. start[n] + i = start[m] + q + 1 /\ i \in Nat /\ i <= Len(files[n])
          /\ q \in Nat /\ q >= 1
      BY <1>5, <1>7, <1>8, <1>9
    <3> QED
      BY <1>7, <1>9, <3>1, <3>2
  <2>3. m \in 1 .. n
    BY <2>2
  <2> QED
    BY <1>6, <1>7, <2>1, <2>3 DEF Has
<1> QED
  BY <1>10, <1>11

\* Node takes every labelled certificate that stands before the first damage.
LEMMA LabelledIsAdded ==
    ASSUME NEW files \in Seq(Seq(Tokens)), NEW n \in DOMAIN files, NEW c,
           Labelled(files[n], c), \A m \in 1 .. n : ~Damaged(files[m])
    PROVE  c \in AddCACert(FlattenSeq(files))
<1> DEFINE text == FlattenSeq(files)
<1>1. /\ DOMAIN files = 1 .. Len(files) /\ Len(files) \in Nat /\ files # <<>>
      /\ \A m \in 1 .. Len(files) :
            /\ files[m] \in Seq(Tokens) /\ Len(files[m]) \in Nat
            /\ DOMAIN files[m] = 1 .. Len(files[m])
  <2>1. \A m \in 1 .. Len(files) : files[m] \in Seq(Tokens)
    OBVIOUS
  <2> QED
    BY <2>1
<1>2. PICK start \in [1 .. Len(files) -> Nat] :
        /\ text \in Seq(Tokens)
        /\ \A m \in 1 .. Len(files) : \A i \in 1 .. Len(files[m]) :
              /\ start[m] + i \in DOMAIN text
              /\ text[start[m] + i] = files[m][i]
        /\ \A k \in DOMAIN text :
              \E m \in 1 .. Len(files) : \E i \in 1 .. Len(files[m]) :
                  k = start[m] + i
        /\ \A m1, m2 \in 1 .. Len(files) :
              m1 < m2 => start[m1] + Len(files[m1]) <= start[m2]
  BY <1>1, JoinedText
<1> HIDE DEF text
<1>3. Len(text) \in Nat /\ DOMAIN text = 1 .. Len(text)
  BY <1>2
<1>4. PICK i \in DOMAIN files[n] :
        files[n][i] = "BEGIN" /\ IsBlock(files[n], i) /\ files[n][i + 1] = c
  BY DEF Labelled
<1>5. ASSUME NEW m \in 1 .. Len(files), NEW k \in 1 .. Len(files[m]),
             IsBlock(files[m], k)
      PROVE  /\ IsBlock(text, start[m] + k)
             /\ text[start[m] + k + 1] = files[m][k + 1]
  <2>1. k + 1 \in 1 .. Len(files[m]) /\ k + 2 \in 1 .. Len(files[m])
    BY <1>1, <1>5 DEF IsBlock
  <2>2. /\ start[m] \in Nat
        /\ start[m] + (k + 1) = start[m] + k + 1
        /\ start[m] + (k + 2) = start[m] + k + 2
    <3>1. start[m] \in Nat
      BY <1>2
    <3> QED
      BY <3>1
  <2>3. /\ text[start[m] + k + 1] = files[m][k + 1]
        /\ text[start[m] + k + 2] = files[m][k + 2]
        /\ start[m] + k + 2 \in DOMAIN text
    BY <1>2, <2>1, <2>2
  <2>4. start[m] + k + 2 <= Len(text)
    BY <1>3, <2>2, <2>3
  <2> QED
    BY <1>5, <2>3, <2>4 DEF IsBlock
<1> DEFINE at == start[n] + i
<1>6. at \in DOMAIN text /\ text[at] = "BEGIN" /\ text[at + 1] = c /\ IsBlock(text, at)
  BY <1>1, <1>2, <1>4, <1>5
<1>7. ASSUME NEW j \in 1 .. at, text[j] = "BEGIN"
      PROVE  IsBlock(text, j)
  <2>1. j \in DOMAIN text
    BY <1>3, <1>6
  <2>1a. PICK m \in 1 .. Len(files) : \E k \in 1 .. Len(files[m]) : j = start[m] + k
    BY <1>2, <2>1
  <2>2. PICK k \in 1 .. Len(files[m]) : j = start[m] + k
    BY <2>1a
  <2>3. m <= n
    <3> SUFFICES ASSUME n < m
                 PROVE  FALSE
      BY <1>1
    <3>1. start[n] + Len(files[n]) <= start[m]
      BY <1>1, <1>2
    <3>2. start[n] \in Nat /\ start[m] \in Nat /\ Len(files[n]) \in Nat
          /\ i \in Nat /\ i <= Len(files[n]) /\ k \in Nat /\ k >= 1
      <4>1. start[n] \in Nat /\ start[m] \in Nat
        BY <1>1
      <4>2. Len(files[n]) \in Nat /\ i \in 1 .. Len(files[n])
        BY <1>1
      <4>3. k \in Nat /\ k >= 1
        BY <1>1
      <4> QED
        BY <4>1, <4>2, <4>3
    <3>3. start[m] + k <= start[n] + i
      BY <2>2
    <3> QED
      BY <3>1, <3>2, <3>3
  <2>4. files[m][k] = "BEGIN" /\ m \in 1 .. n /\ k \in DOMAIN files[m]
    BY <1>1, <1>2, <1>7, <2>2, <2>3
  <2>5. IsBlock(files[m], k)
    BY <2>4 DEF Damaged
  <2> QED
    BY <1>5, <2>2, <2>5
<1> HIDE DEF at
<1>8. at \in {k \in DOMAIN text :
                \A j \in 1 .. k : (text[j] = "BEGIN" \/ j = k) =>
                                      text[j] = "BEGIN" /\ IsBlock(text, j)}
  BY <1>6, <1>7
<1>9. text[at + 1] \in AddCACert(text)
  BY <1>8 DEF AddCACert
<1> QED
  BY <1>6, <1>9 DEF text

\* What a layer trusts is in one of the files it has read: neither the cut to the
\* labels nor the join of the files makes up a certificate.
THEOREM TrustComesFromFiles == Spec => []TrustIsRead
<1>1. TypeOK /\ AnchorsAreRead => TrustIsRead
  <2> SUFFICES ASSUME TypeOK, AnchorsAreRead
               PROVE  TrustIsRead
    OBVIOUS
  <2>1. ASSUME NEW c \in chainAnchors
        PROVE  \E p \in Files : Has(seen.chain[p], c)
    <3>1. AllThere("chain") /\ chainAnchors = InputAdaptCertArray(SeenBy("chain"))
      BY <2>1 DEF AnchorsAreRead
    <3>2. PICK n \in DOMAIN SeenBy("chain") : c \in FromRaw(SeenBy("chain")[n])
      BY <3>1 DEF InputAdaptCertArray
    <3>3. /\ n \in DOMAIN Paths /\ Paths[n] \in Files
          /\ SeenBy("chain")[n] = seen.chain[Paths[n]]
          /\ seen.chain[Paths[n]] \in Seq(Tokens)
      BY <3>1, <3>2, FilesRead
    <3> QED
      BY <3>2, <3>3, ReadIsThere
  <2>2. ASSUME NEW c \in tlsAnchors
        PROVE  \E p \in Files : Has(seen.tls[p], c)
    <3>1. AllThere("tls") /\ tlsAnchors = AddCACert(FlattenSeq(SeenBy("tls")))
      BY <2>2 DEF AnchorsAreRead
    <3>2. SeenBy("tls") \in Seq(Seq(Tokens))
      BY <3>1, FilesRead
    <3>3. PICK n \in DOMAIN SeenBy("tls") : Has(SeenBy("tls")[n], c)
      BY <3>1, <3>2, AddedIsThere
    <3>4. Paths[n] \in Files /\ SeenBy("tls")[n] = seen.tls[Paths[n]]
      BY <3>1, <3>3, FilesRead
    <3> QED
      BY <3>3, <3>4
  <2> QED
    BY <2>1, <2>2 DEF TrustIsRead
<1> QED
  BY <1>1, TypeCorrect, AnchorsStayRead, PTL

\* What the chain check reads of an undamaged file is labelled, or stands before its
\* first begin label and, if there is one, behind an end label.
LEMMA BareOrLabelled ==
    ASSUME NEW text \in Seq(Tokens), NEW c \in FromRaw(text), ~Damaged(text)
    PROVE  Labelled(text, c) \/ Bare(text, c)
<1> DEFINE pem == NormalisePem(text)
           begin == IndexOf(text, "BEGIN")
           end == IndexOf(text, "END")
<1>1. c \in Certs /\ c # "BEGIN" /\ c # "END"
  BY AnchorsAssumption DEF FromRaw, PemToDer
<1>2. DOMAIN text = 1 .. Len(text) /\ Len(text) \in Nat
  OBVIOUS
<1>3. \A d \in Certs : d # "END"
  BY AnchorsAssumption
<1>4. ASSUME NEW i \in 1 .. Len(text), NEW label
      PROVE  Has(SubSeq(text, 1, i), label) <=> \E j \in 1 .. i : text[j] = label
  <2>1. /\ DOMAIN SubSeq(text, 1, i) = 1 .. i
        /\ \A j \in 1 .. i : SubSeq(text, 1, i)[j] = text[j]
    <3>1. /\ Len(SubSeq(text, 1, i)) = i
          /\ SubSeq(text, 1, i) \in Seq(Tokens)
          /\ \A j \in 1 .. i : SubSeq(text, 1, i)[j] = text[1 + j - 1]
      <4>1. \A j \in 1 .. i : text[j] \in Tokens
        OBVIOUS
      <4> QED
        BY <4>1, SubSeqProperties
    <3> QED
      BY <3>1
  <2> QED
    BY <2>1 DEF Has
<1>5. CASE ~Has(text, "BEGIN")
  <2>1. PICK i \in DOMAIN text : text[i] = c
    BY ReadIsThere DEF Has
  <2>2. ~Has(SubSeq(text, 1, i), "BEGIN")
    BY <1>2, <1>4, <1>5, <2>1 DEF Has
  <2> QED
    BY <1>5, <2>1, <2>2 DEF Bare
<1>6. CASE Has(text, "BEGIN")
  <2>1. /\ begin \in 1 .. Len(text) /\ text[begin] = "BEGIN"
        /\ \A j \in 1 .. begin - 1 : text[j] # "BEGIN"
    BY <1>2, <1>6, FirstIndex
  <2>2. /\ begin + 2 \in 1 .. Len(text) /\ text[begin + 2] = "END"
        /\ text[begin + 1] \in Certs /\ IsBlock(text, begin)
    BY <1>2, <2>1 DEF Damaged, IsBlock
  <2>3. Has(text, "END")
    BY <1>2, <2>2 DEF Has
  <2>4. /\ end \in 1 .. Len(text) /\ text[end] = "END"
        /\ \A j \in 1 .. end - 1 : text[j] # "END"
    BY <1>2, <2>3, FirstIndex
  <2>5. pem = IF begin < end THEN SubSeq(text, begin, end)
              ELSE SubSeq(text, end + 1, begin - 1)
    BY <1>6, <2>3 DEF NormalisePem
  <2>6. PICK i \in DOMAIN pem : pem[i] = c
    BY DEF FromRaw, PemToDer
  <2> HIDE DEF pem, begin, end
  <2>7. CASE begin < end
    <3>1. end = begin + 2
      <4>1. ~(begin + 2 <= end - 1)
        BY <2>1, <2>2, <2>4
      <4>2. text[begin + 1] # "END"
        BY <1>3, <2>2
      <4> QED
        BY <2>1, <2>4, <2>7, <4>1, <4>2
    <3>2. /\ begin + i - 1 \in DOMAIN text /\ text[begin + i - 1] = c
          /\ i \in 1 .. 3
      <4>1. begin \in 1 .. Len(text) + 1 /\ end \in 0 .. Len(text)
        BY <1>2, <2>1, <2>4
      <4>2. begin + i - 1 \in DOMAIN text /\ pem[i] = text[begin + i - 1]
        BY <2>5, <2>6, <2>7, <4>1, InSlice
      <4>3. Len(pem) = 3 /\ pem \in Seq(Tokens)
        <5>1. /\ begin \in Int /\ end \in Int
              /\ \A j \in begin .. end : text[j] \in Tokens
          BY <2>1, <2>4
        <5> QED
          BY <2>5, <2>7, <3>1, <5>1, SubSeqProperties
      <4> QED
        BY <2>6, <4>2, <4>3
    <3>3. text[begin + 1] = c
      <4>1. i = 1 => begin + i - 1 = begin
        BY <2>1
      <4>2. i = 3 => begin + i - 1 = begin + 2
        BY <2>1
      <4>3. i = 2 => begin + i - 1 = begin + 1
        BY <2>1
      <4>4. i = 1 \/ i = 2 \/ i = 3
        BY <3>2
      <4> QED
        BY <1>1, <2>1, <2>2, <3>2, <4>1, <4>2, <4>3, <4>4
    <3> QED
      BY <1>2, <2>1, <2>2, <3>3 DEF Labelled
  <2>8. CASE ~(begin < end)
    <3>1. /\ end + 1 \in 1 .. Len(text) + 1 /\ begin - 1 \in 0 .. Len(text)
          /\ begin \in Nat /\ end \in Nat
      BY <1>2, <2>1, <2>4
    <3>2. end + 1 + i - 1 \in DOMAIN text /\ pem[i] = text[end + 1 + i - 1]
      BY <2>5, <2>6, <2>8, <3>1, InSlice
    <3>3. i \in Nat /\ i >= 1 /\ end + i <= begin - 1
      <4>1. /\ Len(pem) = IF end + 1 <= begin - 1
                          THEN (begin - 1) - (end + 1) + 1 ELSE 0
            /\ pem \in Seq(Tokens)
        <5>1. /\ end + 1 \in Int /\ begin - 1 \in Int
              /\ \A j \in end + 1 .. begin - 1 : text[j] \in Tokens
          BY <1>2, <2>1, <2>4
        <5> QED
          BY <2>5, <2>8, <5>1, SubSeqProperties
      <4>2. i \in 1 .. Len(pem)
        BY <2>6, <4>1
      <4> QED
        BY <3>1, <4>1, <4>2
    <3> DEFINE at == end + i
    <3>4. at \in 1 .. Len(text) /\ text[at] = c /\ end \in 1 .. at
      <4>1. end + 1 + i - 1 = end + i
        BY <3>1, <3>3
      <4> QED
        BY <1>2, <2>4, <2>6, <3>1, <3>2, <3>3, <4>1
    <3>5. \A j \in 1 .. at : text[j] # "BEGIN"
      <4>1. \A j \in 1 .. at : j \in 1 .. begin - 1
        BY <3>1, <3>3
      <4> QED
        BY <2>1, <4>1
    <3> HIDE DEF at
    <3>6. ~Has(SubSeq(text, 1, at), "BEGIN") /\ Has(SubSeq(text, 1, at), "END")
      BY <1>4, <2>4, <3>4, <3>5
    <3> QED
      BY <1>2, <3>4, <3>6 DEF Bare
  <2> QED
    BY <2>7, <2>8
<1> QED
  BY <1>5, <1>6

\* The two layers differ only in a file that was replaced between their readings, in
\* what stands without its labels, or in or behind a file that is damaged.
THEOREM LayersDiffer == Spec => []ChainTrustsMore
<1>1. TypeOK /\ AnchorsAreRead => ChainTrustsMore
  <2> SUFFICES ASSUME TypeOK, AnchorsAreRead, stage = "up",
                      NEW c \in chainAnchors \ tlsAnchors
               PROVE  \E n \in DOMAIN Paths :
                         /\ Has(seen.chain[Paths[n]], c)
                         /\ \/ seen.tls[Paths[n]] # seen.chain[Paths[n]]
                            \/ Bare(seen.chain[Paths[n]], c)
                            \/ \E m \in 1 .. n : Damaged(seen.tls[Paths[m]])
    BY DEF ChainTrustsMore
  <2> DEFINE chain == SeenBy("chain")
             tls == SeenBy("tls")
  <2>1. /\ AllThere("chain") /\ chainAnchors = InputAdaptCertArray(chain)
        /\ AllThere("tls") /\ tlsAnchors = AddCACert(FlattenSeq(tls))
    BY DEF AnchorsAreRead, Booted
  <2>2. /\ chain \in Seq(Seq(Tokens)) /\ DOMAIN chain = DOMAIN Paths
        /\ tls \in Seq(Seq(Tokens)) /\ DOMAIN tls = DOMAIN Paths
        /\ \A n \in DOMAIN Paths : /\ chain[n] = seen.chain[Paths[n]]
                                   /\ tls[n] = seen.tls[Paths[n]]
    BY <2>1, FilesRead
  <2>3. PICK n \in DOMAIN Paths : c \in FromRaw(chain[n])
    BY <2>1, <2>2 DEF InputAdaptCertArray
  <2> HIDE DEF chain, tls
  <2>4. chain[n] \in Seq(Tokens)
    BY <2>2
  <2>5. Has(chain[n], c)
    BY <2>3, <2>4, ReadIsThere
  <2>6. 1 .. n \subseteq DOMAIN Paths /\ n \in 1 .. n
    <3>1. DOMAIN Paths = 1 .. Len(tls) /\ Len(tls) \in Nat
      BY <2>2
    <3> QED
      BY <2>3, <3>1
  <2>7. CASE chain[n] = tls[n] /\ \A m \in 1 .. n : ~Damaged(tls[m])
    <3>1. ~Damaged(chain[n])
      BY <2>6, <2>7
    <3>2. Labelled(chain[n], c) \/ Bare(chain[n], c)
      BY <2>3, <2>4, <3>1, BareOrLabelled
    <3>3. ~Labelled(tls[n], c)
      <4> SUFFICES ASSUME Labelled(tls[n], c) PROVE FALSE
        OBVIOUS
      <4>1. c \in AddCACert(FlattenSeq(tls))
        BY <2>2, <2>7, LabelledIsAdded
      <4> QED
        BY <2>1, <4>1
    <3> QED
      BY <2>2, <2>5, <2>7, <3>2, <3>3
  <2>8. CASE chain[n] # tls[n] \/ \E m \in 1 .. n : Damaged(tls[m])
    BY <2>2, <2>5, <2>6, <2>8
  <2> QED
    BY <2>7, <2>8
<1> QED
  BY <1>1, TypeCorrect, AnchorsStayRead, PTL

\* What the listener trusts beyond the chain check has come since the boot, or stands
\* in a file that holds something else besides, or cannot be adapted.
THEOREM ListenerDiffers == Spec => []ListenerTrustsMore
<1>1. TypeOK /\ AnchorsAreRead /\ DamageIsLocal => ListenerTrustsMore
  <2> SUFFICES ASSUME TypeOK, AnchorsAreRead, DamageIsLocal, stage = "up",
                      NEW c \in tlsAnchors \ chainAnchors
               PROVE  \E n \in DOMAIN Paths :
                         /\ Has(seen.tls[Paths[n]], c)
                         /\ \/ Labelled(seen.tls[Paths[n]], c)
                            \/ \E m \in 1 .. n : Damaged(seen.tls[Paths[m]])
                         /\ \/ seen.chain[Paths[n]] # seen.tls[Paths[n]]
                            \/ ~Holds(seen.tls[Paths[n]], c)
                            \/ c \notin Adaptable
    BY DEF ListenerTrustsMore
  <2> DEFINE tls == SeenBy("tls")
  <2>1. AllThere("tls") /\ tlsAnchors = AddCACert(FlattenSeq(tls))
    BY DEF AnchorsAreRead
  <2>2. /\ tls \in Seq(Seq(Tokens)) /\ DOMAIN tls = DOMAIN Paths
        /\ \A n \in DOMAIN Paths : Paths[n] \in Files /\ tls[n] = seen.tls[Paths[n]]
    BY <2>1, FilesRead
  <2>3. c \in Certs
    BY DEF TypeOK
  <2> HIDE DEF tls
  <2>4. PICK n \in DOMAIN tls :
          /\ Has(tls[n], c)
          /\ Labelled(tls[n], c) \/ \E m \in 1 .. n : Damaged(tls[m])
    BY <2>1, <2>2, AddedIsThere
  <2>5. 1 .. n \subseteq DOMAIN Paths
    <3>1. DOMAIN Paths = 1 .. Len(tls) /\ Len(tls) \in Nat
      BY <2>2
    <3> QED
      BY <2>2, <2>4, <3>1
  <2>6. ~(/\ seen.chain[Paths[n]] = seen.tls[Paths[n]]
          /\ Holds(seen.tls[Paths[n]], c)
          /\ c \in Adaptable)
    BY <2>2, <2>3, <2>4 DEF DamageIsLocal, Booted
  <2> QED
    BY <2>2, <2>4, <2>5, <2>6
<1> QED
  BY <1>1, TypeCorrect, AnchorsStayRead, DamageStaysLocal, PTL

----------------------------------------------------------------------------
(* What the anchors are for: the verdicts of the two layers.  A certificate   *)
(* goes by its digest there and by itself here, which tell the same apart.     *)

Chain == INSTANCE CertChain WITH Anchors <- chainAnchors, Peers <- {}
Listener == INSTANCE CertChain WITH Anchors <- tlsAnchors, Peers <- {}

\* A certificate is in one of the files that the layer has read.
InFile(layer, c) == \E p \in Files : Has(seen[layer][p], c)

\* A certificate stands, in some file, where the listener does not read it.
PassedOver(c) ==
    \E n \in DOMAIN Paths :
        /\ Has(seen.chain[Paths[n]], c)
        /\ \/ seen.tls[Paths[n]] # seen.chain[Paths[n]]
           \/ Bare(seen.chain[Paths[n]], c)
           \/ \E m \in 1 .. n : Damaged(seen.tls[Paths[m]])

\* A certificate stands, in some file, where the chain check does not read it.
LeftOut(c) ==
    \E n \in DOMAIN Paths :
        /\ Has(seen.tls[Paths[n]], c)
        /\ \/ seen.chain[Paths[n]] # seen.tls[Paths[n]]
           \/ ~Holds(seen.tls[Paths[n]], c)
           \/ c \notin Adaptable

\* Behind a verdict of either layer is an anchor from the files as it has read them,
\* which the other trusts as well unless it was started with another file, or reads
\* that file otherwise.
FilesVouch ==
    \A shown, at :
        /\ Chain!VerifyChain(shown, at) =>
              \E k \in 1 .. Len(shown) - 1 :
                  /\ Chain!VerifiedLink(shown, k, at)
                  /\ InFile("chain", shown[k + 1].sha)
                  /\ stage = "up" => \/ shown[k + 1].sha \in tlsAnchors
                                     \/ PassedOver(shown[k + 1].sha)
        /\ Listener!TlsAuthorized(shown, at) =>
              /\ InFile("tls", shown[Len(shown)].sha)
              /\ stage = "up" => \/ shown[Len(shown)].sha \in chainAnchors
                                 \/ LeftOut(shown[Len(shown)].sha)

\* Whom the chain check accepts, the owner's files vouch for, and so does the
\* listener, except where it has or reads a file otherwise; and the same of whom the
\* listener accepts (CasCertChainVerifyHandler and Node, each with the anchors that it
\* has read).
THEOREM AcceptedByFiles == Spec => []FilesVouch
<1>1. ASSUME TrustIsRead, ChainTrustsMore, ListenerTrustsMore PROVE FilesVouch
  <2>1. ASSUME NEW c \in chainAnchors
        PROVE  InFile("chain", c) /\ (stage = "up" => c \in tlsAnchors \/ PassedOver(c))
    BY <1>1, <2>1 DEF TrustIsRead, ChainTrustsMore, InFile, PassedOver
  <2>2. ASSUME NEW c \in tlsAnchors
        PROVE  InFile("tls", c) /\ (stage = "up" => c \in chainAnchors \/ LeftOut(c))
    BY <1>1, <2>2 DEF TrustIsRead, ListenerTrustsMore, InFile, LeftOut
  <2>3. ASSUME NEW shown, NEW at, NEW k \in 1 .. Len(shown) - 1,
               Chain!VerifiedLink(shown, k, at)
        PROVE  shown[k + 1].sha \in chainAnchors
    BY <2>3 DEF Chain!VerifiedLink
  <2>4. ASSUME NEW shown, NEW at, Listener!TlsAuthorized(shown, at)
        PROVE  shown[Len(shown)].sha \in tlsAnchors
    BY <2>4 DEF Listener!TlsAuthorized
  <2> QED
    BY <2>1, <2>2, <2>3, <2>4 DEF Chain!VerifyChain, FilesVouch
<1> QED
  BY <1>1, TrustComesFromFiles, LayersDiffer, ListenerDiffers, PTL

----------------------------------------------------------------------------
(* From a certificate to claims (CasCertFields). *)

\* What Min and Max of a set of positions choose exists.
LEMMA Extremes ==
    ASSUME NEW n \in Nat, NEW S \in SUBSET (1 .. n), S # {}
    PROVE  /\ Min(S) \in S
           /\ Max(S) \in S /\ \A x \in S : ~(x > Max(S))
<1> DEFINE R == OpToRel(<, Nat)
           Down == {n - x : x \in S}
<1>1. IsWellFoundedOn(R, Nat)
  BY NatLessThanWellFounded
<1>2. \A x, y \in Nat : y < x => <<y, x>> \in R
  BY DEF OpToRel
<1> HIDE DEF R
<1>3. S \subseteq Nat /\ Down \subseteq Nat /\ Down # {}
  <2>1. \A x \in S : x \in Nat /\ n - x \in Nat
    OBVIOUS
  <2> QED
    BY <2>1
<1>4. PICK low \in S : \A k \in S : ~(<<k, low>> \in R)
  BY <1>1, <1>3, WFMin
<1>5. \A k \in S : low <= k
  <2>1. \A k \in S : k \in Nat /\ low \in Nat /\ ~(k < low)
    BY <1>2, <1>3, <1>4
  <2> QED
    BY <2>1
<1>6. PICK least \in Down : \A k \in Down : ~(<<k, least>> \in R)
  <2> HIDE DEF Down
  <2> QED
    BY <1>1, <1>3, WFMin
<1>7. PICK high \in S : least = n - high
  OBVIOUS
<1>8. \A k \in S : high >= k
  <2> SUFFICES ASSUME NEW k \in S, high < k
               PROVE  FALSE
    BY <1>3
  <2>1. n - k \in Down /\ n - k \in Nat /\ n - high \in Nat /\ n - k < n - high
    OBVIOUS
  <2> HIDE DEF Down
  <2> QED
    BY <1>2, <1>6, <1>7, <2>1
<1>9. \E x \in S : \A y \in S : x <= y
  BY <1>5
<1>10. \E x \in S : \A y \in S : x >= y
  BY <1>7, <1>8
<1>11. Max(S) \in S /\ \A y \in S : Max(S) >= y
  BY <1>10 DEF Max
<1>12. Min(S) \in S
  BY <1>9 DEF Min
<1>13. \A x, y \in Nat : x >= y => ~(y > x)
  OBVIOUS
<1> QED
  BY <1>3, <1>11, <1>12, <1>13

\* A certificate has names and extensions, each a sequence.
LEMMA CertFacts ==
    ASSUME NEW c \in ClientCerts
    PROVE  /\ Len(c.subject) \in Nat
           /\ Len(c.extensions) \in Nat
           /\ DOMAIN c.extensions = 1 .. Len(c.extensions)
           /\ \A i \in DOMAIN c.extensions : c.extensions[i].bytes \in Seq(0 .. 255)
  BY CertFieldsAssumption

\* Of every attribute a value of the name is kept, or none.
LEMMA AdaptedName ==
    ASSUME NEW c \in ClientCerts
    PROVE  AdaptDn(c.subject) \in Subjects
<1> DEFINE value(attribute) ==
        IF Occurrences(c.subject, attribute) = {} THEN NoValue
        ELSE c.subject[Min(Occurrences(c.subject, attribute))].value
<1>1. ASSUME NEW attribute \in Attributes
      PROVE  value(attribute) \in Values
  <2> DEFINE O == Occurrences(c.subject, attribute)
  <2>1. CASE O = {}
    BY <2>1 DEF Values
  <2>2. CASE O # {}
    <3>1. O \in SUBSET (1 .. Len(c.subject)) /\ Len(c.subject) \in Nat
      BY CertFacts DEF Occurrences
    <3>2. Min(O) \in O
      <4> HIDE DEF O
      <4> QED
        BY <2>2, <3>1, Extremes
    <3>3. Min(O) \in 1 .. Len(c.subject)
      BY <3>1, <3>2
    <3>4. value(attribute) = c.subject[Min(O)].value
      BY <2>2
    <3> HIDE DEF O, value
    <3> QED
      BY <3>3, <3>4 DEF Values
  <2> QED
    BY <2>1, <2>2
<1>2. AdaptDn(c.subject) = [attribute \in Attributes |-> value(attribute)]
  BY DEF AdaptDn
<1> HIDE DEF value
<1> QED
  BY <1>1, <1>2 DEF Subjects

\* Claims are values of the subject, or none.
LEMMA ClaimsType ==
    ASSUME NEW subject \in Subjects, NEW scope
    PROVE  Claims(subject, scope) \in Subjects
<1>1. NoValue \in Values
  BY DEF Values
<1> QED
  BY <1>1 DEF Claims, Subjects

\* What is kept after the first n extensions: of every known kind among them the
\* last, and all of them could be read.
KeptOf(k, n) ==
    /\ \A i \in 1 .. n : ~Unreadable(cert.extensions[i])
    /\ DOMAIN k = {id \in ExtensionIds : \E i \in 1 .. n : cert.extensions[i].id = id}
    /\ \A i \in 1 .. n : cert.extensions[i].id \in ExtensionIds =>
          \/ \E j \in 1 .. n : j > i /\ cert.extensions[j].id = cert.extensions[i].id
          \/ k[cert.extensions[i].id] = AdaptExtension(cert.extensions[i])
AdaptedWhole(c) ==
    /\ c.subject = AdaptDn(cert.subject)
    /\ KeptOf(c.extensions, Len(cert.extensions))
\* The loop has kept what there is up to where it stands; what the request has, and
\* what is stored, is what the loop left behind at its end; what was answered last
\* was made of it, whether it is still stored or not.
LoopKept ==
    /\ next \in 0 .. Len(cert.extensions) + 1
    /\ DOMAIN kept \subseteq ExtensionIds
    /\ next # 0 => KeptOf(kept, next - 1)
WholeOrNone(c) == c = NoCert \/ AdaptedWhole(c)
AnswerIsMade ==
    /\ answer.scope \subseteq Scopes /\ answer.known \in BOOLEAN
    /\ answer.claims = IF answer.known
                       THEN Claims(AdaptDn(cert.subject), answer.scope)
                       ELSE NoSubject
FieldsInv ==
    /\ cert \in ClientCerts
    /\ LoopKept
    /\ WholeOrNone(adapted) /\ WholeOrNone(stored)
    /\ AnswerIsMade

\* One extension more is kept as the loop keeps it.
LEMMA KeptOneMore ==
    ASSUME NEW n \in Nat, NEW k, KeptOf(k, n),
           NEW ext, ext = cert.extensions[n + 1], ~Unreadable(ext)
    PROVE  KeptOf(Keep(k, ext), n + 1)
<1> DEFINE more == Keep(k, ext)
           exts == cert.extensions
<1>1. 1 .. n + 1 = (1 .. n) \cup {n + 1}
  OBVIOUS
<1>2. \A i \in 1 .. n + 1 : ~Unreadable(exts[i])
  BY <1>1 DEF KeptOf
<1>3. CASE ext.id \notin ExtensionIds
  <2>1. /\ DOMAIN more = DOMAIN k
        /\ \A id \in DOMAIN k : more[id] = k[id]
    BY <1>3 DEF Keep, KeptOf
  <2> HIDE DEF more
  <2>2. DOMAIN more = {id \in ExtensionIds : \E i \in 1 .. n + 1 : exts[i].id = id}
    BY <1>1, <1>3, <2>1 DEF KeptOf
  <2>3. ASSUME NEW i \in 1 .. n + 1, exts[i].id \in ExtensionIds
        PROVE  \/ \E j \in 1 .. n + 1 : j > i /\ exts[j].id = exts[i].id
               \/ more[exts[i].id] = AdaptExtension(exts[i])
    <3>1. i \in 1 .. n /\ exts[i].id \in DOMAIN k
      BY <1>1, <1>3, <2>3 DEF KeptOf
    <3>2. more[exts[i].id] = k[exts[i].id]
      BY <2>1, <3>1
    <3> QED
      BY <1>1, <2>3, <3>1, <3>2 DEF KeptOf
  <2> QED
    BY <1>2, <2>2, <2>3 DEF KeptOf, more
<1>4. CASE ext.id \in ExtensionIds
  <2>1. /\ DOMAIN more = DOMAIN k \cup {ext.id}
        /\ more[ext.id] = AdaptExtension(ext)
        /\ \A id \in DOMAIN k : id # ext.id => more[id] = k[id]
    BY <1>4 DEF Keep
  <2> HIDE DEF more
  <2>2. DOMAIN more = {id \in ExtensionIds : \E i \in 1 .. n + 1 : exts[i].id = id}
    BY <1>1, <1>4, <2>1 DEF KeptOf
  <2>3. ASSUME NEW i \in 1 .. n + 1, exts[i].id \in ExtensionIds
        PROVE  \/ \E j \in 1 .. n + 1 : j > i /\ exts[j].id = exts[i].id
               \/ more[exts[i].id] = AdaptExtension(exts[i])
    <3>1. CASE i = n + 1
      BY <2>1, <3>1
    <3>2. CASE i \in 1 .. n /\ exts[i].id = ext.id
      <4>1. n + 1 > i /\ exts[n + 1].id = exts[i].id
        BY <3>2
      <4> QED
        BY <1>1, <4>1
    <3>3. CASE i \in 1 .. n /\ exts[i].id # ext.id
      <4>1. exts[i].id \in DOMAIN k
        BY <2>3, <3>3 DEF KeptOf
      <4>2. more[exts[i].id] = k[exts[i].id]
        BY <2>1, <3>3, <4>1
      <4>3. \/ \E j \in 1 .. n : j > i /\ exts[j].id = exts[i].id
            \/ k[exts[i].id] = AdaptExtension(exts[i])
        BY <2>3, <3>3 DEF KeptOf
      <4> QED
        BY <1>1, <4>2, <4>3
    <3> QED
      BY <1>1, <3>1, <3>2, <3>3
  <2> QED
    BY <1>2, <2>2, <2>3 DEF KeptOf, more
<1> QED
  BY <1>3, <1>4

\* What is kept, stored and answered is at any time made from the certificate alone.
LEMMA FieldsInvariant == FieldsSpec => []FieldsInv
<1>1. FieldsInit => FieldsInv
  <2> SUFFICES ASSUME FieldsInit PROVE FieldsInv
    OBVIOUS
  <2>1. Len(cert.extensions) \in Nat
    BY CertFacts DEF FieldsInit
  <2> QED
    BY <2>1 DEF FieldsInit, FieldsInv, LoopKept, WholeOrNone, AnswerIsMade, NoAnswer,
                NothingKept
<1>2. FieldsInv /\ [FieldsNext]_fieldsVars => FieldsInv'
  <2> SUFFICES ASSUME FieldsInv, [FieldsNext]_fieldsVars PROVE FieldsInv'
    OBVIOUS
  <2> DEFINE last == Len(cert.extensions)
  <2>1. /\ cert \in ClientCerts /\ last \in Nat
        /\ DOMAIN cert.extensions = 1 .. last
        /\ next \in 0 .. last + 1
    BY CertFacts DEF FieldsInv, LoopKept
  <2>2. CASE AdaptStart
    <3>1. KeptOf(NothingKept, 0)
      BY DEF KeptOf, NothingKept
    <3>2. cert' = cert /\ next' = 1 /\ kept' = NothingKept /\ adapted' = NoCert
          /\ UNCHANGED <<stored, answer>>
      BY <2>2 DEF AdaptStart
    <3>3. LoopKept'
      <4>1. DOMAIN NothingKept = {}
        BY DEF NothingKept
      <4> QED
        BY <2>1, <3>1, <3>2, <4>1 DEF LoopKept, KeptOf
    <3>4. WholeOrNone(adapted)' /\ WholeOrNone(stored)' /\ AnswerIsMade'
      BY <3>2 DEF FieldsInv, WholeOrNone, AdaptedWhole, KeptOf, AnswerIsMade
    <3> QED
      BY <2>1, <3>2, <3>3, <3>4 DEF FieldsInv
  <2>3. CASE AdaptNext
    <3> DEFINE ext == cert.extensions[next]
    <3>1. /\ next \in 1 .. last /\ ~Unreadable(ext)
          /\ cert' = cert /\ next' = next + 1 /\ kept' = Keep(kept, ext)
          /\ UNCHANGED <<adapted, stored, answer>>
      BY <2>1, <2>3 DEF AdaptNext
    <3>2. KeptOf(kept, next - 1)
      BY <3>1 DEF FieldsInv, LoopKept
    <3>3. KeptOf(Keep(kept, ext), next)
      <4>1. next - 1 \in Nat /\ (next - 1) + 1 = next
        BY <3>1
      <4> HIDE DEF last
      <4> QED
        BY <3>1, <3>2, <4>1, KeptOneMore
    <3>4. DOMAIN Keep(kept, ext) \subseteq ExtensionIds
      BY <3>3 DEF KeptOf
    <3>5. LoopKept'
      <4>1. next' \in 0 .. last + 1 /\ next' - 1 = next
        BY <2>1, <3>1
      <4> QED
        BY <3>1, <3>3, <3>4, <4>1 DEF LoopKept, KeptOf
    <3>6. WholeOrNone(adapted)' /\ WholeOrNone(stored)' /\ AnswerIsMade'
      BY <3>1 DEF FieldsInv, WholeOrNone, AdaptedWhole, KeptOf, AnswerIsMade
    <3> QED
      BY <2>1, <3>1, <3>5, <3>6 DEF FieldsInv
  <2>4. CASE AdaptThrows
    <3>1. /\ cert' = cert /\ next' = 0 /\ kept' = NothingKept
          /\ UNCHANGED <<adapted, stored, answer>>
      BY <2>4 DEF AdaptThrows
    <3>2. LoopKept'
      BY <2>1, <3>1 DEF LoopKept, NothingKept
    <3>3. WholeOrNone(adapted)' /\ WholeOrNone(stored)' /\ AnswerIsMade'
      BY <3>1 DEF FieldsInv, WholeOrNone, AdaptedWhole, KeptOf, AnswerIsMade
    <3> QED
      BY <2>1, <3>1, <3>2, <3>3 DEF FieldsInv
  <2>5. CASE AdaptDone
    <3>1. /\ cert' = cert /\ next' = 0 /\ kept' = NothingKept
          /\ adapted'.subject = AdaptDn(cert.subject)
          /\ adapted'.extensions = kept
          /\ next = last + 1
          /\ UNCHANGED <<stored, answer>>
      BY <2>5 DEF AdaptDone
    <3>2. LoopKept'
      BY <2>1, <3>1 DEF LoopKept, NothingKept
    <3>3. KeptOf(kept, last)
      <4>1. next # 0 /\ next - 1 = last
        BY <2>1, <3>1
      <4> QED
        BY <4>1 DEF FieldsInv, LoopKept
    <3>4. WholeOrNone(adapted)'
      BY <3>1, <3>3 DEF WholeOrNone, AdaptedWhole, KeptOf
    <3>5. WholeOrNone(stored)' /\ AnswerIsMade'
      BY <3>1 DEF FieldsInv, WholeOrNone, AdaptedWhole, KeptOf, AnswerIsMade
    <3> QED
      BY <2>1, <3>1, <3>2, <3>4, <3>5 DEF FieldsInv
  <2>6. CASE Login
    <3>1. UNCHANGED <<cert, next, kept, adapted, answer>> /\ stored' = adapted
      BY <2>6 DEF Login
    <3>2. LoopKept'
      BY <3>1 DEF FieldsInv, LoopKept, KeptOf
    <3>3. WholeOrNone(adapted)' /\ WholeOrNone(stored)' /\ AnswerIsMade'
      BY <3>1 DEF FieldsInv, WholeOrNone, AdaptedWhole, KeptOf, AnswerIsMade
    <3> QED
      BY <2>1, <3>1, <3>2, <3>3 DEF FieldsInv
  <2>7. CASE Forget
    <3>1. /\ cert' = cert /\ next' = 0 /\ kept' = NothingKept /\ adapted' = NoCert
          /\ stored' = NoCert /\ answer' = NoAnswer
      BY <2>7 DEF Forget
    <3> QED
      BY <2>1, <3>1
         DEF FieldsInv, LoopKept, NothingKept, WholeOrNone, AnswerIsMade, NoAnswer
  <2>8. ASSUME NEW scope \in SUBSET Scopes, FindAccount(scope)
        PROVE  FieldsInv'
    <3>1. /\ UNCHANGED <<cert, next, kept, adapted, stored>>
          /\ answer'.scope = scope /\ answer'.known = (stored # NoCert)
          /\ answer'.claims = IF stored = NoCert THEN NoSubject
                              ELSE Claims(stored.subject, scope)
      BY <2>8 DEF FindAccount
    <3>2. stored # NoCert => stored.subject = AdaptDn(cert.subject)
      BY DEF FieldsInv, WholeOrNone, AdaptedWhole
    <3>3. AnswerIsMade'
      BY <3>1, <3>2 DEF AnswerIsMade
    <3>4. LoopKept' /\ WholeOrNone(adapted)' /\ WholeOrNone(stored)'
      BY <3>1 DEF FieldsInv, LoopKept, WholeOrNone, AdaptedWhole, KeptOf
    <3> QED
      BY <2>1, <3>1, <3>3, <3>4 DEF FieldsInv
  <2>9. CASE UNCHANGED fieldsVars
    BY <2>9 DEF fieldsVars, FieldsInv, LoopKept, WholeOrNone, AdaptedWhole, KeptOf,
                AnswerIsMade
  <2> QED
    BY <2>2, <2>3, <2>4, <2>5, <2>6, <2>7, <2>8, <2>9 DEF FieldsNext
<1> QED
  BY <1>1, <1>2, PTL DEF FieldsSpec

\* What is adapted and stored of a subject, and what is released of it, are values
\* of one of the names or none, and the loop stays within the list.
THEOREM FieldsTypeCorrect == FieldsSpec => []FieldsTypeOK
<1>1. FieldsInv => FieldsTypeOK
  <2> SUFFICES ASSUME FieldsInv PROVE FieldsTypeOK
    OBVIOUS
  <2>1. AdaptDn(cert.subject) \in Subjects
    BY AdaptedName DEF FieldsInv
  <2>2. \A c \in {adapted, stored} : c = NoCert \/ c.subject \in Subjects
    BY <2>1 DEF FieldsInv, WholeOrNone, AdaptedWhole
  <2>3. Claims(AdaptDn(cert.subject), answer.scope) \in Subjects
    BY <2>1, ClaimsType
  <2> QED
    BY <2>2, <2>3 DEF FieldsInv, LoopKept, AnswerIsMade, FieldsTypeOK
<1> QED
  BY <1>1, FieldsInvariant, PTL

\* The claims of a token follow from its scopes and the certificate alone, in
\* whatever order tokens are asked for and the store is lost (findAccount).
THEOREM ClaimsByScope == FieldsSpec => []ClaimsFollowScope
<1>1. FieldsInv => ClaimsFollowScope
  BY DEF FieldsInv, AnswerIsMade, ClaimsFollowScope, Claims
<1> QED
  BY <1>1, FieldsInvariant, PTL

\* Of the extensions of a kind one, the last, is what is kept of them.
LEMMA KeptExtension ==
    ASSUME FieldsInv, stored # NoCert, NEW id \in ExtensionIds, Exts(id) # {}
    PROVE  \E ext \in Exts(id) :
               ext.id = id /\ stored.extensions[id] = AdaptExtension(ext)
<1> DEFINE exts == cert.extensions
           I == WithId(exts, id)
<1>1. I # {} /\ I \in SUBSET (1 .. Len(exts)) /\ Len(exts) \in Nat
  BY CertFacts DEF FieldsInv, Exts, WithId
<1>2. Max(I) \in I /\ \A j \in I : ~(j > Max(I))
  <2> HIDE DEF I
  <2> QED
    BY <1>1, Extremes
<1>3. KeptOf(stored.extensions, Len(exts))
  BY DEF FieldsInv, WholeOrNone, AdaptedWhole
<1>4. exts[Max(I)].id = id /\ Max(I) \in 1 .. Len(exts)
  BY <1>1, <1>2 DEF WithId
<1>5. ~\E j \in 1 .. Len(exts) : j > Max(I) /\ exts[j].id = id
  BY <1>1, <1>2, CertFacts DEF FieldsInv, WithId
<1>6. stored.extensions[id] = AdaptExtension(exts[Max(I)])
  BY <1>3, <1>4, <1>5 DEF KeptOf
<1>7. exts[Max(I)] \in Exts(id)
  BY <1>2 DEF Exts
<1> QED
  BY <1>4, <1>6, <1>7

\* What the loop leaves behind is what a reader of the whole list would keep, for
\* every list of extensions (adaptCertExtensions within the try of fromDer).
THEOREM StoredAsAWhole == FieldsSpec => []StoredWhole
<1>1. FieldsInv => StoredWhole
  <2> SUFFICES ASSUME FieldsInv, stored # NoCert, NEW id \in ExtensionIds
               PROVE  /\ \A ext \in Exts(id) : ext.parsed
                      /\ id \in DOMAIN stored.extensions <=> Exts(id) # {}
                      /\ \A i \in WithId(cert.extensions, id) :
                            \/ \E j \in WithId(cert.extensions, id) : j > i
                            \/ stored.extensions[id] =
                                   AdaptExtension(cert.extensions[i])
    BY DEF StoredWhole
  <2> DEFINE exts == cert.extensions
  <2>1. /\ KeptOf(stored.extensions, Len(exts))
        /\ DOMAIN exts = 1 .. Len(exts)
    BY CertFacts DEF FieldsInv, WholeOrNone, AdaptedWhole
  <2>2. ASSUME NEW ext \in Exts(id) PROVE ext.parsed
    <3>1. PICK i \in DOMAIN exts : ext = exts[i] /\ ext.id = id
      BY DEF Exts, WithId
    <3>2. cert \in ClientCerts /\ exts[i].parsed \in BOOLEAN
      BY CertFieldsAssumption DEF FieldsInv
    <3> QED
      BY <2>1, <3>1, <3>2 DEF KeptOf, Unreadable
  <2>3. id \in DOMAIN stored.extensions <=> Exts(id) # {}
    BY <2>1 DEF KeptOf, Exts, WithId
  <2>4. ASSUME NEW i \in WithId(exts, id)
        PROVE  \/ \E j \in WithId(exts, id) : j > i
               \/ stored.extensions[id] = AdaptExtension(exts[i])
    BY <2>1, <2>4 DEF KeptOf, WithId
  <2> QED
    BY <2>2, <2>3, <2>4
<1> QED
  BY <1>1, FieldsInvariant, PTL

\* c has the elements of a, which are 2 m, and behind them the two of b.
PairBehind(c, S, m, a, b) ==
    /\ c \in Seq(S) /\ Len(c) = 2 * (m + 1)
    /\ \A i \in 1 .. m : c[2 * i - 1] = a[2 * i - 1] /\ c[2 * i] = a[2 * i]
    /\ c[2 * (m + 1) - 1] = b[1] /\ c[2 * (m + 1)] = b[2]

\* A pair appended to a sequence of 2 m is found behind it.
LEMMA PairAppended ==
    ASSUME NEW S, NEW m \in Nat, NEW a \in Seq(S), NEW b \in Seq(S)
    PROVE  Len(a) = 2 * m /\ Len(b) = 2 => PairBehind(a \o b, S, m, a, b)
<1> HAVE Len(a) = 2 * m /\ Len(b) = 2
<1>1. /\ a \o b \in Seq(S) /\ Len(a \o b) = 2 * m + 2
      /\ \A k \in 1 .. 2 * m + 2 :
            (a \o b)[k] = IF k <= 2 * m THEN a[k] ELSE b[k - 2 * m]
  <2>1. /\ a \o b \in Seq(S) /\ Len(a \o b) = Len(a) + Len(b)
        /\ \A k \in 1 .. Len(a) + Len(b) :
              (a \o b)[k] = IF k <= Len(a) THEN a[k] ELSE b[k - Len(a)]
    BY ConcatProperties, Zenon
  <2> QED
    BY <2>1, Zenon
<1> DEFINE c == a \o b
<1>2. c \in Seq(S) /\ Len(c) = 2 * (m + 1)
  BY <1>1
<1>3. \A k \in 1 .. 2 * m + 2 : c[k] = IF k <= 2 * m THEN a[k] ELSE b[k - 2 * m]
  BY <1>1
<1> HIDE DEF c
<1>4. ASSUME NEW i \in 1 .. m
      PROVE  c[2 * i - 1] = a[2 * i - 1] /\ c[2 * i] = a[2 * i]
  <2>1. /\ 2 * i - 1 \in 1 .. 2 * m + 2 /\ 2 * i - 1 <= 2 * m
        /\ 2 * i \in 1 .. 2 * m + 2 /\ 2 * i <= 2 * m
    OBVIOUS
  <2> QED
    BY <1>3, <2>1
<1>5. c[2 * (m + 1) - 1] = b[1] /\ c[2 * (m + 1)] = b[2]
  <2>1. /\ 2 * (m + 1) - 1 = 2 * m + 1 /\ 2 * (m + 1) = 2 * m + 2
        /\ 2 * m + 1 \in 1 .. 2 * m + 2 /\ 2 * m + 2 \in 1 .. 2 * m + 2
        /\ ~(2 * m + 1 <= 2 * m) /\ ~(2 * m + 2 <= 2 * m)
        /\ (2 * m + 1) - 2 * m = 1 /\ (2 * m + 2) - 2 * m = 2
    OBVIOUS
  <2> QED
    BY <1>3, <2>1
<1> QED
  BY <1>2, <1>4, <1>5 DEF c, PairBehind

\* Pairs, joined: the two of the n-th stand at 2n - 1 and 2n.
LEMMA JoinedPairs ==
    ASSUME NEW S, NEW pairs, NEW n \in Nat \ {0}, Len(pairs) = n,
           \A i \in 1 .. n : pairs[i] \in Seq(S) /\ Len(pairs[i]) = 2
    PROVE  /\ Len(FlattenSeq(pairs)) = 2 * n
           /\ \A i \in 1 .. n : /\ FlattenSeq(pairs)[2 * i - 1] = pairs[i][1]
                                /\ FlattenSeq(pairs)[2 * i] = pairs[i][2]
<1>1. PICK F : F = Joining(pairs, F, n) /\ FlattenSeq(pairs) = F[n]
  BY Flattening
<1>2. \A m \in 1 .. n : F[m] = IF m = 1 THEN pairs[m] ELSE F[m - 1] \o pairs[m]
  <2> DEFINE J == Joining(pairs, F, n)
  <2>1. \A m \in 1 .. n : J[m] = IF m = 1 THEN pairs[m] ELSE F[m - 1] \o pairs[m]
    BY DEF Joining
  <2> HIDE DEF J
  <2> QED
    BY <1>1, <2>1 DEF J
<1> DEFINE Joined(m) ==
        /\ F[m] \in Seq(S) /\ Len(F[m]) = 2 * m
        /\ \A i \in 1 .. m : /\ F[m][2 * i - 1] = pairs[i][1]
                             /\ F[m][2 * i] = pairs[i][2]
           T == {m \in 1 .. n : Joined(m)}
<1>3. 1 \in T
  <2>1. F[1] = pairs[1] /\ 1 \in 1 .. n
    BY <1>2
  <2>2. \A i \in 1 .. 1 : i = 1
    OBVIOUS
  <2>3. Joined(1)
    BY <2>1, <2>2
  <2> QED
    BY <2>1, <2>3
<1>4. ASSUME NEW m \in 1 .. n - 1, m \in T
      PROVE  m + 1 \in T
  <2>1. m + 1 \in 1 .. n /\ m \in 1 .. n /\ (m + 1) - 1 = m /\ m + 1 # 1
    OBVIOUS
  <2>2. F[m + 1] = F[m] \o pairs[m + 1]
    BY <1>2, <2>1
  <2>3. Joined(m)
    BY <1>4
  <2>4. pairs[m + 1] \in Seq(S) /\ Len(pairs[m + 1]) = 2
    BY <2>1
  <2>5. /\ F[m + 1] \in Seq(S) /\ Len(F[m + 1]) = 2 * (m + 1)
        /\ \A i \in 1 .. m : /\ F[m + 1][2 * i - 1] = F[m][2 * i - 1]
                             /\ F[m + 1][2 * i] = F[m][2 * i]
        /\ F[m + 1][2 * (m + 1) - 1] = pairs[m + 1][1]
        /\ F[m + 1][2 * (m + 1)] = pairs[m + 1][2]
    <3>1. /\ m \in Nat /\ F[m] \in Seq(S) /\ Len(F[m]) = 2 * m
      BY <2>1, <2>3
    <3> DEFINE a == F[m]
               b == pairs[m + 1]
               c == F[m + 1]
    <3>2. /\ a \in Seq(S) /\ Len(a) = 2 * m /\ b \in Seq(S) /\ Len(b) = 2
          /\ c = a \o b
      BY <2>2, <2>4, <3>1
    <3> HIDE DEF a, b, c, Joined, T
    <3>3. PairBehind(a \o b, S, m, a, b)
      BY <3>1, <3>2, PairAppended, Zenon
    <3>4. PairBehind(c, S, m, a, b)
      BY <3>2, <3>3, Zenon
    <3> QED
      BY <3>4, Zenon DEF PairBehind, a, b, c
  <2>9. \A i \in 1 .. m + 1 : i \in 1 .. m \/ i = m + 1
    OBVIOUS
  <2>10. Joined(m + 1)
    BY <2>3, <2>5, <2>9
  <2> QED
    BY <2>1, <2>10
<1>5. 1 .. n \subseteq T
  <2> HIDE DEF T
  <2> QED
    BY <1>3, <1>4, UpTo
<1>6. Joined(n)
  BY <1>5
<1> QED
  BY <1>1, <1>6

\* The text of bytes that have two digits each tells what they were.
LEMMA HexDecodes ==
    ASSUME NEW bytes \in Seq(16 .. 255)
    PROVE  IF bytes = <<>> THEN Len(BufferToHex(bytes)) = 0
           ELSE /\ Len(BufferToHex(bytes)) = 2 * Len(bytes)
                /\ \A i \in 1 .. Len(bytes) :
                      bytes[i] = 16 * BufferToHex(bytes)[2 * i - 1]
                                     + BufferToHex(bytes)[2 * i]
<1> DEFINE pairs == [i \in DOMAIN bytes |-> HexDigits(bytes[i])]
           n == Len(bytes)
<1>1. n \in Nat /\ DOMAIN bytes = 1 .. n /\ \A i \in 1 .. n : bytes[i] \in 16 .. 255
  BY LenProperties, ElementOfSeq
<1>2. \A i \in 1 .. n : pairs[i] = <<bytes[i] \div 16, bytes[i] % 16>>
  <2> SUFFICES ASSUME NEW i \in 1 .. n
               PROVE  HexDigits(bytes[i]) = <<bytes[i] \div 16, bytes[i] % 16>>
    BY <1>1
  <2>1. bytes[i] \in 16 .. 255
    BY <1>1
  <2>2. \A byte \in 16 .. 255 : ~(byte < 16)
    OBVIOUS
  <2>3. ~(bytes[i] < 16)
    BY <2>1, <2>2, Zenon
  <2> QED
    BY <2>3 DEF HexDigits
<1>3. BufferToHex(bytes) = FlattenSeq(pairs)
  BY DEF BufferToHex
<1>4. Len(pairs) = n
  BY <1>1
<1> HIDE DEF pairs
<1>5. CASE n = 0
  <2>1. FlattenSeq(pairs) = pairs
    BY <1>4, <1>5 DEF FlattenSeq
  <2> QED
    BY <1>3, <1>4, <1>5, <2>1
<1>6. CASE n # 0
  <2>1. ASSUME NEW i \in 1 .. n
        PROVE  /\ pairs[i] \in Seq(Nat) /\ Len(pairs[i]) = 2
               /\ bytes[i] = 16 * pairs[i][1] + pairs[i][2]
    <3> DEFINE byte == bytes[i]
    <3>1. byte \in Nat
      <4>1. byte \in 16 .. 255
        BY <1>1
      <4> HIDE DEF byte
      <4> QED
        BY <4>1
    <3>2. pairs[i] = <<byte \div 16, byte % 16>>
      BY <1>2
    <3> HIDE DEF byte
    <3>3. /\ byte \div 16 \in Nat /\ byte % 16 \in Nat
          /\ byte = 16 * (byte \div 16) + (byte % 16)
      BY <3>1
    <3> QED
      BY <3>2, <3>3 DEF byte
  <2>2. /\ Len(FlattenSeq(pairs)) = 2 * n
        /\ \A i \in 1 .. n : /\ FlattenSeq(pairs)[2 * i - 1] = pairs[i][1]
                             /\ FlattenSeq(pairs)[2 * i] = pairs[i][2]
    <3>1. n \in Nat \ {0}
      BY <1>1, <1>6
    <3>2. \A i \in 1 .. n : pairs[i] \in Seq(Nat) /\ Len(pairs[i]) = 2
      BY <2>1
    <3> HIDE DEF n
    <3> QED
      BY <1>4, <3>1, <3>2, JoinedPairs
  <2> QED
    BY <1>1, <1>3, <1>6, <2>1, <2>2
<1> QED
  BY <1>5, <1>6

\* The texts of two identifiers, of any length, are different if the identifiers
\* are, unless a byte of them is written with one digit (bufferToHex).
THEOREM IdentifiersDiffer == FieldsSpec => []IdentifiersTold
<1>1. FieldsInv => IdentifiersTold
  <2> SUFFICES ASSUME FieldsInv, stored # NoCert,
                      NEW a \in Exts("authorityKeyIdentifier"),
                      NEW s \in Exts("subjectKeyIdentifier"),
                      Exts(a.id) = {a}, Exts(s.id) = {s},
                      stored.extensions[a.id] = stored.extensions[s.id],
                      \A ext \in {a, s} : \A i \in DOMAIN ext.bytes :
                          ~(ext.bytes[i] < 16)
               PROVE  a.bytes = s.bytes
    BY DEF IdentifiersTold
  <2>1. a.id = "authorityKeyIdentifier" /\ s.id = "subjectKeyIdentifier"
    BY DEF Exts, WithId
  <2>2. /\ a.bytes \in Seq(0 .. 255) /\ s.bytes \in Seq(0 .. 255)
    BY CertFacts DEF FieldsInv, Exts, WithId
  <2>3. a.bytes \in Seq(16 .. 255) /\ s.bytes \in Seq(16 .. 255)
    <3>1. ASSUME NEW bytes \in Seq(0 .. 255), \A i \in DOMAIN bytes : ~(bytes[i] < 16)
          PROVE  bytes \in Seq(16 .. 255)
      <4>1. /\ Len(bytes) \in Nat /\ DOMAIN bytes = 1 .. Len(bytes)
            /\ bytes \in [1 .. Len(bytes) -> 0 .. 255]
        BY LenProperties
      <4>2. \A i \in 1 .. Len(bytes) : bytes[i] \in 0 .. 255 /\ ~(bytes[i] < 16)
        BY <3>1, <4>1
      <4>3. \A b \in 0 .. 255 : ~(b < 16) => b \in 16 .. 255
        OBVIOUS
      <4>4. bytes \in [1 .. Len(bytes) -> 16 .. 255]
        BY <4>1, <4>2, <4>3, Zenon
      <4>5. Seq(16 .. 255) = UNION {[1 .. k -> 16 .. 255] : k \in Nat}
        BY SeqDef
      <4>6. [1 .. Len(bytes) -> 16 .. 255]
               \in {[1 .. k -> 16 .. 255] : k \in Nat}
        BY <4>1
      <4> DEFINE Written == {[1 .. k -> 16 .. 255] : k \in Nat}
      <4>7. bytes \in UNION Written
        <5> HIDE DEF Written
        <5> QED
          BY <4>4, <4>6, Zenon DEF Written
      <4> QED
        BY <4>5, <4>7, Zenon DEF Written
    <3> QED
      BY <2>2, <3>1
  <2>4. stored.extensions[a.id] = BufferToHex(a.bytes)
    <3>1. stored.extensions[a.id] = AdaptExtension(a)
      BY <2>1, KeptExtension DEF ExtensionIds
    <3> QED
      BY <2>1, <3>1 DEF AdaptExtension
  <2>5. stored.extensions[s.id] = BufferToHex(s.bytes)
    <3>1. stored.extensions[s.id] = AdaptExtension(s)
      BY <2>1, KeptExtension DEF ExtensionIds
    <3> QED
      BY <2>1, <3>1 DEF AdaptExtension
  <2>6. BufferToHex(a.bytes) = BufferToHex(s.bytes)
    BY <2>4, <2>5
  <2>7. Len(a.bytes) = Len(s.bytes)
    <3>1. ASSUME NEW bytes \in Seq(16 .. 255)
          PROVE  Len(BufferToHex(bytes)) = 2 * Len(bytes) /\ Len(bytes) \in Nat
      BY HexDecodes
    <3>2. 2 * Len(a.bytes) = 2 * Len(s.bytes)
          /\ Len(a.bytes) \in Nat /\ Len(s.bytes) \in Nat
      BY <2>3, <2>6, <3>1
    <3> QED
      BY <3>2
  <2>8. \A i \in 1 .. Len(a.bytes) : a.bytes[i] = s.bytes[i]
    <3> SUFFICES ASSUME NEW i \in 1 .. Len(a.bytes) PROVE a.bytes[i] = s.bytes[i]
      OBVIOUS
    <3> DEFINE hex == BufferToHex(a.bytes)
    <3>1. a.bytes # <<>> /\ s.bytes # <<>>
      BY <2>3, <2>7
    <3>2. a.bytes[i] = 16 * hex[2 * i - 1] + hex[2 * i]
      BY <2>3, <3>1, HexDecodes
    <3>3. s.bytes[i] = 16 * hex[2 * i - 1] + hex[2 * i]
      BY <2>3, <2>6, <2>7, <3>1, HexDecodes
    <3> QED
      BY <3>2, <3>3
  <2> QED
    BY <2>3, <2>7, <2>8, SeqEqual
<1> QED
  BY <1>1, FieldsInvariant, PTL

\* The powers of two that an octet is read with.
LEMMA Powers ==
    /\ 2 ^ 0 = 1 /\ 2 ^ 1 = 2 /\ 2 ^ 2 = 4 /\ 2 ^ 3 = 8
    /\ 2 ^ 4 = 16 /\ 2 ^ 5 = 32 /\ 2 ^ 6 = 64 /\ 2 ^ 7 = 128
OBVIOUS

\* n is one of the powers of two that an octet is read with, the one to p.
PowerIs(p, n) ==
    \/ p = 0 /\ n = 1
    \/ p = 1 /\ n = 2
    \/ p = 2 /\ n = 4
    \/ p = 3 /\ n = 8
    \/ p = 4 /\ n = 16
    \/ p = 5 /\ n = 32
    \/ p = 6 /\ n = 64
    \/ p = 7 /\ n = 128

\* There are no others.
LEMMA PowerOf ==
    ASSUME NEW p \in 0 .. 7
    PROVE  PowerIs(p, 2 ^ p)
<1>1. p = 0 \/ p = 1 \/ p = 2 \/ p = 3 \/ p = 4 \/ p = 5 \/ p = 6 \/ p = 7
  OBVIOUS
<1>2. /\ p = 0 => 2 ^ p = 1 
      /\ p = 1 => 2 ^ p = 2 
      /\ p = 2 => 2 ^ p = 4
      /\ p = 3 => 2 ^ p = 8 
      /\ p = 4 => 2 ^ p = 16
      /\ p = 5 => 2 ^ p = 32 
      /\ p = 6 => 2 ^ p = 64
      /\ p = 7 => 2 ^ p = 128
  BY Powers, Zenon
<1> QED
  BY <1>1, <1>2, Zenon DEF PowerIs

\* The octet, shifted twice, is the octet shifted once by both together.
ShiftsAdd(octet, first, second, both) == (octet \div first) \div second = octet \div both

LEMMA Shifting ==
    \A octet \in Nat : \A p, q, r \in 0 .. 7 : \A P, Q, R :
        r = p + q /\ PowerIs(p, P) /\ PowerIs(q, Q) /\ PowerIs(r, R)
            => ShiftsAdd(octet, P, Q, R)
<1> SUFFICES ASSUME NEW octet \in Nat, NEW p \in 0 .. 7, NEW q \in 0 .. 7,
                    NEW r \in 0 .. 7, NEW P, NEW Q, NEW R, r = p + q,
                    PowerIs(p, P), PowerIs(q, Q), PowerIs(r, R)
             PROVE  ShiftsAdd(octet, P, Q, R)
  OBVIOUS
<1> USE DEF ShiftsAdd
<1>0. p = 0 \/ p = 1 \/ p = 2 \/ p = 3 \/ p = 4 \/ p = 5 \/ p = 6 \/ p = 7
  OBVIOUS
<1>1. CASE p = 0
  BY <1>0, <1>1 DEF PowerIs
<1>2. CASE p = 1
  BY <1>0, <1>2 DEF PowerIs
<1>3. CASE p = 2
  BY <1>0, <1>3 DEF PowerIs
<1>4. CASE p = 3
  BY <1>0, <1>4 DEF PowerIs
<1>5. CASE p = 4
  BY <1>0, <1>5 DEF PowerIs
<1>6. CASE p = 5
  BY <1>0, <1>6 DEF PowerIs
<1>7. CASE p = 6
  BY <1>0, <1>7 DEF PowerIs
<1>8. CASE p = 7
  BY <1>0, <1>8 DEF PowerIs
<1> QED
  BY <1>0, <1>1, <1>2, <1>3, <1>4, <1>5, <1>6, <1>7, <1>8

\* There is an octet for any set of its bits.
LEMMA OctetExists ==
    ASSUME NEW B
    PROVE  \E o \in 0 .. 255 : \A k \in 0 .. 7 : OctetBit(o, k) <=> k \in B
<1> DEFINE w(k) == IF k \in B THEN 1 ELSE 0
           octet == 128 * w(0) + 64 * w(1) + 32 * w(2) + 16 * w(3)
                        + 8 * w(4) + 4 * w(5) + 2 * w(6) + w(7)
<1>1. \A k : w(k) \in 0 .. 1 /\ (w(k) = 1 <=> k \in B)
  OBVIOUS
<1> HIDE DEF w
<1>2. octet \in 0 .. 255
  BY <1>1
<1>3. /\ (octet \div 128) % 2 = w(0) /\ (octet \div 64) % 2 = w(1)
      /\ (octet \div 32) % 2 = w(2) /\ (octet \div 16) % 2 = w(3)
      /\ (octet \div 8) % 2 = w(4) /\ (octet \div 4) % 2 = w(5)
      /\ (octet \div 2) % 2 = w(6) /\ (octet \div 1) % 2 = w(7)
  BY <1>1
<1> HIDE DEF octet
<1>4. ASSUME NEW k \in 0 .. 7
      PROVE  (octet \div 2 ^ (7 - k)) % 2 = w(k)
  <2>1. 7 - k \in 0 .. 7
    OBVIOUS
  <2>2. PowerIs(7 - k, 2 ^ (7 - k))
    BY <2>1, PowerOf
  <2> QED
    BY <1>3, <2>2 DEF PowerIs
<1> QED
  BY <1>1, <1>2, <1>4 DEF OctetBit

\* The bits of the usages that one octet holds, and the highest of them.
LEMMA HighestBit ==
    ASSUME NEW usages \in SUBSET (Usages \ {"decipherOnly"}), usages # {}
    PROVE  /\ Bits(usages) \subseteq 0 .. 7
           /\ Max(Bits(usages)) \in 0 .. 7
           /\ \A b \in Bits(usages) : b <= Max(Bits(usages))
           /\ \A u \in Usages : u \in usages <=> KeyUsageBit[u] \in Bits(usages)
<1> DEFINE B == Bits(usages)
<1>1. \A u \in Usages : KeyUsageBit[u] \in 0 .. 8
          /\ (u # "decipherOnly" => KeyUsageBit[u] \in 0 .. 7)
  BY DEF Usages, KeyUsageBit
<1>2. \A u, v \in Usages : KeyUsageBit[u] = KeyUsageBit[v] => u = v
  BY DEF Usages, KeyUsageBit
<1>3. B \subseteq 0 .. 7 /\ B # {}
  BY <1>1 DEF Bits
<1>4. \A u \in Usages : u \in usages <=> KeyUsageBit[u] \in B
  BY <1>2 DEF Bits
<1> HIDE DEF B
<1>5. \E m \in B : \A b \in B : m >= b
  <2>1. \/ 7 \in B \/ 6 \in B \/ 5 \in B \/ 4 \in B
        \/ 3 \in B \/ 2 \in B \/ 1 \in B \/ 0 \in B
    <3>1. PICK b \in B : TRUE
      BY <1>3
    <3>2. \A n \in 0 .. 7 : n = 7 \/ n = 6 \/ n = 5 \/ n = 4
                              \/ n = 3 \/ n = 2 \/ n = 1 \/ n = 0
      OBVIOUS
    <3> QED
      BY <1>3, <3>1, <3>2
  <2> QED
    BY <1>3, <2>1
<1>6. Max(B) \in B /\ \A b \in B : Max(B) >= b
  BY <1>5 DEF Max
<1> QED
  BY <1>3, <1>4, <1>6 DEF B

\* What the adapter is given for them: one octet with these bits.
LEMMA OneOctet ==
    ASSUME NEW usages \in SUBSET (Usages \ {"decipherOnly"}), usages # {}
    PROVE  /\ Len(Octets(usages)) = 1
           /\ Octets(usages) # <<>>
           /\ Octets(usages)[1] \in 0 .. 255
           /\ \A k \in 0 .. 7 : OctetBit(Octets(usages)[1], k) <=> k \in Bits(usages)
           /\ UnusedBits(usages) = 7 - Max(Bits(usages))
<1> DEFINE m == Max(Bits(usages))
           chosen(i) == CHOOSE o \in 0 .. 255 : \A k \in 0 .. 7 :
                            OctetBit(o, k) <=> 8 * (i - 1) + k \in Bits(usages)
           octet == chosen(1)
<1>1. m \in 0 .. 7
  BY HighestBit
<1>2. m \div 8 = 0 /\ m % 8 = m
  <2> HIDE DEF m
  <2> QED
    BY <1>1
<1>3. /\ Octets(usages) = [i \in 1 .. 1 |-> chosen(i)]
      /\ Octets(usages)[1] = octet
  <2>1. Octets(usages) = [i \in 1 .. (m \div 8) + 1 |-> chosen(i)]
    BY Zenon DEF Octets
  <2> HIDE DEF chosen, m
  <2> QED
    BY <1>2, <2>1
<1>4. \A k \in 0 .. 7 : 8 * (1 - 1) + k = k
  OBVIOUS
<1>5. /\ octet \in 0 .. 255
      /\ \A k \in 0 .. 7 : OctetBit(octet, k) <=> k \in Bits(usages)
  BY <1>4, OctetExists
<1>6. UnusedBits(usages) = 7 - m
  BY <1>2 DEF UnusedBits
<1>7. Len(Octets(usages)) = 1 /\ Octets(usages) # <<>>
  <2> HIDE DEF chosen
  <2> QED
    BY <1>3
<1> QED
  BY <1>3, <1>5, <1>6, <1>7, Zenon

\* A usage is read of the shifted octet if and only if its bit was set in it.
LEMMA UsageRead ==
    ASSUME NEW B \in SUBSET (0 .. 7), NEW m \in 0 .. 7, \A b \in B : b <= m,
           NEW octet \in 0 .. 255, \A k \in 0 .. 7 : OctetBit(octet, k) <=> k \in B,
           NEW b \in 0 .. 8
    PROVE  IsSet(octet \div 2 ^ (7 - m), 8 - (7 - m), b) <=> b \in B
<1>1. 8 - (7 - m) = m + 1 /\ (m + 1) - 1 - b = m - b
  OBVIOUS
<1>2. CASE b > m
  <2>1. ~(b < m + 1)
    BY <1>2
  <2>2. b \notin B
    BY <1>2
  <2> QED
    BY <1>1, <2>1, <2>2 DEF IsSet
<1>3. CASE b <= m
  <2>1. /\ b < m + 1 /\ b \in 0 .. 7 /\ 7 - m \in 0 .. 7 /\ m - b \in 0 .. 7
        /\ 7 - b \in 0 .. 7 /\ 7 - b = (7 - m) + (m - b) /\ octet \in Nat
    BY <1>3
  <2>2. (octet \div 2 ^ (7 - m)) \div 2 ^ (m - b) = octet \div 2 ^ (7 - b)
    <3> DEFINE p == 7 - m
               q == m - b
               r == 7 - b
    <3>1. p \in 0 .. 7 /\ q \in 0 .. 7 /\ r \in 0 .. 7 /\ r = p + q
      BY <2>1
    <3> HIDE DEF p, q, r
    <3>2. PowerIs(p, 2 ^ p) /\ PowerIs(q, 2 ^ q) /\ PowerIs(r, 2 ^ r)
      BY <3>1, PowerOf
    <3>3. ShiftsAdd(octet, 2 ^ p, 2 ^ q, 2 ^ r)
      BY <2>1, <3>1, <3>2, Shifting, Zenon
    <3> QED
      BY <3>3 DEF ShiftsAdd, p, q, r
  <2>3. IsSet(octet \div 2 ^ (7 - m), 8 - (7 - m), b) <=> OctetBit(octet, b)
    BY <1>1, <2>1, <2>2 DEF IsSet, OctetBit
  <2> QED
    BY <2>1, <2>3
<1> QED
  BY <1>2, <1>3

\* Key usages of one octet, whatever they are.
LEMMA UsagesRead ==
    ASSUME NEW ext, ext.grants # {}, ext.grants \subseteq Usages \ {"decipherOnly"}
    PROVE  AdaptKeyUsage(ext).usages = ext.grants
<1> DEFINE usages == ext.grants
           octets == Octets(usages)
           unused == UnusedBits(usages)
           shifted == ShiftedBits(octets, unused)
           m == Max(Bits(usages))
           octet == octets[1]
<1>1. /\ Bits(usages) \in SUBSET (0 .. 7) /\ m \in 0 .. 7
      /\ \A b \in Bits(usages) : b <= m
      /\ \A u \in Usages : u \in usages <=> KeyUsageBit[u] \in Bits(usages)
  BY HighestBit
<1>2. /\ Len(octets) = 1 /\ octets # <<>> /\ octet \in 0 .. 255
      /\ \A k \in 0 .. 7 : OctetBit(octet, k) <=> k \in Bits(usages)
      /\ unused = 7 - m
  BY OneOctet
<1>3. shifted = octet \div 2 ^ (7 - m) /\ 8 * Len(octets) - unused = 8 - (7 - m)
  BY <1>2 DEF ShiftedBits
<1>4. AdaptKeyUsage(ext).usages =
          {u \in Usages : IsSet(shifted, 8 * Len(octets) - unused, KeyUsageBit[u])}
  BY <1>2 DEF AdaptKeyUsage
<1>5. \A u \in Usages : KeyUsageBit[u] \in 0 .. 8
  BY DEF Usages, KeyUsageBit
<1> HIDE DEF octets, unused, shifted, m
<1>6. ASSUME NEW u \in Usages
      PROVE  IsSet(shifted, 8 * Len(octets) - unused, KeyUsageBit[u]) <=> u \in usages
  <2>1. IsSet(octet \div 2 ^ (7 - m), 8 - (7 - m), KeyUsageBit[u])
            <=> KeyUsageBit[u] \in Bits(usages)
    BY <1>1, <1>2, <1>5, UsageRead
  <2> QED
    BY <1>1, <1>3, <2>1
<1> QED
  BY <1>4, <1>6

\* The key usages of a certificate that fit into one octet are read as they were
\* written, for every set of them (adaptKeyUsage, keyUsageBitSets).
THEOREM KeyUsageRead == FieldsSpec => []OneOctetRead
<1>1. FieldsInv => OneOctetRead
  <2> SUFFICES ASSUME FieldsInv, stored # NoCert, NEW usage \in Exts("keyUsage"),
                      Exts("keyUsage") = {usage},
                      usage.grants # {}, "decipherOnly" \notin usage.grants
               PROVE  stored.extensions["keyUsage"].usages = usage.grants
    BY DEF OneOctetRead
  <2>1. /\ stored.extensions["keyUsage"] = AdaptExtension(usage)
        /\ usage.id = "keyUsage"
    BY KeptExtension DEF ExtensionIds
  <2>2. stored.extensions["keyUsage"] = AdaptKeyUsage(usage)
    BY <2>1 DEF AdaptExtension
  <2>3. usage.grants \subseteq Usages
    <3>1. PICK i \in DOMAIN cert.extensions : usage = cert.extensions[i]
      BY DEF Exts, WithId
    <3> QED
      BY <2>1, <3>1, CertFieldsAssumption DEF FieldsInv
  <2>4. usage.grants \subseteq Usages \ {"decipherOnly"}
    BY <2>3
  <2> QED
    BY <2>2, <2>4, UsagesRead
<1> QED
  BY <1>1, FieldsInvariant, PTL

=============================================================================
