----------------------- MODULE CasChainHandlersProofs -----------------------
(***************************************************************************)
(* The two loops of the middleware compute what CertChain says they do,    *)
(* for every chain a peer may present, every set of anchors and every      *)
(* instant; and what the handlers behind them can rely on of the result.   *)
(***************************************************************************)
EXTENDS CasChainHandlers, TLAPS, WellFoundedInduction

-----------------------------------------------------------------------------
(* The chain that is computed, and what accepts it. *)

\* The least-number principle, for a set.
LEMMA LeastNumber ==
    ASSUME NEW S \in SUBSET Nat, S # {}
    PROVE  \E m \in S : \A k \in S : m <= k
<1> DEFINE R == OpToRel(<, Nat)
<1>1. IsWellFoundedOn(R, Nat)
  BY NatLessThanWellFounded
<1>2. \A x, y \in Nat : y < x => <<y, x>> \in R
  BY DEF OpToRel
<1> HIDE DEF R
<1>3. PICK m \in S : \A k \in S : ~(<<k, m>> \in R)
  BY <1>1, WFMin
<1>4. m \in Nat /\ \A k \in S : k \in Nat
  OBVIOUS
<1>5. \A k \in S : ~(k < m)
  BY <1>2, <1>3, <1>4
<1>6. \A k \in S : m <= k
  BY <1>4, <1>5
<1> QED
  BY <1>6

\* A presented chain is a finite sequence of certificates.
LEMMA PeerFacts ==
    ASSUME NEW p \in Peers
    PROVE  /\ Len(p) \in Nat
           /\ DOMAIN p = 1 .. Len(p)
           /\ p = <<>> <=> Len(p) = 0
           /\ \A i \in DOMAIN p : IsCert(p[i])
           /\ p \in Seq({p[i] : i \in DOMAIN p})
<1>1. p \in Seq({p[i] : i \in DOMAIN p}) /\ \A i \in DOMAIN p : IsCert(p[i])
  BY PeersAssumption DEF IsPeerChain
<1> QED
  BY <1>1

\* The adaptation loop ends, before the first serial number it has seen: the
\* choice in Visited is that of an existing number.
LEMMA VisitedStops ==
    ASSUME NEW p \in Peers
    PROVE  /\ Visited(p) \in 0 .. Len(p)
           /\ DistinctSerials(p, Visited(p))
           /\ Visited(p) < Len(p) => ~DistinctSerials(p, Visited(p) + 1)
<1> DEFINE L == Len(p)
           Stops(n) == n < L => ~DistinctSerials(p, n + 1)
           S == {n \in 0 .. L : Stops(n)}
<1>1. L \in Nat
  BY PeerFacts
<1>2. L \in S
  BY <1>1
<1>3. S \in SUBSET Nat /\ S # {}
  BY <1>1, <1>2
<1>4. PICK m \in S : \A k \in S : m <= k
  <2> HIDE DEF S
  <2> QED
    BY <1>3, LeastNumber
<1>5. m \in 0 .. L /\ Stops(m)
  OBVIOUS
<1>6. DistinctSerials(p, m)
  <2>1. CASE m = 0
    BY <2>1 DEF DistinctSerials
  <2>2. CASE m # 0
    <3>1. m - 1 \in 0 .. L /\ m - 1 < L /\ m - 1 < m
      BY <1>1, <1>5, <2>2
    <3>2. m - 1 \notin S
      <4> HIDE DEF S
      <4> QED
        BY <1>1, <1>4, <1>5, <3>1
    <3>3. DistinctSerials(p, (m - 1) + 1)
      BY <3>1, <3>2
    <3>4. (m - 1) + 1 = m
      BY <1>1, <1>5
    <3> QED
      BY <3>3, <3>4
  <2> QED
    BY <2>1, <2>2
<1>7. \E n \in 0 .. L : DistinctSerials(p, n) /\ Stops(n)
  BY <1>5, <1>6
<1> QED
  BY <1>7 DEF Visited

\* req.cas.clientCertificate, where it is defined, is the certificate that the
\* peer presented as its own, followed by those it presented behind it.
THEOREM ClientChainIsPrefix ==
    ASSUME NEW p \in Peers, ClientChain(p) # <<>>
    PROVE  /\ p # <<>>
           /\ Len(ClientChain(p)) \in 1 .. Len(p)
           /\ \A i \in 1 .. Len(ClientChain(p)) : ClientChain(p)[i] = p[i]
           /\ ClientChain(p)[1] = p[1]
<1> DEFINE n == Visited(p)
<1>1. n \in 0 .. Len(p) /\ Len(p) \in Nat
  BY VisitedStops, PeerFacts
<1>2. ClientChain(p) = SubSeq(p, 1, n)
  BY DEF ClientChain
<1> HIDE DEF n
<1>3. Len(SubSeq(p, 1, n)) = n /\ \A i \in 1 .. n : SubSeq(p, 1, n)[i] = p[i]
  BY <1>1, PeerFacts
<1>4. n # 0
  <2> SUFFICES ASSUME n = 0 PROVE SubSeq(p, 1, n) = <<>>
    BY <1>2
  <2> QED
    BY PeerFacts
<1> QED
  BY <1>1, <1>2, <1>3, <1>4, PeerFacts

\* Nobody is accepted without a certificate, nor without a trust anchor among
\* the certificates it presented (CasCertChainVerifyHandler counts a link only
\* when its issuer's digest is one of acceptedCAs, and Node only a chain that
\* ends in one).
THEOREM AcceptedIsAnchored ==
    ASSUME NEW p \in Peers, NEW t, Accepted(p, t)
    PROVE  \E i \in DOMAIN p : p[i].sha \in Anchors
<1>1. CASE TlsAuthorized(p, t)
  BY <1>1, PeerFacts DEF TlsAuthorized
<1>2. CASE VerifyChain(ClientChain(p), t)
  <2> DEFINE chain == ClientChain(p)
  <2>1. PICK k \in 1 .. Len(chain) - 1 : VerifiedLink(chain, k, t)
    BY <1>2 DEF VerifyChain
  <2>2. chain[k + 1].sha \in Anchors
    BY <2>1 DEF VerifiedLink
  <2>3. CASE chain # <<>>
    <3>1. Len(chain) \in 1 .. Len(p) /\ \A i \in 1 .. Len(chain) : chain[i] = p[i]
      BY <2>3, ClientChainIsPrefix
    <3>2. k + 1 \in 1 .. Len(chain) /\ k + 1 \in DOMAIN p
      <4> HIDE DEF chain
      <4> QED
        BY <2>1, <3>1, PeerFacts
    <3> QED
      BY <2>2, <3>1, <3>2
  <2>4. CASE chain = <<>>
    <3>1. Len(chain) = 0
      <4> HIDE DEF chain
      <4> QED
        BY <2>4
    <3> QED
      BY <2>1, <3>1
  <2> QED
    BY <2>3, <2>4
<1> QED
  BY <1>1, <1>2 DEF Accepted

-----------------------------------------------------------------------------
\* How far the adaptation loop gets.

\* It gets past every certificate whose predecessors and itself are distinct.
LEMMA VisitedAtLeast ==
    ASSUME NEW p \in Peers, NEW n \in 0 .. Len(p), DistinctSerials(p, n)
    PROVE  n <= Visited(p)
<1> DEFINE v == Visited(p)
<1>1. /\ v \in 0 .. Len(p) /\ Len(p) \in Nat
      /\ v < Len(p) => ~DistinctSerials(p, v + 1)
  BY VisitedStops, PeerFacts
<1> HIDE DEF v
<1>2. CASE v < n
  <2>1. v < Len(p) /\ 1 .. v + 1 \subseteq 1 .. n
    BY <1>1, <1>2
  <2>2. DistinctSerials(p, v + 1)
    BY <2>1 DEF DistinctSerials
  <2> QED
    BY <1>1, <2>1, <2>2
<1> QED
  BY <1>1, <1>2 DEF v

\* It stops where the next one is not there or was seen.
LEMMA VisitedIs ==
    ASSUME NEW p \in Peers, NEW n \in 0 .. Len(p), DistinctSerials(p, n),
           n < Len(p) => ~DistinctSerials(p, n + 1)
    PROVE  Visited(p) = n
<1> DEFINE v == Visited(p)
<1>1. v \in 0 .. Len(p) /\ Len(p) \in Nat /\ n <= v /\ DistinctSerials(p, v)
  BY VisitedStops, VisitedAtLeast, PeerFacts
<1> HIDE DEF v
<1>2. CASE n < v
  <2>1. n < Len(p) /\ 1 .. n + 1 \subseteq 1 .. v
    BY <1>1, <1>2
  <2>2. DistinctSerials(p, n + 1)
    BY <1>1, <2>1 DEF DistinctSerials
  <2> QED
    BY <2>1, <2>2
<1> QED
  BY <1>1, <1>2 DEF v

\* A prefix that grows by one.
LEMMA PrefixGrows ==
    ASSUME NEW S, NEW s \in Seq(S), NEW n \in 1 .. Len(s)
    PROVE  Append(SubSeq(s, 1, n - 1), s[n]) = SubSeq(s, 1, n)
BY SMT

\* The first certificates of a chain, as many as the loop has read.
LEMMA PrefixFacts ==
    ASSUME NEW S, NEW s \in Seq(S), NEW n \in 1 .. Len(s)
    PROVE  /\ Len(SubSeq(s, 1, n)) = n
           /\ SubSeq(s, 1, n) # <<>>
           /\ SubSeq(s, 1, 0) = <<>>
BY SMT

-----------------------------------------------------------------------------

\* The adaptation loop, before an iteration: everything in front of the current
\* certificate was seen and adapted or was found to be unreadable.
AdaptInv ==
    pc = "adapt" =>
        /\ link = 1
        /\ authorized => TlsAuthorized(peer, now)
        /\ peer # <<>> =>
            /\ current \in 1 .. Len(peer)
            /\ DistinctSerials(peer, current)
            /\ seenSerialNrs = {peer[i].serial : i \in 1 .. current - 1}
            /\ failed <=> \E i \in 1 .. current - 1 : peer[i].reads = "throws"
            /\ \A i \in 1 .. current - 1 : peer[i].reads # "failure"
            /\ ~failed => adapted = SubSeq(peer, 1, current - 1)

\* Between the two handlers.
VerifyInv ==
    pc = "verify" => link = 1 /\ (authorized => TlsAuthorized(peer, now))

\* The verification loop, before an iteration: all links below were parsed, and
\* none of them verified.
WalkInv ==
    pc = "walk" =>
        /\ ~authorized /\ ~failed
        /\ link \in 1 .. Len(adapted)
        /\ \A i \in 1 .. link : Parses(adapted[i])
        /\ \A k \in 1 .. link - 1 : ~VerifiedLink(adapted, k, now)

\* The result of the first handler, from its end on.
AdaptedInv == pc # "adapt" => clientCertificate = ClientChain(peer)

HInv == TypeOK /\ AdaptInv /\ VerifyInv /\ WalkInv /\ AdaptedInv
               /\ VerdictIsAnchored

-----------------------------------------------------------------------------
\* The adaptation loop.

\* The loop goes on with the next certificate, or has visited all it ever will.
LEMMA AdvanceMoves ==
    ASSUME HInv, pc = "adapt", peer # <<>>, Advance
    PROVE  /\ peer[current] \in {peer[i] : i \in 1 .. Len(peer)}
           /\ current' \in 0 .. Len(peer)
           /\ seenSerialNrs' = {peer[i].serial : i \in 1 .. current}
           /\ \/ /\ pc' = "adapt" /\ current' = current + 1
                 /\ current' \in 1 .. Len(peer)
                 /\ DistinctSerials(peer, current')
              \/ pc' = "verify" /\ Visited(peer) = current
<1> DEFINE next == IssuerOf(current)
           seen == seenSerialNrs \cup {peer[current].serial}
<1>1. /\ peer \in Peers /\ Len(peer) \in Nat /\ current \in 1 .. Len(peer)
      /\ DistinctSerials(peer, current)
      /\ seenSerialNrs = {peer[i].serial : i \in 1 .. current - 1}
  BY PeerFacts DEF HInv, TypeOK, AdaptInv
<1>2. seen = {peer[i].serial : i \in 1 .. current}
  <2>1. 1 .. current = (1 .. current - 1) \cup {current}
    BY <1>1
  <2> QED
    BY <1>1, <2>1
<1>3. /\ current' = next /\ seenSerialNrs' = seen
      /\ pc' = IF next # 0 /\ peer[next].serial \notin seen
               THEN "adapt" ELSE "verify"
  BY DEF Advance
<1>4. CASE current < Len(peer)
  <2>0. ~IsIssuer(peer[current], peer[current])
    <3>1. current \in 1 .. Len(peer) - 1
      BY <1>1, <1>4
    <3> QED
      BY <1>1, <3>1, PeersAssumption DEF IsPeerChain
  <2>1. next = current + 1 /\ next # 0 /\ next \in 1 .. Len(peer)
    BY <1>1, <1>4, <2>0 DEF IssuerOf
  <2>2. CASE peer[next].serial \notin seen
    <3>1. ASSUME NEW i \in 1 .. current + 1, NEW j \in 1 .. current + 1,
                 peer[i].serial = peer[j].serial
          PROVE  i = j
      <4>1. i = current + 1 \/ i \in 1 .. current
        BY <1>1
      <4>2. j = current + 1 \/ j \in 1 .. current
        BY <1>1
      <4> QED
        BY <1>1, <1>2, <2>1, <2>2, <3>1, <4>1, <4>2 DEF DistinctSerials
    <3>2. DistinctSerials(peer, current + 1)
      BY <3>1 DEF DistinctSerials
    <3> QED
      BY <1>1, <1>2, <1>3, <2>1, <2>2, <3>2
  <2>3. CASE peer[next].serial \in seen
    <3>1. PICK i \in 1 .. current : peer[i].serial = peer[current + 1].serial
      BY <1>2, <2>1, <2>3
    <3>2. /\ i \in 1 .. current + 1 /\ current + 1 \in 1 .. current + 1
          /\ i # current + 1
      BY <1>1
    <3>3. ~DistinctSerials(peer, current + 1)
      BY <3>1, <3>2 DEF DistinctSerials
    <3>4. Visited(peer) = current
      BY <1>1, <3>3, VisitedIs
    <3> QED
      BY <1>1, <1>2, <1>3, <2>1, <2>3, <3>4
  <2> QED
    BY <2>2, <2>3
<1>5. CASE ~(current < Len(peer))
  <2>1. current = Len(peer)
    BY <1>1, <1>5
  <2>2. Visited(peer) = current
    BY <1>1, <1>5, VisitedIs
  <2>3. next = current \/ next = 0
    BY <1>5 DEF IssuerOf
  <2>4. pc' = "verify"
    BY <1>3, <2>3
  <2> QED
    BY <1>1, <1>2, <1>3, <2>2, <2>3, <2>4
<1> QED
  BY <1>4, <1>5

\* What the chain of the client is when the loop has visited all.
LEMMA ChainWhenVisited ==
    ASSUME NEW p \in Peers, NEW n \in 1 .. Len(p), Visited(p) = n
    PROVE  ClientChain(p) = IF \E i \in 1 .. n : p[i].reads \in {"failure", "throws"}
                            THEN <<>> ELSE SubSeq(p, 1, n)
BY DEF ClientChain

\* An iteration that adapts.
LEMMA AdaptOkStep ==
    ASSUME HInv, AdaptOk
    PROVE  HInv'
<1>1. /\ pc = "adapt" /\ peer # <<>> /\ Advance
      /\ peer' = peer /\ now' = now /\ failed' = failed /\ link' = link
      /\ authorized' = authorized
      /\ peer[current].reads \in {"ok", "unparsed"}
      /\ adapted' = Append(adapted, peer[current])
  BY DEF AdaptOk, inputs
<1>2. /\ peer \in Peers /\ current \in 1 .. Len(peer)
      /\ peer \in Seq({peer[i] : i \in DOMAIN peer})
      /\ Len(peer) \in Nat
  BY <1>1, PeerFacts DEF HInv, TypeOK, AdaptInv
<1>3. ~failed => adapted' = SubSeq(peer, 1, current)
  BY <1>1, <1>2, PrefixGrows DEF HInv, AdaptInv
<1>4. 1 .. current = (1 .. current - 1) \cup {current}
  BY <1>2
<1>5. /\ failed <=> \E i \in 1 .. current : peer[i].reads = "throws"
      /\ \A i \in 1 .. current : peer[i].reads # "failure"
  BY <1>1, <1>4 DEF HInv, AdaptInv
<1>6. TypeOK'
  <2>1. pc' \in {"adapt", "verify"}
    BY <1>1, AdvanceMoves
  <2>2. seenSerialNrs' \subseteq {peer[i].serial : i \in 1 .. Len(peer)}
    BY <1>1, <1>2, AdvanceMoves
  <2>3. adapted' \in Seq({peer[i] : i \in 1 .. Len(peer)})
    BY <1>1, AdvanceMoves DEF HInv, TypeOK
  <2> QED
    BY <1>1, <2>1, <2>2, <2>3, AdvanceMoves DEF HInv, TypeOK
<1>7. CASE pc' = "adapt"
  <2>1. /\ current' = current + 1 /\ current' \in 1 .. Len(peer)
        /\ DistinctSerials(peer, current') /\ current' - 1 = current
        /\ seenSerialNrs' = {peer[i].serial : i \in 1 .. current}
    BY <1>1, <1>2, <1>7, AdvanceMoves
  <2>2. AdaptInv'
    BY <1>1, <1>3, <1>5, <2>1 DEF HInv, AdaptInv
  <2> QED
    BY <1>6, <1>7, <2>2 DEF HInv, VerifyInv, WalkInv, AdaptedInv,
                            VerdictIsAnchored
<1>8. CASE pc' = "verify"
  <2>1. Visited(peer) = current
    BY <1>1, <1>8, AdvanceMoves
  <2>2. clientCertificate' = ClientChain(peer)
    BY <1>1, <1>2, <1>3, <1>5, <2>1, ChainWhenVisited DEF clientCertificate
  <2>3. AdaptedInv'
    BY <1>1, <2>2 DEF AdaptedInv
  <2>4. VerifyInv'
    BY <1>1 DEF HInv, AdaptInv, VerifyInv
  <2> QED
    BY <1>6, <1>8, <2>3, <2>4 DEF HInv, AdaptInv, WalkInv, VerdictIsAnchored
<1> QED
  BY <1>1, <1>7, <1>8, AdvanceMoves

\* An iteration that threw.
LEMMA AdaptThrowsStep ==
    ASSUME HInv, AdaptThrows
    PROVE  HInv'
<1>1. /\ pc = "adapt" /\ peer # <<>> /\ Advance
      /\ peer' = peer /\ now' = now /\ failed' = TRUE /\ link' = link
      /\ authorized' = authorized /\ adapted' = adapted
      /\ peer[current].reads = "throws"
  BY DEF AdaptThrows, inputs
<1>2. peer \in Peers /\ current \in 1 .. Len(peer) /\ Len(peer) \in Nat
  BY <1>1, PeerFacts DEF HInv, TypeOK, AdaptInv
<1>3. 1 .. current = (1 .. current - 1) \cup {current}
  BY <1>2
<1>4. /\ \E i \in 1 .. current : peer[i].reads = "throws"
      /\ \A i \in 1 .. current : peer[i].reads # "failure"
  BY <1>1, <1>3 DEF HInv, AdaptInv
<1>5. TypeOK'
  <2>1. pc' \in {"adapt", "verify"}
    BY <1>1, AdvanceMoves
  <2>2. seenSerialNrs' \subseteq {peer[i].serial : i \in 1 .. Len(peer)}
    BY <1>1, <1>2, AdvanceMoves
  <2> QED
    BY <1>1, <2>1, <2>2, AdvanceMoves DEF HInv, TypeOK
<1>6. CASE pc' = "adapt"
  <2>1. /\ current' = current + 1 /\ current' \in 1 .. Len(peer)
        /\ DistinctSerials(peer, current') /\ current' - 1 = current
        /\ seenSerialNrs' = {peer[i].serial : i \in 1 .. current}
    BY <1>1, <1>2, <1>6, AdvanceMoves
  <2>2. AdaptInv'
    BY <1>1, <1>4, <2>1 DEF HInv, AdaptInv
  <2> QED
    BY <1>5, <1>6, <2>2 DEF HInv, VerifyInv, WalkInv, AdaptedInv,
                            VerdictIsAnchored
<1>7. CASE pc' = "verify"
  <2>1. Visited(peer) = current
    BY <1>1, <1>7, AdvanceMoves
  <2>2. clientCertificate' = ClientChain(peer)
    BY <1>1, <1>2, <1>4, <2>1, ChainWhenVisited DEF clientCertificate
  <2>3. AdaptedInv'
    BY <1>1, <2>2 DEF AdaptedInv
  <2>4. VerifyInv'
    BY <1>1 DEF HInv, AdaptInv, VerifyInv
  <2> QED
    BY <1>5, <1>7, <2>3, <2>4 DEF HInv, AdaptInv, WalkInv, VerdictIsAnchored
<1> QED
  BY <1>1, <1>6, <1>7, AdvanceMoves

\* The two ways in which there is no client certificate at once.
LEMMA NoneStep ==
    ASSUME HInv, NoCertificate \/ AdaptFailure
    PROVE  HInv'
<1>1. /\ pc = "adapt" /\ pc' = "verify" /\ failed' = TRUE
      /\ peer' = peer /\ now' = now /\ current' = current /\ link' = link
      /\ seenSerialNrs' = seenSerialNrs /\ adapted' = adapted
      /\ authorized' = authorized
  BY DEF NoCertificate, AdaptFailure, inputs
<1>2. peer \in Peers /\ Len(peer) \in Nat
  BY PeerFacts DEF HInv, TypeOK
<1>3. ClientChain(peer) = <<>>
  <2>1. CASE peer = <<>>
    BY <1>2, <2>1, ClientChainIsPrefix
  <2>2. CASE peer # <<>>
    <3>1. /\ current \in 1 .. Len(peer) /\ DistinctSerials(peer, current)
          /\ peer[current].reads = "failure"
      BY <1>1, <2>2 DEF NoCertificate, AdaptFailure, HInv, AdaptInv
    <3>2. current <= Visited(peer) /\ Visited(peer) \in 0 .. Len(peer)
      BY <1>2, <3>1, VisitedAtLeast, VisitedStops
    <3>3. current \in 1 .. Visited(peer)
      BY <1>2, <3>1, <3>2
    <3> QED
      BY <3>1, <3>3 DEF ClientChain
  <2> QED
    BY <2>1, <2>2
<1>4. AdaptedInv'
  BY <1>1, <1>3 DEF AdaptedInv, clientCertificate
<1>5. TypeOK'
  BY <1>1 DEF HInv, TypeOK
<1>6. VerifyInv'
  BY <1>1 DEF HInv, AdaptInv, VerifyInv
<1> QED
  BY <1>1, <1>4, <1>5, <1>6 DEF HInv, AdaptInv, WalkInv, VerdictIsAnchored

-----------------------------------------------------------------------------
\* The verification loop.

\* The chain check of no certificate and of one that nobody vouches for.
LEMMA ShortChain ==
    ASSUME NEW chain, NEW t, Len(chain) \in {0, 1}
    PROVE  ~VerifyChain(chain, t)
BY DEF VerifyChain

\* Leaving out the chain check.
LEMMA SkipStep ==
    ASSUME HInv, SkipVerify
    PROVE  HInv'
<1>1. /\ pc = "verify" /\ pc' = "done"
      /\ clientCertificate = <<>> \/ authorized
      /\ UNCHANGED <<peer, now, current, seenSerialNrs, adapted, failed, link,
                     authorized>>
  BY DEF SkipVerify, inputs
<1>2. clientCertificate = ClientChain(peer)
  BY <1>1 DEF HInv, AdaptedInv
<1>3. authorized \/ ~VerifyChain(ClientChain(peer), now)
  <2>1. CASE clientCertificate = <<>>
    <3>1. Len(ClientChain(peer)) = 0
      BY <1>2, <2>1
    <3> QED
      BY <3>1, ShortChain
  <2> QED
    BY <1>1, <2>1
<1>4. VerdictIsAnchored'
  BY <1>1, <1>3 DEF VerdictIsAnchored, HInv, VerifyInv, TypeOK
<1>5. TypeOK' /\ AdaptedInv'
  BY <1>1, <1>2 DEF HInv, TypeOK, AdaptedInv, clientCertificate
<1> QED
  BY <1>1, <1>4, <1>5 DEF HInv, AdaptInv, VerifyInv, WalkInv

\* The chain that the verification loop walks along.
LEMMA WalkedChain ==
    ASSUME HInv, pc # "adapt", clientCertificate # <<>>
    PROVE  /\ ~failed
           /\ adapted = ClientChain(peer)
           /\ Len(adapted) \in Nat \ {0}
<1>1. ~failed /\ adapted # <<>> /\ adapted = ClientChain(peer)
  BY DEF HInv, AdaptedInv, clientCertificate
<1>2. adapted \in Seq({peer[i] : i \in 1 .. Len(peer)})
  BY DEF HInv, TypeOK
<1> QED
  BY <1>1, <1>2

\* The client certificate is parsed before the loop.
LEMMA StartStep ==
    ASSUME HInv, StartVerify
    PROVE  HInv'
<1>1. /\ pc = "verify" /\ clientCertificate # <<>> /\ ~authorized
      /\ pc' = IF Parses(adapted[1]) THEN "walk" ELSE "thrown"
      /\ UNCHANGED <<peer, now, current, seenSerialNrs, adapted, failed, link,
                     authorized>>
  BY DEF StartVerify, inputs
<1>2. ~failed /\ adapted = ClientChain(peer) /\ Len(adapted) \in Nat \ {0}
  BY <1>1, WalkedChain
<1>3. link = 1
  BY <1>1 DEF HInv, VerifyInv
<1>4. WalkInv'
  BY <1>1, <1>2, <1>3 DEF WalkInv
<1>5. VerdictIsAnchored'
  <2>1. ASSUME ~Parses(adapted[1]) PROVE VerifyThrows(adapted, now)
    BY <1>2, <2>1 DEF VerifyThrows
  <2> QED
    BY <1>1, <1>2, <2>1 DEF VerdictIsAnchored
<1>6. TypeOK' /\ AdaptedInv'
  BY <1>1 DEF HInv, TypeOK, AdaptedInv, clientCertificate
<1> QED
  BY <1>1, <1>4, <1>5, <1>6 DEF HInv, AdaptInv, VerifyInv

\* The verdict of the loop, as that of the chain.
LEMMA WalkVerdict ==
    ASSUME HInv, pc = "walk"
    PROVE  /\ adapted = ClientChain(peer)
           /\ clientCertificate = ClientChain(peer)
           /\ Len(adapted) \in Nat /\ link \in 1 .. Len(adapted)
<1>1. ~failed /\ link \in 1 .. Len(adapted)
  BY DEF HInv, WalkInv
<1>2. adapted = ClientChain(peer)
  BY <1>1 DEF HInv, AdaptedInv, clientCertificate
<1>3. Len(adapted) \in Nat
  BY DEF HInv, TypeOK
<1> QED
  BY <1>1, <1>2, <1>3 DEF clientCertificate

\* One link.
LEMMA WalkLinkStep ==
    ASSUME HInv, WalkLink
    PROVE  HInv'
<1> DEFINE verified == VerifiedLink(adapted, link, now)
<1>1. /\ pc = "walk" /\ link < Len(adapted) /\ Parses(adapted[link + 1])
      /\ link' = link + 1 /\ authorized' = verified
      /\ pc' = IF GoesOn(verified) THEN "walk" ELSE "done"
      /\ UNCHANGED <<peer, now, current, seenSerialNrs, adapted, failed>>
  BY DEF WalkLink, inputs
<1>2. /\ adapted = ClientChain(peer) /\ Len(adapted) \in Nat
      /\ link \in 1 .. Len(adapted)
  BY <1>1, WalkVerdict
<1>3. /\ \A i \in 1 .. link + 1 : Parses(adapted[i])
      /\ \A k \in 1 .. link - 1 : ~VerifiedLink(adapted, k, now)
  <2>1. 1 .. link + 1 = (1 .. link) \cup {link + 1}
    BY <1>2
  <2> QED
    BY <1>1, <2>1 DEF HInv, WalkInv
<1>4. verified \in BOOLEAN
  BY DEF VerifiedLink
<1>5. WalkInv'
  <2> SUFFICES ASSUME pc' = "walk" PROVE WalkInv'
    BY DEF WalkInv
  <2>1. ~verified /\ link + 1 < Len(adapted)
    BY <1>1 DEF GoesOn
  <2>2. 1 .. (link + 1) - 1 = (1 .. link - 1) \cup {link}
    BY <1>2
  <2>3. \A k \in 1 .. (link + 1) - 1 : ~VerifiedLink(adapted, k, now)
    BY <1>3, <2>1, <2>2
  <2>4. link + 1 \in 1 .. Len(adapted)
    BY <1>2, <2>1
  <2> QED
    BY <1>1, <1>3, <2>1, <2>3, <2>4 DEF WalkInv, HInv
<1>6. VerdictIsAnchored'
  <2> SUFFICES ASSUME pc' = "done" PROVE verified <=> VerifyChain(adapted, now)
    BY <1>1, <1>2 DEF VerdictIsAnchored
  <2>1. CASE verified
    <3>1. link \in 1 .. Len(adapted) - 1
      BY <1>1, <1>2
    <3> QED
      BY <1>3, <2>1, <3>1 DEF VerifyChain
  <2>2. CASE ~verified
    <3>1. link + 1 = Len(adapted)
      BY <1>1, <1>2, <2>2 DEF GoesOn
    <3>2. 1 .. Len(adapted) - 1 = (1 .. link - 1) \cup {link}
      BY <1>2, <3>1
    <3> QED
      BY <1>3, <2>2, <3>2 DEF VerifyChain
  <2> QED
    BY <2>1, <2>2
<1>7. TypeOK'
  <2>1. link' \in Nat \ {0}
    BY <1>1, <1>2
  <2> QED
    BY <1>1, <1>4, <2>1 DEF HInv, TypeOK
<1>8. AdaptedInv'
  BY <1>1 DEF HInv, AdaptedInv, clientCertificate
<1> QED
  BY <1>1, <1>5, <1>6, <1>7, <1>8 DEF HInv, AdaptInv, VerifyInv

\* An issuer that is not parsed, and no issuer at all.
LEMMA WalkEndsStep ==
    ASSUME HInv, WalkThrows \/ WalkNoIssuer
    PROVE  HInv'
<1>1. /\ pc = "walk" /\ pc' \in {"thrown", "done"}
      /\ UNCHANGED <<peer, now, current, seenSerialNrs, adapted, failed, link,
                     authorized>>
  BY DEF WalkThrows, WalkNoIssuer, inputs
<1>2. /\ adapted = ClientChain(peer) /\ Len(adapted) \in Nat
      /\ link \in 1 .. Len(adapted)
  BY <1>1, WalkVerdict
<1>3. ~authorized /\ \A k \in 1 .. link - 1 : ~VerifiedLink(adapted, k, now)
  BY <1>1 DEF HInv, WalkInv
<1>4. CASE WalkThrows
  <2>1. link + 1 \in 1 .. Len(adapted) /\ (link + 1) - 2 = link - 1
    BY <1>2, <1>4 DEF WalkThrows
  <2>2. VerifyThrows(adapted, now)
    BY <1>3, <1>4, <2>1 DEF VerifyThrows, WalkThrows
  <2> QED
    BY <1>1, <1>2, <1>3, <1>4, <2>2
       DEF WalkThrows, HInv, TypeOK, AdaptInv, VerifyInv, WalkInv, AdaptedInv,
           clientCertificate, VerdictIsAnchored
<1>5. CASE WalkNoIssuer
  <2>1. Len(adapted) - 1 = link - 1
    BY <1>2, <1>5 DEF WalkNoIssuer
  <2>2. ~VerifyChain(adapted, now)
    BY <1>3, <2>1 DEF VerifyChain
  <2> QED
    BY <1>1, <1>2, <1>3, <1>5, <2>2
       DEF WalkNoIssuer, HInv, TypeOK, AdaptInv, VerifyInv, WalkInv, AdaptedInv,
           clientCertificate, VerdictIsAnchored
<1> QED
  BY <1>4, <1>5

-----------------------------------------------------------------------------

\* Before the handlers.
LEMMA HandlersInit ==
    ASSUME Init
    PROVE  HInv
<1>1. peer \in Peers /\ Len(peer) \in Nat /\ (peer = <<>> <=> Len(peer) = 0)
  BY PeerFacts DEF Init
<1>2. /\ peer # <<>> => peer \in Seq({peer[i] : i \in DOMAIN peer})
      /\ now \in Times /\ pc = "adapt" /\ link = 1 /\ ~failed
      /\ seenSerialNrs = {} /\ adapted = <<>>
      /\ current = IF peer = <<>> THEN 0 ELSE 1
      /\ authorized \in {FALSE, TlsAuthorized(peer, now)}
  BY <1>1, PeerFacts DEF Init
<1>3. authorized \in BOOLEAN
  BY <1>2 DEF TlsAuthorized
<1>4. TypeOK
  <2>1. current \in 0 .. Len(peer)
    BY <1>1, <1>2
  <2>2. failed \in BOOLEAN /\ link \in Nat \ {0} /\ pc = "adapt"
    <3>1. failed = FALSE /\ link = 1 /\ pc = "adapt"
      BY DEF Init
    <3>2. failed \in BOOLEAN
      BY <3>1, Zenon
    <3>3. link \in Nat \ {0}
      BY <3>1
    <3> QED
      BY <3>1, <3>2, <3>3
  <2>3. <<>> \in Seq({peer[i] : i \in 1 .. Len(peer)})
    OBVIOUS
  <2>4. adapted \in Seq({peer[i] : i \in 1 .. Len(peer)})
    BY <1>2, <2>3
  <2>5. seenSerialNrs \subseteq {peer[i].serial : i \in 1 .. Len(peer)}
    BY <1>2
  <2> QED
    BY <1>1, <1>2, <1>3, <2>1, <2>2, <2>4, <2>5, Zenon DEF TypeOK
<1>5. AdaptInv
  <2> SUFFICES ASSUME peer # <<>>
               PROVE  /\ current \in 1 .. Len(peer)
                      /\ DistinctSerials(peer, current)
                      /\ seenSerialNrs = {peer[i].serial : i \in 1 .. current - 1}
                      /\ failed <=> \E i \in 1 .. current - 1 : peer[i].reads = "throws"
                      /\ \A i \in 1 .. current - 1 : peer[i].reads # "failure"
                      /\ ~failed => adapted = SubSeq(peer, 1, current - 1)
    BY <1>2 DEF AdaptInv
  <2>1. current = 1 /\ 1 \in 1 .. Len(peer) /\ 1 .. current - 1 = {}
    BY <1>1, <1>2
  <2>2. SubSeq(peer, 1, 0) = <<>>
    BY <1>2, <2>1, PrefixFacts
  <2> QED
    BY <1>2, <2>1, <2>2 DEF DistinctSerials
<1> QED
  BY <1>2, <1>4, <1>5 DEF HInv, VerifyInv, WalkInv, AdaptedInv,
                          VerdictIsAnchored

\* The invariant of both loops.
LEMMA HandlersInvariant == Spec => []HInv
<1>1. HInv /\ [Next]_vars => HInv'
  <2> SUFFICES ASSUME HInv, [Next]_vars PROVE HInv'
    OBVIOUS
  <2>1. CASE UNCHANGED vars
    BY <2>1 DEF vars, HInv, TypeOK, AdaptInv, VerifyInv, WalkInv, AdaptedInv,
                clientCertificate, VerdictIsAnchored
  <2> QED
    BY <2>1, AdaptOkStep, AdaptThrowsStep, NoneStep, SkipStep, StartStep,
       WalkLinkStep, WalkEndsStep DEF Next
<1> QED
  BY <1>1, HandlersInit, PTL DEF Spec

\* Every variable of the handlers stays within its type.
THEOREM HandlersTypeCorrect == Spec => []TypeOK
<1>1. HInv => TypeOK
  BY DEF HInv
<1> QED
  BY <1>1, HandlersInvariant, PTL

\* The adaptation loop yields the prefix of the presented chain that CertChain
\* says it does, or nothing.
THEOREM LoopAdaptsPrefix == Spec => []AdaptsWholePrefix
<1>1. HInv => AdaptsWholePrefix
  BY DEF HInv, AdaptedInv, AdaptsWholePrefix, Finished
<1> QED
  BY <1>1, HandlersInvariant, PTL

\* The verification loop authorizes exactly whom CertChain's verdict is for, and
\* throws exactly where it says.
THEOREM LoopVerdictIsAnchored == Spec => []VerdictIsAnchored
<1>1. HInv => VerdictIsAnchored
  BY DEF HInv
<1> QED
  BY <1>1, HandlersInvariant, PTL

\* Who puts anchors only right above the certificates of clients loses nothing
\* by links that fail being passed over.
AnchorsRightAbove == \A i \in 3 .. Len(peer) : peer[i].sha \notin Anchors

\* A client whose certificate is not within its validity is authorized only if
\* what is vouched for is one of its issuers: never where no certificate from
\* the third on is an anchor (the loop of CasCertChainVerifyHandler, which goes
\* on behind a link that failed).
THEOREM LeafInTimeBelowAnchors == Spec => [](AnchorsRightAbove => AuthorizedLeafInTime)
<1> DEFINE chain == ClientChain(peer)
<1>1. ASSUME HInv, AnchorsRightAbove, pc = "done", authorized
      PROVE  CheckTimeValidity(peer[1], now)
  <2>1. peer \in Peers /\ Len(peer) \in Nat
    BY <1>1, PeerFacts DEF HInv, TypeOK
  <2>2. CASE TlsAuthorized(peer, now)
    BY <2>1, <2>2 DEF TlsAuthorized
  <2>3. CASE VerifyChain(chain, now)
    <3>1. PICK k \in 1 .. Len(chain) - 1 : VerifiedLink(chain, k, now)
      BY <2>3 DEF VerifyChain
    <3>2. chain # <<>>
      BY <3>1
    <3>3. /\ Len(chain) \in 1 .. Len(peer)
          /\ \A i \in 1 .. Len(chain) : chain[i] = peer[i]
      BY <2>1, <3>2, ClientChainIsPrefix
    <3> HIDE DEF chain
    <3>4. k + 1 \in 1 .. Len(chain) /\ k + 1 \in 1 .. Len(peer) /\ k \in 1 .. Len(chain)
      BY <2>1, <3>1, <3>3
    <3>5. peer[k + 1].sha \in Anchors
      BY <3>1, <3>3, <3>4 DEF VerifiedLink
    <3>6. k = 1
      BY <1>1, <2>1, <3>4, <3>5 DEF AnchorsRightAbove
    <3> QED
      BY <3>1, <3>3, <3>4, <3>6 DEF VerifiedLink
  <2>4. TlsAuthorized(peer, now) \/ VerifyChain(chain, now)
    BY <1>1 DEF HInv, VerdictIsAnchored
  <2> QED
    BY <2>2, <2>3, <2>4
<1>2. HInv => (AnchorsRightAbove => AuthorizedLeafInTime)
  BY <1>1 DEF AuthorizedLeafInTime
<1> QED
  BY <1>2, HandlersInvariant, PTL

-----------------------------------------------------------------------------
\* The two handlers as one step.

\* The step of a connection reads the same chain and gives the same verdicts:
\* its operators are those of CertChain, for a chain that hangs on a socket.
LEMMA StepOfSocket ==
    /\ OneStep!VerifyFails("socket")
         <=> ~authorized /\ VerifyThrows(ClientChain(peer), now)
    /\ OneStep!Verify("socket")
         <=> [c \in {"socket"} |-> authorized']
               = [c \in {"socket"} |->
                    authorized \/ VerifyChain(ClientChain(peer), now)]
<1>1. OneStep!CasChain("socket") = ClientChain(peer)
  <2>1. ASSUME NEW p
        PROVE  OneStep!ClientChain(p) = ClientChain(p)
    <3>1. ASSUME NEW n PROVE OneStep!DistinctSerials(p, n) = DistinctSerials(p, n)
      BY DEF OneStep!DistinctSerials, DistinctSerials
    <3>2. OneStep!Visited(p) = Visited(p)
      BY <3>1, Zenon DEF OneStep!Visited, Visited
    <3> QED
      BY <3>2, Zenon DEF OneStep!ClientChain, ClientChain
  <2>2. [c \in {"socket"} |-> peer]["socket"] = peer
    OBVIOUS
  <2> QED
    BY <2>1, <2>2 DEF OneStep!CasChain
<1>2. ASSUME NEW chain, NEW at
      PROVE  /\ OneStep!VerifyThrows(chain, at) <=> VerifyThrows(chain, at)
             /\ OneStep!VerifyChain(chain, at) = VerifyChain(chain, at)
  BY DEF OneStep!VerifyThrows, VerifyThrows, OneStep!VerifyChain, VerifyChain,
         OneStep!VerifiedLink, VerifiedLink, OneStep!Parses, Parses,
         OneStep!CheckTimeValidity, CheckTimeValidity, OneStep!IsIssuer, IsIssuer
<1>3. OneStep!VerifyFails("socket")
        <=> ~authorized /\ VerifyThrows(ClientChain(peer), now)
  BY <1>1, <1>2 DEF OneStep!VerifyFails
<1>4. OneStep!Verify("socket")
        <=> [c \in {"socket"} |-> authorized']
              = [[c \in {"socket"} |-> authorized] EXCEPT
                   !["socket"] = authorized \/ VerifyChain(ClientChain(peer), now)]
  BY <1>1, <1>2 DEF OneStep!Verify
<1>5. [[c \in {"socket"} |-> authorized] EXCEPT
         !["socket"] = authorized \/ VerifyChain(ClientChain(peer), now)]
        = [c \in {"socket"} |->
             authorized \/ VerifyChain(ClientChain(peer), now)]
  OBVIOUS
<1> QED
  BY <1>3, <1>4, <1>5

\* The last iteration leaves the verdict of the whole chain, and met no
\* certificate it could not parse in front of the verifying link.
LEMMA LastLink ==
    ASSUME HInv, WalkLink, pc' # "walk"
    PROVE  /\ pc' = "done"
           /\ authorized' = VerifyChain(ClientChain(peer), now)
           /\ ~VerifyThrows(ClientChain(peer), now)
<1> DEFINE verified == VerifiedLink(adapted, link, now)
<1>1. /\ pc = "walk" /\ link < Len(adapted) /\ Parses(adapted[link + 1])
      /\ authorized' = verified
      /\ pc' = "done" /\ ~GoesOn(verified)
  BY DEF WalkLink
<1>2. /\ adapted = ClientChain(peer) /\ Len(adapted) \in Nat
      /\ link \in 1 .. Len(adapted)
  BY <1>1, WalkVerdict
<1>3. /\ \A i \in 1 .. link + 1 : Parses(adapted[i])
      /\ \A k \in 1 .. link - 1 : ~VerifiedLink(adapted, k, now)
  <2>1. 1 .. link + 1 = (1 .. link) \cup {link + 1}
    BY <1>2
  <2> QED
    BY <1>1, <2>1 DEF HInv, WalkInv
<1>4. CASE verified
  <2>1. link \in 1 .. Len(adapted) - 1
    BY <1>1, <1>2
  <2>2. VerifyChain(adapted, now)
    BY <1>3, <1>4, <2>1 DEF VerifyChain
  <2>3. ASSUME NEW n \in 1 .. Len(adapted), ~Parses(adapted[n])
        PROVE  \E k \in 1 .. n - 2 : VerifiedLink(adapted, k, now)
    <3>1. link \in 1 .. n - 2
      BY <1>2, <1>3, <2>3
    <3> QED
      BY <1>4, <3>1
  <2>4. ~VerifyThrows(adapted, now)
    BY <2>3 DEF VerifyThrows
  <2>5. authorized' = VerifyChain(adapted, now)
    BY <1>1, <1>4, <2>2 DEF VerifyChain, VerifiedLink
  <2> QED
    BY <1>1, <1>2, <2>4, <2>5
<1>5. CASE ~verified
  <2>1. link + 1 = Len(adapted)
    BY <1>1, <1>2, <1>5 DEF GoesOn
  <2>2. 1 .. Len(adapted) - 1 = (1 .. link - 1) \cup {link}
    BY <1>2, <2>1
  <2>3. ~VerifyChain(adapted, now)
    BY <1>3, <1>5, <2>2 DEF VerifyChain
  <2>4. ~VerifyThrows(adapted, now)
    BY <1>3, <2>1 DEF VerifyThrows
  <2>5. authorized' = VerifyChain(adapted, now)
    BY <1>1, <1>5, <2>3 DEF VerifyChain, VerifiedLink
  <2> QED
    BY <1>1, <1>2, <2>4, <2>5
<1> QED
  BY <1>4, <1>5

\* Where the check is left out, it would have changed nothing: the socket is
\* authorized, or there is no chain to authorize it or to throw over.
LEMMA SkippedCheck ==
    ASSUME HInv, SkipVerify
    PROVE  /\ authorized \/ ~VerifyChain(ClientChain(peer), now)
           /\ ~(~authorized /\ VerifyThrows(ClientChain(peer), now))
<1>1. clientCertificate = ClientChain(peer)
  BY DEF SkipVerify, HInv, AdaptedInv
<1>2. CASE authorized
  BY <1>2
<1>3. CASE clientCertificate = <<>>
  <2>1. Len(ClientChain(peer)) = 0
    BY <1>1, <1>3
  <2> QED
    BY <2>1 DEF VerifyChain, VerifyThrows
<1> QED
  BY <1>2, <1>3 DEF SkipVerify

\* A certificate nobody was presented for: the loop ends where it has passed
\* every link and has parsed every certificate.
LEMMA NoIssuerLeft ==
    ASSUME HInv, WalkNoIssuer
    PROVE  /\ ~VerifyChain(ClientChain(peer), now)
           /\ ~VerifyThrows(ClientChain(peer), now)
<1>1. pc = "walk" /\ link >= Len(adapted)
  BY DEF WalkNoIssuer
<1>2. /\ adapted = ClientChain(peer) /\ Len(adapted) \in Nat
      /\ link \in 1 .. Len(adapted)
  BY <1>1, WalkVerdict
<1>3. link = Len(adapted)
  BY <1>1, <1>2
<1>4. /\ \A i \in 1 .. Len(adapted) : Parses(adapted[i])
      /\ \A k \in 1 .. Len(adapted) - 1 : ~VerifiedLink(adapted, k, now)
  BY <1>1, <1>3 DEF HInv, WalkInv
<1> QED
  BY <1>2, <1>4 DEF VerifyChain, VerifyThrows

\* Where the handler throws, the step of a connection fails.
LEMMA ThrowsOnChain ==
    ASSUME HInv, StartVerify \/ WalkThrows, pc' = "thrown"
    PROVE  /\ ~authorized /\ UNCHANGED authorized
           /\ VerifyThrows(ClientChain(peer), now)
<1>1. CASE StartVerify
  <2>1. /\ adapted = ClientChain(peer) /\ Len(adapted) \in Nat \ {0}
        /\ ~Parses(adapted[1]) /\ ~authorized
    BY <1>1, WalkedChain DEF StartVerify
  <2>2. 1 \in 1 .. Len(adapted) /\ 1 .. 1 - 2 = {}
    BY <2>1
  <2>3. VerifyThrows(adapted, now)
    BY <2>1, <2>2 DEF VerifyThrows
  <2> QED
    BY <1>1, <2>1, <2>3 DEF StartVerify
<1>2. CASE WalkThrows
  <2>1. pc = "walk" /\ link < Len(adapted) /\ ~Parses(adapted[link + 1])
    BY <1>2 DEF WalkThrows
  <2>2. /\ adapted = ClientChain(peer) /\ Len(adapted) \in Nat
        /\ link \in 1 .. Len(adapted)
    BY <2>1, WalkVerdict
  <2>3. link + 1 \in 1 .. Len(adapted) /\ (link + 1) - 2 = link - 1
    BY <2>1, <2>2
  <2>4. VerifyThrows(adapted, now)
    BY <2>1, <2>3 DEF VerifyThrows, HInv, WalkInv
  <2> QED
    BY <1>2, <2>1, <2>2, <2>4 DEF WalkThrows, HInv, WalkInv
<1> QED
  BY <1>1, <1>2

\* The step that ends both handlers.
LEMMA DoneStep ==
    ASSUME HInv, Next, pc' = "done"
    PROVE  ~OneStep!VerifyFails("socket") /\ OneStep!Verify("socket")
<1> DEFINE chain == ClientChain(peer)
<1>1. SkipVerify \/ WalkLink \/ WalkNoIssuer
  BY DEF Next, NoCertificate, AdaptOk, AdaptFailure, AdaptThrows, Advance,
         StartVerify, WalkThrows
<1>2. authorized \in BOOLEAN
  BY DEF HInv, TypeOK
<1>3. CASE SkipVerify
  <2>1. authorized' = authorized
    BY <1>3 DEF SkipVerify
  <2> QED
    BY <1>2, <1>3, <2>1, SkippedCheck, StepOfSocket
<1>4. CASE WalkLink
  <2>1. ~authorized
    BY <1>4 DEF WalkLink, HInv, WalkInv
  <2>2. authorized' = VerifyChain(chain, now) /\ ~VerifyThrows(chain, now)
    BY <1>4, LastLink
  <2>3. authorized' = (authorized \/ VerifyChain(chain, now))
    BY <1>2, <2>1, <2>2 DEF VerifyChain
  <2> QED
    BY <2>1, <2>2, <2>3, StepOfSocket
<1>5. CASE WalkNoIssuer
  <2>1. authorized' = authorized
    BY <1>5 DEF WalkNoIssuer
  <2> QED
    BY <1>2, <1>5, <2>1, NoIssuerLeft, StepOfSocket
<1> QED
  BY <1>1, <1>3, <1>4, <1>5

\* The two handlers, iteration by iteration, implement the one step that the
\* rest of the system takes them for: they write to the socket once, at the end,
\* and what they write there is the verdict of the whole chain.
THEOREM LoopsAreOneStep == Spec => HandlersAreOneStep
<1>1. ASSUME HInv, Next PROVE PartOfOneStep
  <2>1. UNCHANGED inputs
    BY <1>1 DEF Next, NoCertificate, AdaptOk, AdaptFailure, AdaptThrows,
                SkipVerify, StartVerify, WalkLink, WalkThrows, WalkNoIssuer
  <2>2. ASSUME pc' = "done"
        PROVE  ~OneStep!VerifyFails("socket") /\ OneStep!Verify("socket")
    BY <1>1, <2>2, DoneStep
  <2>3. ASSUME pc' = "thrown"
        PROVE  OneStep!VerifyFails("socket")
    <3>1. StartVerify \/ WalkThrows
      BY <1>1, <2>3, LastLink
         DEF Next, NoCertificate, AdaptOk, AdaptFailure, AdaptThrows, Advance,
             SkipVerify, WalkNoIssuer
    <3> QED
      BY <1>1, <2>3, <3>1, ThrowsOnChain, StepOfSocket
  <2>4. ASSUME pc' # "done" PROVE UNCHANGED authorized
    <3>1. ASSUME WalkLink PROVE authorized' = authorized
      <4>1. pc' = "walk" /\ GoesOn(VerifiedLink(adapted, link, now))
        BY <2>4, <3>1 DEF WalkLink
      <4>2. ~authorized' /\ ~authorized
        BY <3>1, <4>1, <1>1 DEF WalkLink, GoesOn, HInv, WalkInv
      <4>3. authorized' \in BOOLEAN /\ authorized \in BOOLEAN
        BY <3>1, <1>1 DEF WalkLink, VerifiedLink, HInv, TypeOK
      <4> QED
        BY <4>2, <4>3
    <3>2. ASSUME ~WalkLink PROVE authorized' = authorized
      BY <1>1, <3>2 DEF Next, NoCertificate, AdaptOk, AdaptFailure, AdaptThrows,
                        SkipVerify, StartVerify, WalkThrows, WalkNoIssuer
    <3> QED
      BY <3>1, <3>2
  <2> QED
    BY <2>1, <2>2, <2>3, <2>4, Zenon DEF PartOfOneStep
<1>2. HInv /\ [Next]_vars => [PartOfOneStep]_vars
  BY <1>1
<1> QED
  BY <1>2, HandlersInvariant, PTL DEF Spec, HandlersAreOneStep

-----------------------------------------------------------------------------
\* How many iterations there can be.

\* The iterations left, at most: those of the adaptation loop over the rest of
\* the presented chain, the step between the loops, and those of the
\* verification loop, which is no longer than what was adapted.
Left ==
    CASE pc = "adapt"  -> 2 * Len(peer) + 2 - current
      [] pc = "verify" -> Len(peer) + 1
      [] pc = "walk"   -> Len(peer) + 1 - link
      [] OTHER         -> 0

\* The iterations left, where the handlers stand and of what length the chain is.
LEMMA LeftIs ==
    ASSUME HInv
    PROVE  /\ Len(peer) \in Nat
           /\ pc = "adapt" => /\ current \in 0 .. Len(peer)
                              /\ Left = 2 * Len(peer) + 2 - current
           /\ pc = "verify" => Left = Len(peer) + 1 /\ link = 1
           /\ pc = "walk" => /\ link \in 1 .. Len(peer)
                             /\ Left = Len(peer) + 1 - link
           /\ pc \in {"done", "thrown"} => Left = 0
           /\ pc \in {"adapt", "verify", "walk", "done", "thrown"}
<1>1. /\ peer \in Peers /\ current \in 0 .. Len(peer)
      /\ pc \in {"adapt", "verify", "walk", "done", "thrown"}
  BY DEF HInv, TypeOK
<1>2. Len(peer) \in Nat
  BY <1>1, PeerFacts
<1>3. ASSUME pc = "walk" PROVE link \in 1 .. Len(peer)
  <2>1. /\ adapted = ClientChain(peer) /\ Len(adapted) \in Nat
        /\ link \in 1 .. Len(adapted)
    BY <1>3, WalkVerdict
  <2>2. ClientChain(peer) # <<>>
    BY <2>1
  <2>3. Len(adapted) \in 1 .. Len(peer)
    BY <1>1, <2>1, <2>2, ClientChainIsPrefix
  <2> QED
    BY <1>2, <2>1, <2>3
<1>4. pc = "verify" => link = 1
  BY DEF HInv, VerifyInv
<1>5. pc = "adapt" => Left = 2 * Len(peer) + 2 - current
  BY DEF Left
<1>6. pc = "verify" => Left = Len(peer) + 1
  BY DEF Left
<1>7. pc = "walk" => Left = Len(peer) + 1 - link
  BY DEF Left
<1>8. pc \in {"done", "thrown"} => Left = 0
  BY DEF Left
<1> QED
  BY <1>1, <1>2, <1>3, <1>4, <1>5, <1>6, <1>7, <1>8

\* The middleware is done with a request after at most twice as many iterations
\* as certificates were presented, and two: each one leaves fewer than there
\* were, also where a root is its own issuer and the structure has no end
\* (fromSocket's do-while and CasCertChainVerifyHandler's while).
THEOREM LoopsCountDown ==
    Spec => /\ []((Left \in 0 .. 2 * Len(peer) + 2) /\ (Left = 0 <=> Finished))
            /\ [][Left' < Left]_vars
<1> DEFINE Bounded == (Left \in 0 .. 2 * Len(peer) + 2) /\ (Left = 0 <=> Finished)
<1>1. HInv => Bounded
  BY LeftIs DEF Finished
<1>2. ASSUME HInv, HInv', Next PROVE Left' < Left
  <2> DEFINE n == Len(peer)
  <2>1. /\ n \in Nat /\ peer' = peer
        /\ pc \in {"adapt", "verify", "walk"}
    BY <1>2, LeftIs
       DEF Next, NoCertificate, AdaptOk, AdaptFailure, AdaptThrows, SkipVerify,
           StartVerify, WalkLink, WalkThrows, WalkNoIssuer, inputs
  <2>2. /\ pc' = "adapt" => Left' = 2 * n + 2 - current'
        /\ pc' = "verify" => Left' = n + 1
        /\ pc' = "walk" => Left' = n + 1 - link'
        /\ pc' \in {"done", "thrown"} => Left' = 0
    BY <1>2, <2>1 DEF Left
  <2>3. CASE pc = "adapt"
    <3>1. Left = 2 * n + 2 - current /\ current \in 0 .. n
      BY <1>2, <2>3, LeftIs
    <3>2. CASE pc' = "verify"
      BY <2>1, <2>2, <3>1, <3>2
    <3>3. CASE pc' # "verify"
      <4>1. (AdaptOk \/ AdaptThrows) /\ peer # <<>> /\ Advance
        BY <1>2, <2>3, <3>3
           DEF Next, NoCertificate, AdaptOk, AdaptFailure, AdaptThrows,
               SkipVerify, StartVerify, WalkLink, WalkThrows, WalkNoIssuer
      <4>2. pc' = "adapt" /\ current' = current + 1
        BY <1>2, <2>3, <3>3, <4>1, AdvanceMoves
      <4> QED
        BY <2>1, <2>2, <3>1, <4>2
    <3> QED
      BY <3>2, <3>3
  <2>4. CASE pc = "verify"
    <3>1. Left = n + 1 /\ link = 1
      BY <1>2, <2>4, LeftIs
    <3>2. pc' \in {"walk", "done", "thrown"} /\ link' = link
      BY <1>2, <2>4
         DEF Next, NoCertificate, AdaptOk, AdaptFailure, AdaptThrows, SkipVerify,
             StartVerify, WalkLink, WalkThrows, WalkNoIssuer
    <3> QED
      BY <2>1, <2>2, <3>1, <3>2
  <2>5. CASE pc = "walk"
    <3>1. Left = n + 1 - link /\ link \in 1 .. n
      BY <1>2, <2>5, LeftIs
    <3>2. pc' \in {"done", "thrown"} \/ (pc' = "walk" /\ link' = link + 1)
      BY <1>2, <2>5
         DEF Next, NoCertificate, AdaptOk, AdaptFailure, AdaptThrows, SkipVerify,
             StartVerify, WalkLink, WalkThrows, WalkNoIssuer
    <3> QED
      BY <2>1, <2>2, <3>1, <3>2
  <2> QED
    BY <2>1, <2>3, <2>4, <2>5
<1>3. HInv /\ HInv' /\ [Next]_vars => [Left' < Left]_vars
  BY <1>2
<1> QED
  BY <1>1, <1>3, HandlersInvariant, PTL DEF Spec

=============================================================================
