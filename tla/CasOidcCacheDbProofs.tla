------------------------ MODULE CasOidcCacheDbProofs ------------------------
(***************************************************************************)
(* CasOidcCacheDb implements OidcAdapter, and the safety of its indexes,   *)
(* for every model name, set of artifacts, grants and times to live.       *)
(***************************************************************************)
EXTENDS CasOidcCacheDb, TLAPS

\* An index entry names an artifact that is saved with this handle, and it has
\* the age of the payload it leads to.
IndexInSync ==
    \A h \in Handles : \A id \in Ids :
        index[h].value = id =>
            /\ h \in HandlesOf[id]
            /\ entry[id].value # None => /\ index[h].at = entry[id].at
                                         /\ index[h].maxAge = entry[id].maxAge

\* The list of a grant holds every artifact whose entry is under the grant,
\* stale or not.
GrantListed ==
    \A id \in Ids, g \in Grants :
        entry[id].value # None /\ entry[id].value.grant = g => id \in KeysOf(g)

IInv == TypeOK /\ IndexInSync /\ GrantListed

-----------------------------------------------------------------------------

\* Consuming a payload changes nothing but its mark.
LEMMA ConsumedIsPayload ==
    ASSUME NEW p \in Payloads
    PROVE  Consumed(p) \in Payloads /\ Consumed(p).grant = p.grant
BY DEF Payloads, Consumed

\* Every operation keeps the types.
LEMMA TypeInvariant == Spec => []TypeOK
<1> USE CacheAssumption
<1>1. Init => TypeOK
  BY DEF Init, TypeOK, Entries, NoEntry
<1>2. TypeOK /\ [Next]_vars => TypeOK'
  <2> SUFFICES ASSUME TypeOK, [Next]_vars PROVE TypeOK'
    OBVIOUS
  <2> USE DEF TypeOK, Entries
  <2>1. CASE UNCHANGED vars
    BY <2>1 DEF vars
  <2>2. ASSUME NEW id \in Ids, NEW payload \in Payloads, NEW ttl \in Ttls,
               BoundedUpsert(id, payload, ttl)
        PROVE  TypeOK'
    <3> USE <2>2 DEF BoundedUpsert, Upsert
    <3>1. ttl \in Nat /\ id \in Ids /\ payload \in Payloads
      OBVIOUS
    <3>2. Set(payload, ttl) \in Entries(Payloads \cup {None})
      BY <3>1 DEF Set
    <3>3. Set(id, ttl) \in Entries(Ids \cup {None})
      BY <3>1 DEF Set
    <3>4. entry' \in [Ids -> Entries(Payloads \cup {None})]
      BY <3>2
    <3>5. index' \in [Handles -> Entries(Ids \cup {None})]
      BY <3>3
    <3>6. grants' \in [Grants -> Seq(Ids)]
      BY <3>1
    <3> QED
      BY <3>4, <3>5, <3>6
  <2>3. ASSUME NEW id \in Ids, Consume(id) PROVE TypeOK'
    <3> DEFINE v == Consumed(entry[id].value)
    <3>1. entry[id].value \in Payloads
      BY <2>3 DEF Consume, Find, Get
    <3>2. v \in Payloads
      BY <3>1, ConsumedIsPayload
    <3>3. [entry[id] EXCEPT !.value = v]
              = [value |-> v, at |-> entry[id].at, maxAge |-> entry[id].maxAge]
      BY <2>3
    <3>4. [entry[id] EXCEPT !.value = v] \in Entries(Payloads \cup {None})
      <4> HIDE DEF v
      <4> QED
        BY <3>2, <3>3
    <3>5. entry' = [entry EXCEPT ![id] = [@ EXCEPT !.value = v]]
      BY <2>3 DEF Consume
    <3> QED
      BY <2>3, <3>4, <3>5 DEF Consume
  <2>4. ASSUME NEW id \in Ids, Destroy(id) PROVE TypeOK'
    BY <2>4 DEF Destroy, NoEntry
  <2>5. ASSUME NEW g \in Grants, RevokeByGrantId(g) PROVE TypeOK'
    BY <2>5 DEF RevokeByGrantId, NoEntry
  <2>6. CASE Tick
    BY <2>6 DEF Tick
  <2> QED
    BY <2>1, <2>2, <2>3, <2>4, <2>5, <2>6 DEF Next
<1> QED
  BY <1>1, <1>2, PTL DEF Spec

-----------------------------------------------------------------------------

\* What the operations put into the cache, given the types.
LEMMA SetFields ==
    ASSUME NEW v, NEW d
    PROVE  /\ Set(v, d).value = v
           /\ Set(v, d).at = now
           /\ Set(v, d).maxAge = d
BY DEF Set

\* A payload is never mistaken for undefined, nor an id.
LEMMA SomethingIsNotNone ==
    /\ \A id \in Ids : id # None
    /\ NoEntry.value = None
BY CacheAssumption DEF NoEntry

\* The index follows the entries through every operation: a save writes both
\* with the same age, a consume changes neither age, and the operations that
\* delete an entry leave nothing to agree with.
LEMMA IndexStep == TypeOK /\ IndexInSync /\ [Next]_vars => IndexInSync'
<1> SUFFICES ASSUME TypeOK, IndexInSync, [Next]_vars,
                    NEW h \in Handles, NEW k \in Ids, index'[h].value = k
             PROVE  /\ h \in HandlesOf[k]
                    /\ entry'[k].value # None =>
                          /\ index'[h].at = entry'[k].at
                          /\ index'[h].maxAge = entry'[k].maxAge
  BY DEF IndexInSync
<1>1. CASE UNCHANGED vars
  BY <1>1 DEF vars, IndexInSync
<1>2. ASSUME NEW id \in Ids, NEW payload \in Payloads, NEW ttl \in Ttls,
             BoundedUpsert(id, payload, ttl)
      PROVE  /\ h \in HandlesOf[k]
             /\ entry'[k].value # None =>
                   /\ index'[h].at = entry'[k].at
                   /\ index'[h].maxAge = entry'[k].maxAge
  <2>1. entry'[id] = Set(payload, ttl) /\ (k # id => entry'[k] = entry[k])
    BY <1>2 DEF BoundedUpsert, Upsert, TypeOK
  <2>2. index'[h] = IF h \in HandlesOf[id] THEN Set(id, ttl) ELSE index[h]
    BY <1>2 DEF BoundedUpsert, Upsert
  <2>3. CASE h \in HandlesOf[id]
    BY <2>1, <2>2, <2>3, SetFields
  <2>4. CASE h \notin HandlesOf[id]
    BY <2>1, <2>2, <2>4 DEF IndexInSync
  <2> QED
    BY <2>3, <2>4
<1>3. ASSUME NEW id \in Ids, Consume(id)
      PROVE  /\ h \in HandlesOf[k]
             /\ entry'[k].value # None =>
                   /\ index'[h].at = entry'[k].at
                   /\ index'[h].maxAge = entry'[k].maxAge
  <2>1. index' = index
    BY <1>3 DEF Consume
  <2>2. entry[id].value # None
    BY <1>3 DEF Consume, Find, Get
  <2>3. entry'[k].at = entry[k].at /\ entry'[k].maxAge = entry[k].maxAge
    BY <1>3 DEF Consume, TypeOK, Entries
  <2>4. entry'[k].value # None => entry[k].value # None
    BY <1>3, <2>2 DEF Consume, TypeOK
  <2> QED
    BY <2>1, <2>3, <2>4 DEF IndexInSync
<1>4. ASSUME NEW id \in Ids, Destroy(id)
      PROVE  /\ h \in HandlesOf[k]
             /\ entry'[k].value # None =>
                   /\ index'[h].at = entry'[k].at
                   /\ index'[h].maxAge = entry'[k].maxAge
  BY <1>4, SomethingIsNotNone DEF Destroy, TypeOK, IndexInSync
<1>5. ASSUME NEW g \in Grants, RevokeByGrantId(g)
      PROVE  /\ h \in HandlesOf[k]
             /\ entry'[k].value # None =>
                   /\ index'[h].at = entry'[k].at
                   /\ index'[h].maxAge = entry'[k].maxAge
  BY <1>5, SomethingIsNotNone DEF RevokeByGrantId, TypeOK, IndexInSync
<1>6. CASE Tick
  BY <1>6 DEF Tick, IndexInSync
<1> QED
  BY <1>1, <1>2, <1>3, <1>4, <1>5, <1>6 DEF Next

\* A list of keys only ever grows until its grant is revoked.
LEMMA KeysGrow ==
    ASSUME NEW s \in Seq(Ids), NEW id \in Ids
    PROVE  {Append(s, id)[i] : i \in DOMAIN Append(s, id)}
              = {s[i] : i \in DOMAIN s} \cup {id}
<1> DEFINE t == Append(s, id)
<1>1. Len(t) = Len(s) + 1 /\ Len(s) \in Nat
      /\ DOMAIN t = 1 .. Len(s) + 1 /\ DOMAIN s = 1 .. Len(s)
  OBVIOUS
<1>2. \A i \in 1 .. Len(s) : t[i] = s[i]
  OBVIOUS
<1>3. t[Len(s) + 1] = id
  OBVIOUS
<1> QED
  <2> HIDE DEF t
  <2>1. DOMAIN t = DOMAIN s \cup {Len(s) + 1}
    BY <1>1
  <2>2. \A i \in DOMAIN s : t[i] = s[i]
    BY <1>1, <1>2
  <2>3. {t[i] : i \in DOMAIN t} = {s[i] : i \in DOMAIN s} \cup {id}
    BY <2>1, <2>2, <1>3
  <2> QED
    BY <2>3 DEF t

\* A save adds the id to the list of its grant and touches no other list.
LEMMA UpsertKeys ==
    ASSUME TypeOK, NEW id \in Ids, NEW payload \in Payloads, NEW ttl \in Ttls,
           Upsert(id, payload, ttl), NEW g \in Grants
    PROVE  KeysOf(g)' = IF g = payload.grant THEN KeysOf(g) \cup {id} ELSE KeysOf(g)
<1>1. grants[g] \in Seq(Ids)
  BY DEF TypeOK
<1>2. {Append(grants[g], id)[i] : i \in DOMAIN Append(grants[g], id)}
          = KeysOf(g) \cup {id}
  BY <1>1, KeysGrow DEF KeysOf
<1>3. grants'[g] = IF g = payload.grant THEN Append(grants[g], id) ELSE grants[g]
  BY DEF Upsert
<1>4. KeysOf(g)' = {grants'[g][i] : i \in DOMAIN grants'[g]}
  BY DEF KeysOf
<1>5. CASE g = payload.grant
  BY <1>2, <1>3, <1>4, <1>5
<1>6. CASE g # payload.grant
  BY <1>3, <1>4, <1>6 DEF KeysOf
<1> QED
  BY <1>5, <1>6

\* A save puts the id into the list of its grant, and a revocation takes what is
\* in the list.
LEMMA GrantStep == TypeOK /\ GrantListed /\ [Next]_vars => GrantListed'
<1> SUFFICES ASSUME TypeOK, GrantListed, [Next]_vars,
                    NEW k \in Ids, NEW c \in Grants,
                    entry'[k].value # None, entry'[k].value.grant = c
             PROVE  k \in KeysOf(c)'
  BY DEF GrantListed
<1>1. CASE UNCHANGED vars
  BY <1>1 DEF vars, GrantListed, KeysOf
<1>2. ASSUME NEW id \in Ids, NEW payload \in Payloads, NEW ttl \in Ttls,
             BoundedUpsert(id, payload, ttl)
      PROVE  k \in KeysOf(c)'
  <2>1. entry'[id] = Set(payload, ttl) /\ (k # id => entry'[k] = entry[k])
    BY <1>2 DEF BoundedUpsert, Upsert, TypeOK
  <2>2. KeysOf(c)' = IF c = payload.grant
                     THEN KeysOf(c) \cup {id} ELSE KeysOf(c)
    BY <1>2, UpsertKeys DEF BoundedUpsert
  <2>4. CASE k = id
    BY <2>1, <2>2, <2>4, SetFields
  <2>5. CASE k # id
    BY <2>1, <2>2, <2>5 DEF GrantListed
  <2> QED
    BY <2>4, <2>5
<1>3. ASSUME NEW id \in Ids, Consume(id) PROVE k \in KeysOf(c)'
  <2>1. KeysOf(c)' = KeysOf(c)
    BY <1>3 DEF Consume, KeysOf
  <2>2. entry[id].value \in Payloads /\ entry[id].value # None
    BY <1>3 DEF Consume, Find, Get, TypeOK, Entries
  <2>3. entry'[id].value = Consumed(entry[id].value)
    BY <1>3 DEF Consume, TypeOK, Entries
  <2>4. CASE k = id
    BY <2>1, <2>2, <2>3, <2>4, ConsumedIsPayload DEF GrantListed
  <2>5. CASE k # id
    BY <2>1, <2>5, <1>3 DEF GrantListed, Consume, TypeOK
  <2> QED
    BY <2>4, <2>5
<1>4. ASSUME NEW id \in Ids, Destroy(id) PROVE k \in KeysOf(c)'
  BY <1>4, SomethingIsNotNone DEF Destroy, TypeOK, GrantListed, KeysOf
<1>5. ASSUME NEW g \in Grants, RevokeByGrantId(g) PROVE k \in KeysOf(c)'
  <2>1. k \notin KeysOf(g) /\ entry'[k] = entry[k]
    BY <1>5, SomethingIsNotNone DEF RevokeByGrantId
  <2>2. c # g /\ k \in KeysOf(c)
    BY <2>1 DEF GrantListed
  <2> QED
    BY <2>2, <1>5 DEF RevokeByGrantId, KeysOf, TypeOK
<1>6. CASE Tick
  BY <1>6 DEF Tick, GrantListed, KeysOf
<1> QED
  BY <1>1, <1>2, <1>3, <1>4, <1>5, <1>6 DEF Next

\* The inductive invariant behind everything below.
THEOREM Invariance == Spec => []IInv
<1>1. Init => IndexInSync /\ GrantListed
  BY SomethingIsNotNone DEF Init, IndexInSync, GrantListed
<1>2. TypeOK /\ (IndexInSync /\ GrantListed) /\ [Next]_vars
          => (IndexInSync /\ GrantListed)'
  BY IndexStep, GrantStep
<1> QED
  BY <1>1, <1>2, TypeInvariant, PTL DEF Spec, IInv

-----------------------------------------------------------------------------

\* What find returns is in the cache.
LEMMA FoundIsStored ==
    \A id \in Ids : Find(id) # None => Find(id) = entry[id].value
BY DEF Find, Get

\* The list of a grant never misses an artifact that find still returns
\* (CasOidcCacheDb.upsert pushes the key of every save under the grant).
THEOREM GrantsComplete == Spec => []GrantComplete
<1>1. IInv => GrantComplete
  BY FoundIsStored DEF IInv, GrantListed, GrantComplete
<1> QED
  BY <1>1, Invariance, PTL

\* A lookup by uid or user code finds what a lookup by the id it leads to does
\* (findByUid and findByUserCode: two gets of entries that age alike).
LEMMA LookupByHandle ==
    ASSUME IInv, NEW h \in Handles
    PROVE  FindByHandle(h) = IF index[h].value = None THEN None
                             ELSE Find(index[h].value)
<1>1. CASE index[h].value = None
  BY <1>1 DEF FindByHandle, Get
<1>2. CASE index[h].value # None
  <2> DEFINE id == index[h].value
  <2>1. id \in Ids
    BY <1>2 DEF IInv, TypeOK, Entries
  <2>2. CASE entry[id].value = None
    <3>1. Find(id) = None
      BY <2>2 DEF Find, Get
    <3>2. Get(index[h]) \in {None, id}
      BY DEF Get
    <3> QED
      BY <1>2, <3>1, <3>2 DEF FindByHandle
  <2>3. CASE entry[id].value # None
    <3>1. index[h].at = entry[id].at /\ index[h].maxAge = entry[id].maxAge
      BY <2>1, <2>3 DEF IInv, IndexInSync
    <3>2. Stale(index[h]) <=> Stale(entry[id])
      BY <3>1 DEF Stale
    <3> QED
      BY <1>2, <3>2 DEF FindByHandle, Find, Get
  <2> QED
    BY <2>2, <2>3
<1> QED
  BY <1>1, <1>2

\* The same for the refined adapter, where the lookup is one step.
THEOREM LookupsNeverDisagree == Spec => []LookupsAgree
<1>1. IInv => LookupsAgree
  <2> SUFFICES ASSUME IInv, NEW h \in Handles
               PROVE  FindByHandle(h) = Adapter!FindByHandle(h)
    BY DEF LookupsAgree
  <2>1. index[h].value # None => index[h].value \in Ids
    BY DEF IInv, TypeOK, Entries
  <2> QED
    BY <2>1, LookupByHandle DEF Adapter!FindByHandle
<1> QED
  BY <1>1, Invariance, PTL

\* revokeByGrantId leaves no artifact of the grant in the cache, and nothing
\* that was only saved under other grants is deleted.
THEOREM RevocationKills == Spec => RevokeKills
<1> DEFINE Kills ==
      \A g \in Grants : RevokeByGrantId(g) =>
          \A id \in Ids :
              /\ entry'[id].value # None => entry'[id].value.grant # g
              /\ id \notin KeysOf(g) => entry'[id] = entry[id]
<1>1. IInv => Kills
  <2> SUFFICES ASSUME IInv, NEW g \in Grants, RevokeByGrantId(g), NEW id \in Ids
               PROVE  /\ entry'[id].value # None => entry'[id].value.grant # g
                      /\ id \notin KeysOf(g) => entry'[id] = entry[id]
    OBVIOUS
  <2>1. entry'[id] = IF id \in KeysOf(g) THEN NoEntry ELSE entry[id]
    BY DEF RevokeByGrantId
  <2> QED
    BY <2>1, SomethingIsNotNone DEF IInv, GrantListed
<1> QED
  BY <1>1, Invariance, PTL DEF RevokeKills

-----------------------------------------------------------------------------

\* What was just set is found, for any time to live.
LEMMA FreshIsFound ==
    ASSUME now \in Nat, NEW v, NEW ttl \in Nat
    PROVE  Get(Set(v, ttl)) = v
<1>1. ~Stale(Set(v, ttl))
  BY SetFields DEF Stale
<1> QED
  BY <1>1, SetFields DEF Get

\* A save of the cache is a save of the adapter.
LEMMA UpsertSaves ==
    ASSUME TypeOK, NEW id \in Ids, NEW payload \in Payloads, NEW ttl \in Ttls,
           Upsert(id, payload, ttl)
    PROVE  Adapter!Save(id, payload, ttl)
<1>1. now' = now
  BY DEF Upsert
<1>2. entry' = [entry EXCEPT ![id] = Set(payload, ttl)]
  BY DEF Upsert
<1>3. \A k \in Ids : Find(k)' = IF k = id THEN payload ELSE Find(k)
  <2> TAKE k \in Ids
  <2>1. CASE k = id
    <3>1. entry'[k] = Set(payload, ttl)
      BY <1>2, <2>1 DEF TypeOK
    <3>2. Find(k)' = Get(Set(payload, ttl))
      BY <1>1, <3>1 DEF Find, Get, Stale
    <3> QED
      BY <2>1, <3>2, FreshIsFound, CacheAssumption DEF TypeOK
  <2>2. CASE k # id
    <3>1. entry'[k] = entry[k]
      BY <1>2, <2>2 DEF TypeOK
    <3> QED
      BY <1>1, <2>2, <3>1 DEF Find, Get, Stale
  <2> QED
    BY <2>1, <2>2
<1>4. \A k \in Ids :
         Due(entry'[k]) = IF k = id THEN IF ttl = 0 THEN 0 ELSE now + ttl
                          ELSE Due(entry[k])
  <2>1. Due(Set(payload, ttl)) = IF ttl = 0 THEN 0 ELSE now + ttl
    BY SetFields DEF Due
  <2>2. entry'[id] = Set(payload, ttl)
        /\ \A k \in Ids : k # id => entry'[k] = entry[k]
    BY <1>2 DEF TypeOK
  <2> QED
    BY <2>1, <2>2
<1>5. \A g \in Grants :
         KeysOf(g)' = IF g = payload.grant THEN KeysOf(g) \cup {id} ELSE KeysOf(g)
  BY UpsertKeys
<1>6. \A h \in Handles :
         index'[h].value = IF h \in HandlesOf[id] THEN id ELSE index[h].value
  BY SetFields DEF Upsert
<1> QED
  BY <1>1, <1>3, <1>4, <1>5, <1>6 DEF Adapter!Save

\* Consuming marks what find returns and leaves its age.
LEMMA ConsumeConsumes ==
    ASSUME TypeOK, NEW id \in Ids, Consume(id)
    PROVE  Adapter!Consume(id)
<1>1. /\ now' = now /\ index' = index /\ grants' = grants
      /\ entry' = [entry EXCEPT ![id].value = Consumed(@)]
      /\ Find(id) # None
  BY DEF Consume
<1>2. Find(id) = entry[id].value /\ ~Stale(entry[id])
  BY <1>1 DEF Find, Get
<1>3. /\ entry'[id].value = Consumed(entry[id].value)
      /\ entry'[id].at = entry[id].at
      /\ entry'[id].maxAge = entry[id].maxAge
      /\ \A k \in Ids : k # id => entry'[k] = entry[k]
  BY <1>1 DEF TypeOK, Entries
<1>4. Find(id)' = Consumed(Find(id))
  BY <1>1, <1>2, <1>3 DEF Find, Get, Stale
<1>5. \A k \in Ids : k # id => Find(k)' = Find(k)
  BY <1>1, <1>3 DEF Find, Get, Stale
<1>6. \A k \in Ids : Due(entry'[k]) = Due(entry[k])
  BY <1>3 DEF Due
<1>7. \A g \in Grants : KeysOf(g)' = KeysOf(g)
  BY <1>1 DEF KeysOf
<1>8. Adapter!Consumed(Find(id)) = Consumed(Find(id))
  BY DEF Adapter!Consumed, Consumed
<1> QED
  BY <1>1, <1>4, <1>5, <1>6, <1>7, <1>8 DEF Adapter!Consume

\* An entry that is not there never becomes due.
LEMMA NothingIsNeverDue == Due(NoEntry) = 0
BY DEF Due, NoEntry

\* Destroying takes one artifact, and only that one.
LEMMA DestroyDestroys ==
    ASSUME TypeOK, NEW id \in Ids, Destroy(id)
    PROVE  Adapter!Destroy(id)
<1>1. now' = now /\ index' = index /\ grants' = grants
  BY DEF Destroy
<1>2. \A k \in Ids : Find(k)' = IF k = id THEN None ELSE Find(k)
  BY <1>1, SomethingIsNotNone DEF Destroy, Find, Get, Stale, TypeOK
<1>3. \A k \in Ids : Due(entry'[k]) = IF k = id THEN 0 ELSE Due(entry[k])
  BY NothingIsNeverDue DEF Destroy, TypeOK
<1>4. \A g \in Grants : KeysOf(g)' = KeysOf(g)
  BY <1>1 DEF KeysOf
<1> QED
  BY <1>1, <1>2, <1>3, <1>4 DEF Adapter!Destroy

\* Revoking takes what the list of the grant names.
LEMMA RevokeRevokes ==
    ASSUME TypeOK, NEW g \in Grants, RevokeByGrantId(g)
    PROVE  Adapter!Revoke(g)
<1>1. now' = now /\ index' = index
  BY DEF RevokeByGrantId
<1>2. \A k \in Ids : Find(k)' = IF k \in KeysOf(g) THEN None ELSE Find(k)
  BY <1>1, SomethingIsNotNone DEF RevokeByGrantId, Find, Get, Stale
<1>3. \A k \in Ids :
         Due(entry'[k]) = IF k \in KeysOf(g) THEN 0 ELSE Due(entry[k])
  BY NothingIsNeverDue DEF RevokeByGrantId
<1>4. \A c \in Grants : KeysOf(c)' = IF c = g THEN {} ELSE KeysOf(c)
  BY DEF RevokeByGrantId, KeysOf, TypeOK
<1> QED
  BY <1>1, <1>2, <1>3, <1>4 DEF Adapter!Revoke

\* As time passes, what becomes stale is what is overdue.
LEMMA TickLapses ==
    ASSUME TypeOK, Tick
    PROVE  Adapter!Lapse
<1>1. /\ now' = now + 1 /\ now \in Nat
      /\ entry' = entry /\ index' = index /\ grants' = grants
  BY DEF Tick, TypeOK
<1>2. \A id \in Ids : entry[id].at \in Nat /\ entry[id].maxAge \in Nat
  BY DEF TypeOK, Entries
<1>3. \A id \in Ids :
         Stale(entry[id])' <=> Due(entry[id]) # 0 /\ now' > Due(entry[id])
  BY <1>1, <1>2 DEF Stale, Due
<1>4. \A id \in Ids : Stale(entry[id]) => Stale(entry[id])'
  BY <1>1, <1>2 DEF Stale
<1>5. \A id \in Ids : Find(id)' = IF Stale(entry[id])' THEN None ELSE Find(id)
  BY <1>1, <1>4 DEF Find, Get
<1>6. \A id \in Ids :
         Find(id)' = IF Due(entry[id]) # 0 /\ now' > Due(entry[id])
                     THEN None ELSE Find(id)
  BY <1>3, <1>5
<1>7. \A g \in Grants : KeysOf(g)' = KeysOf(g)
  BY <1>1 DEF KeysOf
<1> QED
  BY <1>1, <1>6, <1>7 DEF Adapter!Lapse

\* The cache is a correct adapter: each of its steps is one of OidcAdapter on
\* what find, the lookups, the ages, the lists of keys and the index entries show,
\* or shows nothing.
THEOREM Refinement == Spec => ImplementsAdapter
<1>1. Init => Adapter!Init
  BY SomethingIsNotNone, NothingIsNeverDue
     DEF Init, Adapter!Init, Find, Get, KeysOf, NoEntry, FindByHandle
<1>2. TypeOK /\ LookupsAgree /\ LookupsAgree' /\ [Next]_vars
          => [Adapter!Next]_(Adapter!vars)
  <2> SUFFICES ASSUME TypeOK, LookupsAgree, LookupsAgree', [Next]_vars
               PROVE  Adapter!Next \/ UNCHANGED Adapter!vars
    OBVIOUS
  <2>1. CASE UNCHANGED vars
    BY <2>1 DEF vars, Adapter!vars, Find, Get, Stale, Due, KeysOf, FindByHandle
  <2>2. ASSUME NEW id \in Ids, NEW payload \in Payloads, NEW ttl \in Ttls,
               BoundedUpsert(id, payload, ttl)
        PROVE  Adapter!Change
    <3>1. Adapter!Save(id, payload, ttl)
      BY <2>2, UpsertSaves DEF BoundedUpsert
    <3>2. payload \in Adapter!Payloads
      BY DEF Payloads, Adapter!Payloads
    <3> QED
      BY <3>1, <3>2 DEF Adapter!Change
  <2>3. ASSUME NEW id \in Ids, Consume(id) PROVE Adapter!Change
    BY <2>3, ConsumeConsumes DEF Adapter!Change
  <2>4. ASSUME NEW id \in Ids, Destroy(id) PROVE Adapter!Change
    BY <2>4, DestroyDestroys DEF Adapter!Change
  <2>5. ASSUME NEW g \in Grants, RevokeByGrantId(g) PROVE Adapter!Change
    BY <2>5, RevokeRevokes DEF Adapter!Change
  <2>6. ASSUME Tick PROVE Adapter!Change
    BY <2>6, TickLapses DEF Adapter!Change
  <2>7. UNCHANGED vars \/ Adapter!Change
    BY <2>1, <2>2, <2>3, <2>4, <2>5, <2>6 DEF Next
  <2>8. \A h \in Handles : FindByHandle(h)' = Adapter!FindByHandle(h)'
    BY DEF LookupsAgree
  <2> QED
    BY <2>1, <2>7, <2>8 DEF Adapter!Next
<1> QED
  BY <1>1, <1>2, TypeInvariant, LookupsNeverDisagree, PTL
     DEF Spec, ImplementsAdapter, Adapter!Spec

=============================================================================
