--------------------------- MODULE CasOidcCacheDb ---------------------------
(***************************************************************************)
(* One CasOidcCacheDb: the storage of one oidc-provider model in one LRU   *)
(* cache without a size limit.  Payloads, the uid and user-code indexes    *)
(* and the lists of keys per grant are entries of the same cache; all but  *)
(* the lists carry the time to live of the save that wrote them.           *)
(***************************************************************************)
EXTENDS Integers, Sequences

CONSTANTS
    Model,          \* the name oidc-provider constructs the adapter with
    Ids, Grants, Uids, UserCodes,
    UidOf,          \* payload.uid of what is saved under an id
    UserCodeOf,     \* payload.userCode, or None
    None,           \* undefined
    Ttls,           \* the values of expiresIn
    MaxTime,        \* bound of the clock
    MaxKeys         \* bound of the list of keys of a grant

Payloads == [grant : Grants \cup {None}, consumed : BOOLEAN]
Consumed(payload) == [payload EXCEPT !.consumed = TRUE]

ASSUME CacheAssumption ==
    /\ UidOf \in [Ids -> Uids]
    /\ UserCodeOf \in [Ids -> UserCodes \cup {None}]
    /\ None \notin Ids \cup Grants \cup UserCodes
    /\ Ttls \subseteq Nat
    /\ MaxTime \in Nat /\ MaxKeys \in Nat

\* The secondary keys an upsert writes: `sessionUid:uid`, `userCode:code`.
Handles == ({"sessionUid"} \X Uids) \cup ({"userCode"} \X UserCodes)
HandlesOf == [id \in Ids |->
    {h \in Handles :
        \/ Model = "Session" /\ h = <<"sessionUid", UidOf[id]>>
        \/ UserCodeOf[id] # None /\ h = <<"userCode", UserCodeOf[id]>>}]

VARIABLES
    now,            \* Date.now(), in seconds
    entry,          \* per id: the cache entry of `model:id`
    index,          \* per handle: its cache entry
    grants          \* per grant: the list of keys

vars == <<now, entry, index, grants>>

\* An entry of lru-cache: its value, when it was set, and its maxAge, where 0
\* stands for no limit.  NoEntry was never set or was deleted.
Entries(Values) == [value : Values, at : Nat, maxAge : Nat]
NoEntry == [value |-> None, at |-> 0, maxAge |-> 0]
Stale(e) == e.maxAge # 0 /\ now - e.at > e.maxAge
Get(e) == IF Stale(e) THEN None ELSE e.value

\* A fault of Set: an instant where a duration is due.
SetUntil(value, maxAge) ==
    [value |-> value, at |-> now, maxAge |-> maxAge - now]

Set(value, maxAge) == [value |-> value, at |-> now, maxAge |-> maxAge]

TypeOK ==
    /\ now \in Nat
    /\ entry \in [Ids -> Entries(Payloads \cup {None})]
    /\ index \in [Handles -> Entries(Ids \cup {None})]
    /\ grants \in [Grants -> Seq(Ids)]

Init ==
    /\ now = 0
    /\ entry = [id \in Ids |-> NoEntry]
    /\ index = [h \in Handles |-> NoEntry]
    /\ grants = [g \in Grants |-> <<>>]

-----------------------------------------------------------------------------

Find(id) == Get(entry[id])

KeysOf(g) == {grants[g][i] : i \in DOMAIN grants[g]}

\* findByUid and findByUserCode: two gets, the second of key(undefined) when
\* the first finds nothing.
FindByHandle(h) ==
    IF Get(index[h]) = None THEN None ELSE Find(Get(index[h]))

\* A fault of Upsert: an index entry is written only if it names another artifact,
\* and keeps the age of the first save.
UpsertIndexOnce(id, payload, expiresIn) ==
    /\ index' = [h \in Handles |->
          IF h \in HandlesOf[id] /\ index[h].value # id
          THEN Set(id, expiresIn) ELSE index[h]]
    /\ grants' = [g \in Grants |->
          IF g = payload.grant THEN Append(grants[g], id) ELSE grants[g]]
    /\ entry' = [entry EXCEPT ![id] = Set(payload, expiresIn)]
    /\ UNCHANGED now

\* The list of a grant is set without a maxAge and from then on pushed to.
Upsert(id, payload, expiresIn) ==
    /\ index' = [h \in Handles |->
          IF h \in HandlesOf[id] THEN Set(id, expiresIn) ELSE index[h]]
    /\ grants' = [g \in Grants |->
          IF g = payload.grant THEN Append(grants[g], id) ELSE grants[g]]
    /\ entry' = [entry EXCEPT ![id] = Set(payload, expiresIn)]
    /\ UNCHANGED now

\* Throws, without an effect, when there is nothing to consume.
Consume(id) ==
    /\ Find(id) # None
    /\ entry' = [entry EXCEPT ![id].value = Consumed(@)]
    /\ UNCHANGED <<now, index, grants>>

\* The index entries and the lists of keys stay.
Destroy(id) ==
    /\ entry' = [entry EXCEPT ![id] = NoEntry]
    /\ UNCHANGED <<now, index, grants>>

\* A fault of RevokeByGrantId: only the first key of the list is deleted.
RevokeFirst(g) ==
    /\ entry' = [id \in Ids |->
          IF grants[g] # <<>> /\ id = grants[g][1] THEN NoEntry ELSE entry[id]]
    /\ grants' = [grants EXCEPT ![g] = <<>>]
    /\ UNCHANGED <<now, index>>

RevokeByGrantId(g) ==
    /\ entry' = [id \in Ids |->
          IF id \in KeysOf(g) THEN NoEntry ELSE entry[id]]
    /\ grants' = [grants EXCEPT ![g] = <<>>]
    /\ UNCHANGED <<now, index>>

Tick ==
    /\ now < MaxTime
    /\ now' = now + 1
    /\ UNCHANGED <<entry, index, grants>>

BoundedUpsert(id, payload, expiresIn) ==
    /\ payload.grant \in Grants => Len(grants[payload.grant]) < MaxKeys
    /\ Upsert(id, payload, expiresIn)

Next ==
    \/ \E id \in Ids :
          \/ \E payload \in Payloads, ttl \in Ttls :
                BoundedUpsert(id, payload, ttl)
          \/ Consume(id)
          \/ Destroy(id)
    \/ \E g \in Grants : RevokeByGrantId(g)
    \/ Tick

Spec == Init /\ [][Next]_vars

-----------------------------------------------------------------------------

\* When an entry becomes stale; 0 is never.
Due(e) == IF e.maxAge = 0 THEN 0 ELSE e.at + e.maxAge

\* Seen without ages and indexes, the cache is the storage that oidc-provider
\* expects: an entry that has become stale is one that lapsed, a list of keys
\* is a set of members, an index entry names what was saved last, and what the two
\* gets of a lookup return, the first of which heeds the index entry's own age, is
\* what is stored under that name.
Adapter ==
    INSTANCE OidcAdapter WITH
        stored  <- [id \in Ids |-> Find(id)],
        due     <- [id \in Ids |-> Due(entry[id])],
        members <- [g \in Grants |-> KeysOf(g)],
        latest  <- [h \in Handles |-> index[h].value],
        found   <- [h \in Handles |-> FindByHandle(h)]

\* Every operation of CasOidcCacheDb is the operation of the adapter of the same
\* meaning, and the passing of time makes exactly those artifacts lapse whose
\* time to live has passed, for find and for the lookups alike: an index entry
\* becomes stale neither before nor after the payload it leads to.
ImplementsAdapter == Adapter!Spec

\* findByUid and findByUserCode lose nothing that find still finds: an index
\* entry never becomes stale before the payload it leads to, whatever order
\* artifacts are saved, rotated, re-saved and destroyed in.
LookupsAgree == \A h \in Handles : FindByHandle(h) = Adapter!FindByHandle(h)

\* The list of a grant never misses an artifact that is still found.
GrantComplete ==
    \A id \in Ids, g \in Grants :
        Find(id) # None /\ Find(id).grant = g => id \in KeysOf(g)

\* After revokeByGrantId nothing of the grant is found, neither what was saved
\* first nor what was added to the list long after, and what was saved under
\* other grants only is untouched.
RevokeKills ==
    [][\A g \in Grants : RevokeByGrantId(g) =>
          \A id \in Ids :
              /\ entry'[id].value # None => entry'[id].value.grant # g
              /\ id \notin KeysOf(g) => entry'[id] = entry[id]]_vars

=============================================================================
