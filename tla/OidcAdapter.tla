----------------------------- MODULE OidcAdapter -----------------------------
(***************************************************************************)
(* What oidc-provider counts on from the storage of one of its models, as  *)
(* far as the code in src/ implements it: an artifact can be found from    *)
(* its save until its time to live has passed or it is destroyed, and not  *)
(* a moment shorter or longer, by its id and by the uid or the user code   *)
(* it was saved with last, whatever was saved, saved again or destroyed in *)
(* between; revoking a grant takes every artifact that was saved under it, *)
(* and nothing else.  There are no indexes and no ages here.               *)
(***************************************************************************)
EXTENDS Naturals

CONSTANTS
    Ids,            \* artifacts of the model
    Grants,
    Handles,        \* uids and user codes
    HandlesOf,      \* the uid and the user code an artifact is saved with
    Ttls,           \* the values of expiresIn
    None

Payloads == [grant : Grants \cup {None}, consumed : BOOLEAN]
Consumed(payload) == [payload EXCEPT !.consumed = TRUE]

VARIABLES
    now,            \* in seconds
    stored,         \* per id: the payload that find returns, or None
    due,            \* per id: when what was saved last lapses; 0 is never
    members,        \* per grant: the ids saved under it since it was revoked
    latest,         \* per handle: the id saved with it last, or None
    found           \* per handle: the payload that looking it up returns, or None

vars == <<now, stored, due, members, latest, found>>

Init ==
    /\ now = 0
    /\ stored = [id \in Ids |-> None]
    /\ due = [id \in Ids |-> 0]
    /\ members = [g \in Grants |-> {}]
    /\ latest = [h \in Handles |-> None]
    /\ found = [h \in Handles |-> None]

FindByHandle(h) == IF latest[h] = None THEN None ELSE stored[latest[h]]

Save(id, payload, expiresIn) ==
    /\ stored' = [stored EXCEPT ![id] = payload]
    /\ due' = [due EXCEPT ![id] = IF expiresIn = 0 THEN 0 ELSE now + expiresIn]
    /\ members' = [g \in Grants |->
          IF g = payload.grant THEN members[g] \cup {id} ELSE members[g]]
    /\ latest' = [h \in Handles |->
          IF h \in HandlesOf[id] THEN id ELSE latest[h]]
    /\ UNCHANGED now

Consume(id) ==
    /\ stored[id] # None
    /\ stored' = [stored EXCEPT ![id] = Consumed(@)]
    /\ UNCHANGED <<now, due, members, latest>>

Destroy(id) ==
    /\ stored' = [stored EXCEPT ![id] = None]
    /\ due' = [due EXCEPT ![id] = 0]
    /\ UNCHANGED <<now, members, latest>>

Revoke(g) ==
    /\ stored' = [id \in Ids |-> IF id \in members[g] THEN None ELSE stored[id]]
    /\ due' = [id \in Ids |-> IF id \in members[g] THEN 0 ELSE due[id]]
    /\ members' = [members EXCEPT ![g] = {}]
    /\ UNCHANGED <<now, latest>>

\* Time passes, and what is overdue then lapses.
Lapse ==
    /\ now' = now + 1
    /\ stored' = [id \in Ids |->
          IF due[id] # 0 /\ now' > due[id] THEN None ELSE stored[id]]
    /\ UNCHANGED <<due, members, latest>>

Change ==
    \/ \E id \in Ids :
          \/ \E payload \in Payloads, expiresIn \in Ttls :
                Save(id, payload, expiresIn)
          \/ Consume(id)
          \/ Destroy(id)
    \/ \E g \in Grants : Revoke(g)
    \/ Lapse

\* Looking a handle up never loses what find finds.
Next ==
    /\ Change
    /\ found' = [h \in Handles |-> FindByHandle(h)']

Spec == Init /\ [][Next]_vars

=============================================================================
