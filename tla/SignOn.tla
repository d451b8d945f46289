------------------------------- MODULE SignOn -------------------------------
(***************************************************************************)
(* What CertAssert promises of sign-on flows, without sockets, requests,   *)
(* awaits or the chain check: clients come to be accepted, the store comes *)
(* to know some of them, and a flow that waits for a login or for consent  *)
(* holds at most one decision, the last one made, until it is acted on or  *)
(* lapses.                                                                 *)
(***************************************************************************)

CONSTANTS Flows, Clients, NoAccount

VARIABLES
    accepted,   \* clients accepted at some instant up to now
    known,      \* clients in the certificate store
    stage,      \* per flow
    account,    \* per flow: who is logged in
    decision    \* per flow: what was decided at this stage

contractVars == <<accepted, known, stage, account, decision>>

Undecided == [what |-> "open", by |-> NoAccount]
LogInAs(a) == [what |-> "login", by |-> a]
ConsentOf(a) == [what |-> "consent", by |-> a]
Refusal == [what |-> "refusal", by |-> NoAccount]
Lapsed == [what |-> "lapsed", by |-> NoAccount]

Init ==
    /\ accepted \subseteq Clients
    /\ known = {}
    /\ stage = [f \in Flows |-> "none"]
    /\ account = [f \in Flows |-> NoAccount]
    /\ decision = [f \in Flows |-> Undecided]

\* Acceptance is never taken back; it may be found in any number of clients at
\* once, since it depends on the time alone.
Accept ==
    /\ accepted \subseteq accepted' /\ accepted' \subseteq Clients
    /\ UNCHANGED <<known, stage, account, decision>>

Know(a) ==
    /\ a \in accepted
    /\ known' = known \cup {a}
    /\ UNCHANGED <<accepted, stage, account, decision>>

\* A flow that waits comes to hold a decision, or a different one.
Decide(f, d) ==
    /\ stage[f] \in {"login", "consent"}
    /\ decision[f] # Lapsed
    /\ decision' = [decision EXCEPT ![f] = d]
    /\ UNCHANGED <<accepted, known, stage, account>>

DecideLogin(f, a) == stage[f] = "login" /\ a \in known /\ Decide(f, LogInAs(a))
DecideConsent(f) == stage[f] = "consent" /\ Decide(f, ConsentOf(account[f]))
Refuse(f) == Decide(f, Refusal)
Lapse(f) == Decide(f, Lapsed)

\* The flow goes from one stage to another.
Proceed(f, from, to) ==
    /\ stage[f] = from
    /\ stage' = [stage EXCEPT ![f] = to]
    /\ decision' = [decision EXCEPT ![f] = Undecided]
    /\ UNCHANGED <<accepted, known>>

Begin(f) == Proceed(f, "none", "login") /\ UNCHANGED account

LogIn(f, a) ==
    /\ decision[f] = LogInAs(a)
    /\ account' = [account EXCEPT ![f] = a]
    /\ Proceed(f, "login", "consent")

Grant(f) ==
    /\ decision[f] = ConsentOf(account[f])
    /\ Proceed(f, "consent", "granted")
    /\ UNCHANGED account

Deny(f) ==
    /\ decision[f] = Refusal
    /\ \E s \in {"login", "consent"} : Proceed(f, s, "denied")
    /\ UNCHANGED account

\* What is known and what is under way are lost together.
Restart ==
    /\ known' = {}
    /\ stage' = [f \in Flows |-> "none"]
    /\ account' = [f \in Flows |-> NoAccount]
    /\ decision' = [f \in Flows |-> Undecided]
    /\ UNCHANGED accepted

Next ==
    \/ Accept
    \/ \E a \in Clients : Know(a)
    \/ \E f \in Flows :
          \/ \E a \in Clients : DecideLogin(f, a) \/ LogIn(f, a)
          \/ DecideConsent(f) \/ Refuse(f) \/ Lapse(f)
          \/ Begin(f) \/ Grant(f) \/ Deny(f)
    \/ Restart

Spec == Init /\ [][Next]_contractVars

=============================================================================
