--------------------------- MODULE ClientConnector ---------------------------
(***************************************************************************)
(* The example client application: windows of one browser that sign in and *)
(* out at CertAssert with the oidc-client library, and that show whether   *)
(* the server can be reached.  Everything a window shows is lost when it   *)
(* is loaded again; the requests that wait for their responses are kept in *)
(* the local storage, which the windows share, and so is the session at    *)
(* the provider.                                                           *)
(***************************************************************************)
EXTENDS Naturals, FiniteSets

CONSTANTS
    Windows,
    Users,              \* the client certificates a user may choose from
    Nobody,
    MaxRequests,        \* bound on the requests made
    MaxLoads,           \* bound on the times a window is loaded
    MaxPolls            \* per window: bound on its polls under way

ASSUME ClientAssumption ==
    /\ Nobody \notin Users
    /\ MaxRequests \in Nat /\ MaxLoads \in Nat \ {0}
    /\ MaxPolls \in [Windows -> Nat \ {0}]

Ids == 1 .. MaxRequests
Purposes == {"signin", "signout"}

\* What the query of a window's location starts with, and the request it is for.
Home == [query |-> "none", id |-> 0]
Locations == {Home} \cup [query : {"code", "error", "state"}, id : Ids]
Requests == [id : Ids, hint : BOOLEAN]

VARIABLES
    up,             \* the server can be reached
    session,        \* whose session the provider has for this browser
    issued,         \* per request: whom the provider signed in for it, or Nobody
    ended,          \* the sign-out requests it ended the session for
    codes,          \* the codes that it has issued and can redeem
    made,           \* how many requests were made
    purpose,        \* per request
    stored,         \* the requests in the local storage
    responses,      \* the locations that responses led to, as in the history
    where,          \* per window: its location while the application is loaded
                    \* in it, or the request it took to the provider
    loaded,         \* per window: the application, rather than the provider
    loads,          \* per window: how many times it was loaded
    exchange,       \* per window: processSigninResponse is under way
    due,            \* per window: the redirects that wait for their 3 seconds
    polls,          \* per window: updateServerState calls under way, by what
                    \* their response is
    shown           \* per window: this.state

provider == <<up, session, issued, ended, codes>>
requests == <<made, purpose, stored, responses>>
page == <<where, loaded, loads, exchange, due>>
vars == <<provider, requests, page, polls, shown>>

Blank == [serverUp |-> FALSE, signedIn |-> FALSE, signedOut |-> FALSE,
          user |-> Nobody, idtoken |-> FALSE]
NoPolls == [sent |-> 0, yes |-> 0, no |-> 0]

UnderWay(w) == polls[w].sent + polls[w].yes + polls[w].no

TypeOK ==
    /\ up \in BOOLEAN
    /\ session \in Users \cup {Nobody}
    /\ issued \in [Ids -> Users \cup {Nobody}]
    /\ ended \subseteq Ids /\ codes \subseteq Ids /\ stored \subseteq Ids
    /\ made \in 0 .. MaxRequests
    /\ purpose \in [Ids -> Purposes]
    /\ responses \subseteq Locations
    /\ where \in [Windows -> Locations \cup Requests]
    /\ loaded \in [Windows -> BOOLEAN]
    /\ loads \in [Windows -> 0 .. MaxLoads]
    /\ exchange \in [Windows -> BOOLEAN]
    /\ due \in [Windows -> SUBSET Requests]
    /\ polls \in [Windows -> [sent : Nat, yes : Nat, no : Nat]]
    /\ \A w \in Windows : UnderWay(w) <= MaxPolls[w]
    /\ shown \in [Windows ->
                     [serverUp : BOOLEAN, signedIn : BOOLEAN, signedOut : BOOLEAN,
                      user : Users \cup {Nobody}, idtoken : BOOLEAN]]

\* Every window is opened on the application.
Init ==
    /\ up = TRUE
    /\ session = Nobody
    /\ issued = [id \in Ids |-> Nobody]
    /\ ended = {} /\ codes = {} /\ stored = {}
    /\ made = 0
    /\ purpose = [id \in Ids |-> "signin"]
    /\ responses = {Home}
    /\ where = [w \in Windows |-> Home]
    /\ loaded = [w \in Windows |-> TRUE]
    /\ loads = [w \in Windows |-> 1]
    /\ exchange = [w \in Windows |-> FALSE]
    /\ due = [w \in Windows |-> {}]
    /\ polls = [w \in Windows |-> [NoPolls EXCEPT !.sent = 1]]
    /\ shown = [w \in Windows |-> Blank]

----------------------------------------------------------------------------
(* Loading the application at a location: the constructor and               *)
(* componentDidMount.                                                       *)

\* oidc-client takes a request out of the storage before it does anything else
\* with the response, and rejects a response without one.
Awaits(location) == location.query = "code" /\ location.id \in stored
SignsOut(location) == location.query = "state" /\ location.id \in stored

Loaded(w, location) ==
    /\ loads[w] < MaxLoads
    /\ where' = [where EXCEPT ![w] = location]
    /\ loaded' = [loaded EXCEPT ![w] = TRUE]
    /\ loads' = [loads EXCEPT ![w] = @ + 1]
    /\ stored' = IF location.query \in {"code", "state"}
                 THEN stored \ {location.id} ELSE stored
    /\ exchange' = [exchange EXCEPT ![w] = Awaits(location)]
    /\ due' = [due EXCEPT ![w] = {}]
    /\ polls' = [polls EXCEPT ![w] =
          IF Awaits(location) THEN NoPolls ELSE [NoPolls EXCEPT !.sent = 1]]
    /\ shown' = [shown EXCEPT ![w] = [Blank EXCEPT !.signedOut = SignsOut(location)]]

\* The user reloads a window, goes back or opens an earlier location in it.
Visit(w) ==
    /\ \E location \in responses : Loaded(w, location)
    /\ UNCHANGED <<provider, made, purpose, responses>>

\* The code is redeemed and the user info is fetched: signed in.
Exchanged(w) ==
    /\ exchange[w]
    /\ up /\ where[w].id \in codes
    /\ codes' = codes \ {where[w].id}
    /\ exchange' = [exchange EXCEPT ![w] = FALSE]
    /\ shown' = [shown EXCEPT ![w].signedIn = TRUE,
                              ![w].signedOut = FALSE,
                              ![w].user = issued[where[w].id],
                              ![w].idtoken = TRUE]
    /\ polls' = [polls EXCEPT ![w].sent = 1]
    /\ UNCHANGED <<up, session, issued, ended, requests, where, loaded, loads, due>>

\* A fault of ExchangeFails: the state is set behind the catch clause.
ExchangeFailsShown(w) ==
    /\ exchange[w]
    /\ exchange' = [exchange EXCEPT ![w] = FALSE]
    /\ polls' = [polls EXCEPT ![w].sent = 1]
    /\ shown' = [shown EXCEPT ![w].signedIn = TRUE]
    /\ UNCHANGED <<provider, requests, where, loaded, loads, due>>

\* Any of its requests fails, before the code is redeemed or after: the error is
\* logged.
ExchangeFails(w) ==
    /\ exchange[w]
    /\ codes' \in {codes, codes \ {where[w].id}}
    /\ exchange' = [exchange EXCEPT ![w] = FALSE]
    /\ polls' = [polls EXCEPT ![w].sent = 1]
    /\ UNCHANGED <<up, session, issued, ended>>
    /\ UNCHANGED <<requests, where, loaded, loads, due, shown>>

----------------------------------------------------------------------------
(* The buttons. *)

\* createSigninRequest and createSignoutRequest store a new request, unless the
\* provider's metadata cannot be had; redirect waits for three seconds.  The
\* sign-out request hints at the id token that the window has.
Ask(w, what) ==
    /\ loaded[w] /\ up
    /\ made < MaxRequests
    /\ made' = made + 1
    /\ purpose' = [purpose EXCEPT ![made + 1] = what]
    /\ stored' = stored \cup {made + 1}
    /\ due' = [due EXCEPT ![w] = @ \cup
          {[id |-> made + 1, hint |-> what = "signout" /\ shown[w].idtoken]}]
    /\ UNCHANGED <<provider, responses, where, loaded, loads, exchange, polls, shown>>

Login(w) == Ask(w, "signin")
Logout(w) == Ask(w, "signout")

\* The timer of a redirect: the window leaves for the provider.
Redirect(w, request) ==
    /\ loaded[w] /\ request \in due[w]
    /\ where' = [where EXCEPT ![w] = request]
    /\ loaded' = [loaded EXCEPT ![w] = FALSE]
    /\ exchange' = [exchange EXCEPT ![w] = FALSE]
    /\ due' = [due EXCEPT ![w] = {}]
    /\ polls' = [polls EXCEPT ![w] = NoPolls]
    /\ shown' = [shown EXCEPT ![w] = Blank]
    /\ UNCHANGED <<provider, requests, loads>>

----------------------------------------------------------------------------
(* The state of the server. *)

Polling(w) == loaded[w] /\ ~exchange[w]

\* A fault of Poll: the interval is cleared once the server was reached.
PollUntilUp(w) ==
    /\ Polling(w) /\ UnderWay(w) < MaxPolls[w] /\ ~shown[w].serverUp
    /\ polls' = [polls EXCEPT ![w].sent = @ + 1]
    /\ UNCHANGED <<provider, requests, page, shown>>

\* The interval calls updateServerState, whether earlier calls are through or
\* not.
Poll(w) ==
    /\ Polling(w) /\ UnderWay(w) < MaxPolls[w]
    /\ polls' = [polls EXCEPT ![w].sent = @ + 1]
    /\ UNCHANGED <<provider, requests, page, shown>>

\* What the response will be is settled at the server or on the way to it.
Answer(w) ==
    /\ polls[w].sent > 0
    /\ polls' = [polls EXCEPT ![w].sent = @ - 1,
                              ![w].yes = IF up THEN @ + 1 ELSE @,
                              ![w].no = IF up THEN @ ELSE @ + 1]
    /\ UNCHANGED <<provider, requests, page, shown>>

\* Responses arrive in any order.
PollYes(w) ==
    /\ polls[w].yes > 0
    /\ polls' = [polls EXCEPT ![w].yes = @ - 1]
    /\ shown' = [shown EXCEPT ![w].serverUp = TRUE]
    /\ UNCHANGED <<provider, requests, page>>

\* A fault of PollNo: the catch clause reads the response that it has not got,
\* and shows no value.
PollNoReadsStatus(w) ==
    /\ polls[w].no > 0
    /\ polls' = [polls EXCEPT ![w].no = @ - 1]
    /\ shown' = [shown EXCEPT ![w].serverUp = Nobody]
    /\ UNCHANGED <<provider, requests, page>>

PollNo(w) ==
    /\ polls[w].no > 0
    /\ polls' = [polls EXCEPT ![w].no = @ - 1]
    /\ shown' = [shown EXCEPT ![w].serverUp = FALSE]
    /\ UNCHANGED <<provider, requests, page>>

----------------------------------------------------------------------------
(* CertAssert, as the application sees it. *)

\* The server goes down, with all it has in memory, or comes up again.
Fall ==
    /\ up
    /\ up' = FALSE
    /\ session' = Nobody
    /\ codes' = {}
    /\ UNCHANGED <<issued, ended, requests, page, polls, shown>>
Rise ==
    /\ ~up
    /\ up' = TRUE
    /\ UNCHANGED <<session, issued, ended, codes, requests, page, polls, shown>>

\* It sends the window back to the application with a response.
SendBack(w, location) ==
    /\ responses' = responses \cup {location}
    /\ Loaded(w, location)
    /\ UNCHANGED <<up, made, purpose>>

\* Whoever has a session, or logs in now, gets a code.
SignedIn(w, user) ==
    /\ up /\ ~loaded[w] /\ purpose[where[w].id] = "signin"
    /\ session \in {Nobody, user}
    /\ session' = user
    /\ issued' = [issued EXCEPT ![where[w].id] = user]
    /\ codes' = codes \cup {where[w].id}
    /\ SendBack(w, [query |-> "code", id |-> where[w].id])
    /\ UNCHANGED ended

Refused(w) ==
    /\ up /\ ~loaded[w] /\ purpose[where[w].id] = "signin"
    /\ SendBack(w, [query |-> "error", id |-> where[w].id])
    /\ UNCHANGED <<session, issued, codes, ended>>

\* Only by the hint does the provider know where to send the window.
SignedOut(w) ==
    /\ up /\ ~loaded[w] /\ purpose[where[w].id] = "signout" /\ where[w].hint
    /\ session' = Nobody
    /\ ended' = ended \cup {where[w].id}
    /\ SendBack(w, [query |-> "state", id |-> where[w].id])
    /\ UNCHANGED <<issued, codes>>

----------------------------------------------------------------------------
Window(w) ==
    \/ Visit(w) \/ Exchanged(w) \/ ExchangeFails(w)
    \/ Login(w) \/ Logout(w) \/ (\E request \in due[w] : Redirect(w, request))
    \/ Poll(w) \/ Answer(w) \/ PollYes(w) \/ PollNo(w)
    \/ (\E user \in Users : SignedIn(w, user)) \/ Refused(w) \/ SignedOut(w)

Next == (\E w \in Windows : Window(w)) \/ Fall \/ Rise

\* The browser runs its interval, and every request of a page ends in a
\* response or an error.  Nobody has to press, visit or send back anything.
Fairness ==
    \A w \in Windows :
        /\ WF_vars(Poll(w))
        /\ WF_vars(Answer(w))
        /\ WF_vars(PollYes(w))
        /\ WF_vars(PollNo(w))
        /\ WF_vars(Exchanged(w) \/ ExchangeFails(w))

Spec == Init /\ [][Next]_vars /\ Fairness

----------------------------------------------------------------------------
(* Properties *)

\* What a window shows is true of one response to one request of this browser:
\* the user is the one the provider signed in for that request, however many
\* requests, windows and users are under way, and no two windows are signed in
\* by the same response (componentDidMount).
ShownIsTrue ==
    \A w \in Windows :
        /\ shown[w].signedIn =>
              /\ where[w].query = "code" /\ where[w].id \notin stored \cup codes
              /\ shown[w].user = issued[where[w].id] /\ shown[w].user # Nobody
              /\ \A v \in Windows \ {w} : shown[v].signedIn => where[v] # where[w]
        /\ shown[w].signedOut => where[w].query = "state" /\ where[w].id \in ended
        /\ ~(shown[w].signedIn /\ shown[w].signedOut)

\* Once the server stays as it is and a window stays open, the window comes to
\* show the state of the server for good: answers that were overtaken do not
\* stay (updateServerState, which setState as they come).
ServerStateShown ==
    \A w \in Windows :
        /\ <>[](up /\ loaded[w]) => <>[]shown[w].serverUp
        /\ <>[](~up /\ loaded[w]) => <>[]~shown[w].serverUp

=============================================================================
