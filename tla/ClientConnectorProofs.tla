------------------------ MODULE ClientConnectorProofs ------------------------
(***************************************************************************)
(* What the example application shows is true, for any number of windows,  *)
(* users, requests and loads.  Nothing here depends on fairness.           *)
(***************************************************************************)
EXTENDS ClientConnector, TLAPS

\* The requests that may still be answered by way of a window.
Outstanding(w) ==
    IF loaded[w] THEN {request.id : request \in due[w]} ELSE {where[w].id}

\* A window shows the application at a location that some response led to, or
\* is at the provider and shows nothing.
PagesComeFrom ==
    \A w \in Windows :
        IF loaded[w] THEN where[w] \in responses
        ELSE /\ where[w] \in Requests /\ due[w] = {}
             /\ ~exchange[w] /\ ~shown[w].signedIn /\ ~shown[w].signedOut

\* The provider said what the responses say.
ResponsesAreEarned ==
    \A location \in responses :
        /\ location.id \in 0 .. made
        /\ location.query = "code" => issued[location.id] # Nobody
        /\ location.query = "state" => location.id \in ended

\* A request is on its way in one window at most, and has no response yet.
OutstandingOnce ==
    /\ stored \subseteq 1 .. made /\ codes \subseteq 1 .. made
    /\ \A w \in Windows :
          /\ Outstanding(w) \subseteq 1 .. made
          /\ \A id \in Outstanding(w) :
                id \notin codes /\ \A location \in responses : location.id # id
          /\ \A v \in Windows \ {w} : Outstanding(v) \cap Outstanding(w) = {}

\* Whether a window took the request of its location out of the storage to
\* redeem the code.
Taken(w) == exchange[w] \/ shown[w].signedIn

\* At most one window takes a request, which makes a response good for one sign-on;
\* a window that redeems a code does not poll.
TakenOnce ==
    \A w \in Windows :
        /\ Taken(w) => where[w].query = "code" /\ where[w].id \notin stored
        /\ exchange[w] => polls[w] = NoPolls
        /\ \A v \in Windows \ {w} : Taken(v) /\ Taken(w) => where[v] # where[w]

\* The inductive invariant.
CInv == /\ PagesComeFrom
        /\ ResponsesAreEarned
        /\ OutstandingOnce
        /\ TakenOnce
        /\ ShownIsTrue

-----------------------------------------------------------------------------
(* Types. *)

PollCounts == [sent : Nat, yes : Nat, no : Nat]
Shown == [serverUp : BOOLEAN, signedIn : BOOLEAN, signedOut : BOOLEAN,
          user : Users \cup {Nobody}, idtoken : BOOLEAN]
USE DEF PollCounts, Shown

\* The counter of requests and its bound are numbers.
LEMMA TypeParts == TypeOK => made \in Nat /\ MaxRequests \in Nat
  BY ClientAssumption DEF TypeOK

\* The windows a user has at the provider are there with a request.
LEMMA AtProvider ==
    ASSUME TypeOK, PagesComeFrom, NEW w \in Windows, ~loaded[w]
    PROVE  where[w] \in Requests /\ where[w].id \in Ids
  BY DEF PagesComeFrom, Requests

\* The window that redeems a code is at a response that carries it.
LEMMA AtResponse ==
    ASSUME TypeOK, PagesComeFrom, TakenOnce, NEW w \in Windows, Taken(w)
    PROVE  /\ loaded[w] /\ where[w] \in responses /\ where[w] \in Locations
           /\ where[w].query = "code" /\ where[w].id \in Ids
<1>1. loaded[w] /\ where[w] \in responses /\ where[w].query = "code"
  BY DEF PagesComeFrom, TakenOnce, Taken
<1>2. where[w] \in Locations
  BY <1>1 DEF TypeOK
<1> QED
  BY <1>1, <1>2 DEF Locations, Home

\* A load leaves every variable within its type (componentDidMount).
LEMMA LoadedType ==
    ASSUME TypeOK, NEW w \in Windows, NEW location \in Locations,
           Loaded(w, location)
    PROVE  /\ where' \in [Windows -> Locations \cup Requests]
           /\ loaded' \in [Windows -> BOOLEAN]
           /\ loads' \in [Windows -> 0 .. MaxLoads]
           /\ stored' \subseteq Ids
           /\ exchange' \in [Windows -> BOOLEAN]
           /\ due' \in [Windows -> SUBSET Requests]
           /\ polls' \in [Windows -> PollCounts]
           /\ \A v \in Windows : UnderWay(v)' <= MaxPolls[v]
           /\ shown' \in [Windows -> Shown]
<1>1. /\ where' \in [Windows -> Locations \cup Requests]
      /\ loaded' \in [Windows -> BOOLEAN]
      /\ due' \in [Windows -> SUBSET Requests]
  BY DEF TypeOK, Loaded
<1>2. loads' \in [Windows -> 0 .. MaxLoads]
  BY ClientAssumption DEF TypeOK, Loaded
<1>3. stored' \subseteq Ids
  BY DEF TypeOK, Loaded
<1>4. exchange' \in [Windows -> BOOLEAN]
  BY DEF TypeOK, Loaded, Awaits
<1>5. /\ polls' \in [Windows -> PollCounts]
      /\ \A v \in Windows : UnderWay(v)' <= MaxPolls[v]
  <2> DEFINE new == IF Awaits(location) THEN NoPolls ELSE [NoPolls EXCEPT !.sent = 1]
  <2>1. /\ new \in PollCounts
        /\ new.sent + new.yes + new.no \in {0, 1}
    BY DEF NoPolls
  <2>2. polls' = [polls EXCEPT ![w] = new]
    BY DEF Loaded
  <2> HIDE DEF new
  <2>3. polls' \in [Windows -> PollCounts]
    BY <2>1, <2>2 DEF TypeOK
  <2>4. ASSUME NEW v \in Windows PROVE UnderWay(v)' <= MaxPolls[v]
    <3>1. CASE v = w
      <4>1. polls'[v] = new /\ MaxPolls[v] \in Nat \ {0}
        BY <2>2, <3>1, ClientAssumption DEF TypeOK
      <4> QED
        BY <2>1, <4>1 DEF UnderWay
    <3>2. CASE v # w
      <4>1. polls'[v] = polls[v] /\ UnderWay(v) <= MaxPolls[v]
        BY <2>2, <3>2 DEF TypeOK
      <4> QED
        BY <4>1 DEF UnderWay
    <3> QED
      BY <3>1, <3>2
  <2> QED
    BY <2>3, <2>4
<1>6. shown' \in [Windows -> Shown]
  BY DEF TypeOK, Loaded, Blank, SignsOut
<1> QED
  BY <1>1, <1>2, <1>3, <1>4, <1>5, <1>6

\* The calls that are under way after a window's polls have changed.
LEMMA PollsType ==
    ASSUME TypeOK, NEW w \in Windows, polls' \in [Windows -> PollCounts],
           polls'[w].sent + polls'[w].yes + polls'[w].no <= MaxPolls[w],
           \A v \in Windows \ {w} : polls'[v] = polls[v]
    PROVE  \A v \in Windows : UnderWay(v)' <= MaxPolls[v]
<1> SUFFICES ASSUME NEW v \in Windows PROVE UnderWay(v)' <= MaxPolls[v]
  OBVIOUS
<1>1. CASE v = w
  BY <1>1 DEF UnderWay
<1>2. CASE v # w
  <2>1. polls'[v] = polls[v] /\ UnderWay(v) <= MaxPolls[v]
    BY <1>2 DEF TypeOK
  <2> QED
    BY <2>1 DEF UnderWay
<1> QED
  BY <1>1, <1>2

\* The calls of updateServerState that a window has under way, as numbers.
LEMMA PollFacts ==
    ASSUME TypeOK, NEW w \in Windows
    PROVE  /\ polls[w] \in PollCounts
           /\ polls[w].sent \in Nat /\ polls[w].yes \in Nat /\ polls[w].no \in Nat
           /\ UnderWay(w) = polls[w].sent + polls[w].yes + polls[w].no
           /\ UnderWay(w) <= MaxPolls[w] /\ MaxPolls[w] \in Nat \ {0}
  BY ClientAssumption DEF TypeOK, UnderWay

\* Sending a call, and each way its response can come, keeps the count.
LEMMA PollingType ==
    ASSUME TypeOK, NEW w \in Windows,
           \/ Poll(w) \/ Answer(w) \/ PollYes(w) \/ PollNo(w)
    PROVE  /\ polls' \in [Windows -> PollCounts]
           /\ \A v \in Windows : UnderWay(v)' <= MaxPolls[v]
<1> DEFINE Changed ==
       /\ polls' \in [Windows -> PollCounts]
       /\ polls'[w].sent + polls'[w].yes + polls'[w].no <= MaxPolls[w]
       /\ \A v \in Windows \ {w} : polls'[v] = polls[v]
<1>1. /\ polls \in [Windows -> PollCounts]
      /\ polls[w].sent \in Nat /\ polls[w].yes \in Nat /\ polls[w].no \in Nat
      /\ polls[w].sent + polls[w].yes + polls[w].no <= MaxPolls[w]
      /\ MaxPolls[w] \in Nat
  BY PollFacts DEF TypeOK
<1>2. CASE Poll(w)
  <2>1. polls[w].sent + polls[w].yes + polls[w].no < MaxPolls[w]
    BY <1>2 DEF Poll, UnderWay
  <2>2. Changed
    BY <1>1, <1>2, <2>1 DEF Poll
  <2> QED
    BY <2>2, PollsType
<1>3. CASE Answer(w)
  <2>1. polls[w].sent - 1 \in Nat
    BY <1>1, <1>3 DEF Answer
  <2> DEFINE fewer == [polls EXCEPT ![w].sent = @ - 1]
             yes == [fewer EXCEPT ![w].yes = IF up THEN @ + 1 ELSE @]
  <2>2. /\ fewer \in [Windows -> PollCounts]
        /\ fewer[w].sent = polls[w].sent - 1
        /\ fewer[w].yes = polls[w].yes /\ fewer[w].no = polls[w].no
        /\ \A v \in Windows \ {w} : fewer[v] = polls[v]
    BY <1>1, <2>1
  <2>3. polls' = [yes EXCEPT ![w].no = IF up THEN @ ELSE @ + 1]
    BY <1>3 DEF Answer
  <2> HIDE DEF fewer
  <2>4. /\ yes \in [Windows -> PollCounts]
        /\ yes[w].sent = fewer[w].sent
        /\ yes[w].yes = IF up THEN fewer[w].yes + 1 ELSE fewer[w].yes
        /\ yes[w].no = fewer[w].no
        /\ \A v \in Windows \ {w} : yes[v] = fewer[v]
    BY <2>2
  <2> HIDE DEF yes
  <2>5. /\ polls' \in [Windows -> PollCounts]
        /\ polls'[w].sent = yes[w].sent
        /\ polls'[w].yes = yes[w].yes
        /\ polls'[w].no = IF up THEN yes[w].no ELSE yes[w].no + 1
        /\ \A v \in Windows \ {w} : polls'[v] = yes[v]
    BY <2>3, <2>4
  <2>6. Changed
    BY <1>1, <2>2, <2>4, <2>5
  <2> QED
    BY <2>6, PollsType
<1>4. CASE PollYes(w)
  <2>1. Changed
    BY <1>1, <1>4 DEF PollYes
  <2> QED
    BY <2>1, PollsType
<1>5. CASE PollNo(w)
  <2>1. Changed
    BY <1>1, <1>5 DEF PollNo
  <2> QED
    BY <2>1, PollsType
<1> QED
  BY <1>2, <1>3, <1>4, <1>5

\* The window polls once when an exchange has ended.
LEMMA ExchangeType ==
    ASSUME TypeOK, TakenOnce, NEW w \in Windows, exchange[w],
           polls' = [polls EXCEPT ![w].sent = 1]
    PROVE  /\ polls' \in [Windows -> PollCounts]
           /\ \A v \in Windows : UnderWay(v)' <= MaxPolls[v]
<1>1. polls[w].yes = 0 /\ polls[w].no = 0
  BY DEF TakenOnce, NoPolls
<1>2. polls' \in [Windows -> PollCounts]
  BY DEF TypeOK
<1>3. polls'[w].sent = 1 /\ polls'[w].yes = 0 /\ polls'[w].no = 0
  BY <1>1 DEF TypeOK
<1>4. \A v \in Windows \ {w} : polls'[v] = polls[v]
  BY DEF TypeOK
<1>5. MaxPolls[w] \in Nat \ {0}
  BY PollFacts
<1>6. polls'[w].sent + polls'[w].yes + polls'[w].no <= MaxPolls[w]
  BY <1>3, <1>5
<1> QED
  BY <1>2, <1>4, <1>6, PollsType

\* The types hold when the application is loaded for the first time.
LEMMA TypeInit == Init => TypeOK
<1> SUFFICES ASSUME Init PROVE TypeOK
  OBVIOUS
<1>1. /\ polls \in [Windows -> PollCounts]
      /\ \A w \in Windows : UnderWay(w) <= MaxPolls[w]
  <2> SUFFICES ASSUME NEW w \in Windows
               PROVE  /\ polls[w] \in [sent : Nat, yes : Nat, no : Nat]
                      /\ UnderWay(w) <= MaxPolls[w]
    BY DEF Init
  <2>1. polls[w] = [sent |-> 1, yes |-> 0, no |-> 0]
    BY DEF Init, NoPolls
  <2>2. MaxPolls[w] \in Nat \ {0}
    BY ClientAssumption
  <2> QED
    BY <2>1, <2>2 DEF UnderWay
<1>2. /\ up \in BOOLEAN /\ session \in Users \cup {Nobody}
      /\ issued \in [Ids -> Users \cup {Nobody}]
      /\ ended \subseteq Ids /\ codes \subseteq Ids /\ stored \subseteq Ids
      /\ made \in 0 .. MaxRequests
      /\ purpose \in [Ids -> Purposes]
  BY ClientAssumption DEF Init, Purposes
<1>3. /\ responses \subseteq Locations
      /\ where \in [Windows -> Locations \cup Requests]
      /\ loaded \in [Windows -> BOOLEAN]
      /\ loads \in [Windows -> 0 .. MaxLoads]
      /\ exchange \in [Windows -> BOOLEAN]
      /\ due \in [Windows -> SUBSET Requests]
  BY ClientAssumption DEF Init, Locations
<1>4. shown \in [Windows -> Shown]
  BY DEF Init, Blank
<1> QED
  BY <1>1, <1>2, <1>3, <1>4 DEF TypeOK

\* Every step keeps the types.
LEMMA TypeStep ==
    ASSUME TypeOK, PagesComeFrom, TakenOnce, [Next]_vars
    PROVE  TypeOK'
<1> USE DEF vars, provider, requests, page
<1>1. ASSUME NEW w \in Windows, Visit(w) PROVE TypeOK'
  <2>1. PICK location \in responses : Loaded(w, location)
    BY <1>1 DEF Visit
  <2>2. location \in Locations
    BY DEF TypeOK
  <2>3. UNCHANGED <<provider, made, purpose, responses>>
    BY <1>1 DEF Visit
  <2> QED
    BY <2>1, <2>2, <2>3, LoadedType DEF TypeOK
<1>2. ASSUME NEW w \in Windows, Exchanged(w) PROVE TypeOK'
  <2>1. where[w].id \in Ids
    BY <1>2, AtResponse DEF Exchanged, Taken
  <2>2. /\ polls' \in [Windows -> PollCounts]
        /\ \A v \in Windows : UnderWay(v)' <= MaxPolls[v]
    BY <1>2, ExchangeType DEF Exchanged
  <2>3. issued[where[w].id] \in Users \cup {Nobody} /\ shown \in [Windows -> Shown]
    BY <2>1 DEF TypeOK
  <2> DEFINE in == [shown EXCEPT ![w].signedIn = TRUE]
             notOut == [in EXCEPT ![w].signedOut = FALSE]
             whom == [notOut EXCEPT ![w].user = issued[where[w].id]]
  <2>4. shown' \in [Windows -> Shown]
    <3>1. shown' = [whom EXCEPT ![w].idtoken = TRUE]
      BY <1>2 DEF Exchanged
    <3>2. in \in [Windows -> Shown]
      BY <2>3
    <3>3. notOut \in [Windows -> Shown]
      <4> HIDE DEF in
      <4> QED
        BY <3>2
    <3>4. whom \in [Windows -> Shown]
      <4> HIDE DEF notOut
      <4> QED
        BY <2>3, <3>3
    <3> HIDE DEF whom
    <3> QED
      BY <3>1, <3>4
  <2> QED
    BY <1>2, <2>1, <2>2, <2>4 DEF Exchanged, TypeOK
<1>3. ASSUME NEW w \in Windows, ExchangeFails(w) PROVE TypeOK'
  <2>1. /\ polls' \in [Windows -> PollCounts]
        /\ \A v \in Windows : UnderWay(v)' <= MaxPolls[v]
    BY <1>3, ExchangeType DEF ExchangeFails
  <2> QED
    BY <1>3, <2>1 DEF ExchangeFails, TypeOK
<1>4. ASSUME NEW w \in Windows, NEW what \in Purposes, Ask(w, what) PROVE TypeOK'
  <2>1. made + 1 \in Ids /\ made' \in 0 .. MaxRequests
    BY <1>4, TypeParts DEF Ask, Ids, TypeOK
  <2>2. shown[w].idtoken \in BOOLEAN
    BY DEF TypeOK
  <2>3. [id |-> made + 1, hint |-> what = "signout" /\ shown[w].idtoken] \in Requests
    BY <2>1, <2>2 DEF Requests
  <2>4. due' \in [Windows -> SUBSET Requests]
    BY <1>4, <2>3 DEF Ask, TypeOK
  <2>5. \A v \in Windows : UnderWay(v)' = UnderWay(v)
    BY <1>4 DEF Ask, UnderWay
  <2> QED
    BY <1>4, <2>1, <2>4, <2>5 DEF Ask, TypeOK
<1>5. ASSUME NEW w \in Windows, NEW request \in due[w], Redirect(w, request)
      PROVE  TypeOK'
  <2>1. request \in Requests
    BY DEF TypeOK
  <2>2. polls' = [polls EXCEPT ![w] = NoPolls]
    BY <1>5 DEF Redirect
  <2>3. /\ polls' \in [Windows -> PollCounts] /\ polls'[w] = NoPolls
        /\ \A v \in Windows \ {w} : polls'[v] = polls[v]
    BY <2>2 DEF NoPolls, TypeOK
  <2>4. polls'[w].sent + polls'[w].yes + polls'[w].no <= MaxPolls[w]
    BY <2>3, PollFacts DEF NoPolls
  <2>5. \A v \in Windows : UnderWay(v)' <= MaxPolls[v]
    BY <2>3, <2>4, PollsType
  <2>6. shown' \in [Windows -> Shown]
    BY <1>5 DEF Redirect, TypeOK, Blank
  <2> QED
    BY <1>5, <2>1, <2>3, <2>5, <2>6 DEF Redirect, TypeOK
<1>6. ASSUME NEW w \in Windows, \/ Poll(w) \/ Answer(w) \/ PollYes(w) \/ PollNo(w)
      PROVE  TypeOK'
  <2>1. /\ polls' \in [Windows -> PollCounts]
        /\ \A v \in Windows : UnderWay(v)' <= MaxPolls[v]
    BY <1>6, PollingType
  <2>2. shown' \in [Windows -> Shown]
    <3>1. shown \in [Windows -> Shown]
      BY DEF TypeOK
    <3> QED
      BY <1>6, <3>1 DEF Poll, Answer, PollYes, PollNo
  <2>3. UNCHANGED <<provider, requests, page>>
    BY <1>6 DEF Poll, Answer, PollYes, PollNo
  <2> QED
    BY <2>1, <2>2, <2>3 DEF TypeOK
<1>7. ASSUME NEW w \in Windows, NEW user \in Users, SignedIn(w, user) PROVE TypeOK'
  <2> DEFINE location == [query |-> "code", id |-> where[w].id]
  <2>1. where[w].id \in Ids /\ location \in Locations
    BY <1>7, AtProvider DEF SignedIn, Locations
  <2>2. Loaded(w, location) /\ responses' = responses \cup {location}
    BY <1>7 DEF SignedIn, SendBack
  <2>3. UNCHANGED <<up, made, purpose, ended>>
    BY <1>7 DEF SignedIn, SendBack
  <2> QED
    BY <1>7, <2>1, <2>2, <2>3, LoadedType DEF SignedIn, TypeOK
<1>8. ASSUME NEW w \in Windows, Refused(w) PROVE TypeOK'
  <2> DEFINE location == [query |-> "error", id |-> where[w].id]
  <2>1. where[w].id \in Ids /\ location \in Locations
    BY <1>8, AtProvider DEF Refused, Locations
  <2>2. Loaded(w, location) /\ responses' = responses \cup {location}
    BY <1>8 DEF Refused, SendBack
  <2>3. UNCHANGED <<up, made, purpose, session, issued, codes, ended>>
    BY <1>8 DEF Refused, SendBack
  <2> QED
    BY <2>1, <2>2, <2>3, LoadedType DEF TypeOK
<1>9. ASSUME NEW w \in Windows, SignedOut(w) PROVE TypeOK'
  <2> DEFINE location == [query |-> "state", id |-> where[w].id]
  <2>1. where[w].id \in Ids /\ location \in Locations
    BY <1>9, AtProvider DEF SignedOut, Locations
  <2>2. Loaded(w, location) /\ responses' = responses \cup {location}
    BY <1>9 DEF SignedOut, SendBack
  <2>3. UNCHANGED <<up, made, purpose, issued, codes>>
    BY <1>9 DEF SignedOut, SendBack
  <2> QED
    BY <1>9, <2>1, <2>2, <2>3, LoadedType DEF SignedOut, TypeOK
<1>10. CASE Fall \/ Rise \/ UNCHANGED vars
  <2>1. UNCHANGED <<up, requests, page, polls, shown>> \/ UNCHANGED <<requests, page, polls, shown>>
    BY <1>10 DEF Fall, Rise
  <2>2. \A w \in Windows : UnderWay(w)' = UnderWay(w)
    BY <2>1 DEF UnderWay
  <2> QED
    BY <1>10, <2>2 DEF Fall, Rise, TypeOK
<1> QED
  BY <1>1, <1>2, <1>3, <1>4, <1>5, <1>6, <1>7, <1>8, <1>9, <1>10
     DEF Next, Window, Login, Logout, Purposes

-----------------------------------------------------------------------------
(* Steps by what they do to the windows. *)

\* What the invariant says of a window other than the one that steps depends on
\* no more than this of the window.
Same(v) ==
    /\ where'[v] = where[v] /\ loaded'[v] = loaded[v] /\ due'[v] = due[v]
    /\ exchange'[v] = exchange[v] /\ polls'[v] = polls[v] /\ shown'[v] = shown[v]

\* What a window has on its way is of that window's variables only.
LEMMA SameOutstanding ==
    ASSUME NEW v \in Windows, Same(v)
    PROVE  Outstanding(v)' = Outstanding(v) /\ Taken(v)' = Taken(v)
  BY DEF Same, Outstanding, Taken

\* The application is loaded with a response: one that is there already, or the
\* one to the request that the window took to the provider.
LEMMA LoadedKeeps ==
    ASSUME TypeOK, CInv, NEW w \in Windows, NEW location \in Locations,
           Loaded(w, location), made' = made,
           responses' = responses \cup {location}, ResponsesAreEarned',
           \A v \in Windows \ {w} : \A id \in Outstanding(v) :
               id \notin codes' /\ location.id # id,
           \A old \in responses : old.query = "code" =>
               /\ old.id \in codes' => old.id \in codes
               /\ issued'[old.id] = issued[old.id],
           ended \subseteq ended', codes' \subseteq 1 .. made
    PROVE  CInv'
<1>1. /\ where'[w] = location /\ loaded'[w] = TRUE /\ due'[w] = {}
      /\ exchange'[w] = Awaits(location)
      /\ shown'[w] = [Blank EXCEPT !.signedOut = SignsOut(location)]
      /\ Awaits(location) => polls'[w] = NoPolls
  BY DEF Loaded, TypeOK
<1>2. \A v \in Windows \ {w} : Same(v)
  BY DEF Loaded, TypeOK, Same
<1>3. /\ stored' \subseteq stored
      /\ location.query \in {"code", "state"} => location.id \notin stored'
  BY DEF Loaded
<1>4. /\ ~shown'[w].signedIn /\ (shown'[w].signedOut <=> SignsOut(location))
      /\ Outstanding(w)' = {} /\ (Taken(w)' <=> Awaits(location))
  <2>1. ~shown'[w].signedIn /\ (shown'[w].signedOut <=> SignsOut(location))
    BY <1>1 DEF Blank
  <2>2. Outstanding(w)' = {}
    BY <1>1 DEF Outstanding
  <2>3. Taken(w)' <=> Awaits(location)
    BY <1>1, <2>1 DEF Taken
  <2> QED
    BY <2>1, <2>2, <2>3
<1>5. \A v \in Windows \ {w} : Outstanding(v)' = Outstanding(v) /\ Taken(v)' = Taken(v)
  BY <1>2, SameOutstanding
<1>6. PagesComeFrom'
  <2> SUFFICES ASSUME NEW v \in Windows
               PROVE  IF loaded'[v] THEN where'[v] \in responses'
                      ELSE /\ where'[v] \in Requests /\ due'[v] = {}
                           /\ ~exchange'[v] /\ ~shown'[v].signedIn
                           /\ ~shown'[v].signedOut
    BY DEF PagesComeFrom
  <2>1. CASE v = w
    BY <1>1, <2>1
  <2>2. CASE v # w
    BY <1>2, <2>2 DEF Same, CInv, PagesComeFrom
  <2> QED
    BY <2>1, <2>2
<1>7. OutstandingOnce'
  <2> SUFFICES ASSUME NEW v \in Windows
               PROVE  /\ stored' \subseteq 1 .. made' /\ codes' \subseteq 1 .. made'
                      /\ Outstanding(v)' \subseteq 1 .. made'
                      /\ \A id \in Outstanding(v)' :
                            /\ id \notin codes'
                            /\ \A old \in responses' : old.id # id
                      /\ \A u \in Windows \ {v} :
                            Outstanding(u)' \cap Outstanding(v)' = {}
    BY DEF OutstandingOnce
  <2>1. CASE v = w
    BY <1>3, <1>4, <1>5, <2>1 DEF CInv, OutstandingOnce
  <2>2. CASE v # w
    BY <1>3, <1>4, <1>5, <2>2 DEF CInv, OutstandingOnce
  <2> QED
    BY <2>1, <2>2
<1>8. TakenOnce'
  <2>1. ASSUME NEW v \in Windows \ {w}, Taken(v), Awaits(location)
        PROVE  where[v] # location
    BY <2>1 DEF CInv, TakenOnce, Awaits
  <2>2. \A v \in Windows \ {w} : where'[v] = where[v] /\ polls'[v] = polls[v]
                                  /\ exchange'[v] = exchange[v]
    BY <1>2 DEF Same
  <2>3. Awaits(location) => location.query = "code" /\ location.id \notin stored'
    BY <1>3 DEF Awaits
  <2> QED
    <3> SUFFICES ASSUME NEW v \in Windows
                 PROVE  /\ Taken(v)' => where'[v].query = "code"
                                        /\ where'[v].id \notin stored'
                        /\ exchange'[v] => polls'[v] = NoPolls
                        /\ \A u \in Windows \ {v} :
                              Taken(u)' /\ Taken(v)' => where'[u] # where'[v]
      BY DEF TakenOnce
    <3>1. CASE v = w
      BY <1>1, <1>4, <1>5, <2>1, <2>2, <2>3, <3>1
    <3>2. CASE v # w
      BY <1>1, <1>3, <1>4, <1>5, <2>1, <2>2, <3>2 DEF CInv, TakenOnce
    <3> QED
      BY <3>1, <3>2
<1>9. ShownIsTrue'
  <2>1. /\ shown'[w].signedOut => where'[w].query = "state" /\ where'[w].id \in ended'
    BY <1>1, <1>4 DEF SignsOut, ResponsesAreEarned
  <2>2. ASSUME NEW v \in Windows \ {w}
        PROVE  /\ where'[v] = where[v] /\ shown'[v] = shown[v]
               /\ shown[v].signedIn => loaded[v] /\ where[v] \in responses
    BY <1>2 DEF Same, CInv, PagesComeFrom
  <2>3. ASSUME NEW v \in Windows \ {w}, shown[v].signedIn
        PROVE  /\ where[v].query = "code" /\ where[v].id \notin stored' \cup codes'
               /\ shown[v].user = issued'[where[v].id] /\ shown[v].user # Nobody
    BY <1>3, <2>2, <2>3 DEF CInv, ShownIsTrue
  <2> QED
    BY <1>4, <2>1, <2>2, <2>3 DEF CInv, ShownIsTrue
<1> QED
  BY <1>6, <1>7, <1>8, <1>9 DEF CInv

\* A window that is at the provider gets the response to its request, which is
\* the first to it and is for no other window.
LEMMA SentBackKeeps ==
    ASSUME TypeOK, CInv, NEW w \in Windows, ~loaded[w],
           NEW query \in {"code", "error", "state"},
           SendBack(w, [query |-> query, id |-> where[w].id]),
           query = "code" => issued'[where[w].id] # Nobody,
           query = "state" => where[w].id \in ended',
           codes' \subseteq codes \cup {where[w].id}, ended \subseteq ended',
           \A id \in Ids : id # where[w].id => issued'[id] = issued[id]
    PROVE  CInv'
<1> DEFINE own == where[w].id
           location == [query |-> query, id |-> own]
<1>1. own \in Ids /\ location \in Locations
  BY AtProvider DEF CInv, Locations
<1>2. /\ Loaded(w, location) /\ made' = made
      /\ responses' = responses \cup {location}
  BY DEF SendBack
<1>3. Outstanding(w) = {own}
  BY DEF Outstanding
<1>4. /\ own \in 1 .. made
      /\ \A old \in responses : old.id # own
      /\ \A v \in Windows \ {w} : own \notin Outstanding(v)
  BY <1>3 DEF CInv, OutstandingOnce
<1>5. \A v \in Windows : \A id \in Outstanding(v) : id \notin codes
  BY DEF CInv, OutstandingOnce
<1>6. \A old \in responses : old.query = "code" => old.id \in Ids
  BY DEF TypeOK, Locations, Home
<1> HIDE DEF own
<1>7. ResponsesAreEarned'
  <2> SUFFICES ASSUME NEW new \in responses'
               PROVE  /\ new.id \in 0 .. made'
                      /\ new.query = "code" => issued'[new.id] # Nobody
                      /\ new.query = "state" => new.id \in ended'
    BY DEF ResponsesAreEarned
  <2>1. CASE new = location
    BY <1>2, <1>4, <2>1, TypeParts DEF own
  <2>2. CASE new \in responses
    BY <1>2, <1>4, <1>6, <2>2 DEF CInv, ResponsesAreEarned, own
  <2> QED
    BY <1>2, <2>1, <2>2
<1>8. \A v \in Windows \ {w} : \A id \in Outstanding(v) :
          id \notin codes' /\ location.id # id
  BY <1>4, <1>5 DEF own
<1>9. \A old \in responses : old.query = "code" =>
          /\ old.id \in codes' => old.id \in codes
          /\ issued'[old.id] = issued[old.id]
  BY <1>4, <1>6 DEF own
<1>10. codes' \subseteq 1 .. made
  BY <1>4 DEF CInv, OutstandingOnce, own
<1> HIDE DEF location
<1> QED
  BY <1>1, <1>2, <1>7, <1>8, <1>9, <1>10, LoadedKeeps

-----------------------------------------------------------------------------
(* The other steps. *)

\* A request that is made anew is nowhere yet.
LEMMA AskKeeps ==
    ASSUME TypeOK, CInv, NEW w \in Windows, NEW what \in Purposes, Ask(w, what)
    PROVE  CInv'
<1> DEFINE request == [id |-> made + 1, hint |-> what = "signout" /\ shown[w].idtoken]
<1>1. /\ loaded[w] /\ made' = made + 1 /\ stored' = stored \cup {made + 1}
      /\ UNCHANGED <<provider, responses, where, loaded, exchange, polls, shown>>
  BY DEF Ask
<1>2. due'[w] = due[w] \cup {request} /\ \A v \in Windows \ {w} : due'[v] = due[v]
  BY DEF Ask, TypeOK
<1>3. made \in Nat /\ stored \subseteq 1 .. made
  BY TypeParts DEF CInv, OutstandingOnce
<1>4. /\ Outstanding(w)' = Outstanding(w) \cup {made + 1}
      /\ \A v \in Windows \ {w} : Outstanding(v)' = Outstanding(v)
  <2>1. Outstanding(w)' = {r.id : r \in due[w] \cup {request}}
    BY <1>1, <1>2 DEF Outstanding
  <2>2. Outstanding(w) = {r.id : r \in due[w]} /\ request.id = made + 1
    BY <1>1 DEF Outstanding
  <2> HIDE DEF request
  <2> QED
    BY <1>1, <1>2, <2>1, <2>2 DEF Outstanding
<1>5. \A location \in responses : location.id \in 0 .. made
  BY DEF CInv, ResponsesAreEarned
<1>6. \A v \in Windows : Outstanding(v) \subseteq 1 .. made
  BY DEF CInv, OutstandingOnce
<1>7. PagesComeFrom'
  BY <1>1, <1>2 DEF CInv, PagesComeFrom, provider
<1>8. ResponsesAreEarned'
  BY <1>1, <1>3 DEF CInv, ResponsesAreEarned, provider
<1>9. codes \subseteq 1 .. made
  BY DEF CInv, OutstandingOnce
<1>10. OutstandingOnce'
  <2> SUFFICES ASSUME NEW v \in Windows
               PROVE  /\ stored' \subseteq 1 .. made' /\ codes' \subseteq 1 .. made'
                      /\ Outstanding(v)' \subseteq 1 .. made'
                      /\ \A id \in Outstanding(v)' :
                            /\ id \notin codes'
                            /\ \A old \in responses' : old.id # id
                      /\ \A u \in Windows \ {v} :
                            Outstanding(u)' \cap Outstanding(v)' = {}
    BY DEF OutstandingOnce
  <2>1. stored' \subseteq 1 .. made' /\ codes' \subseteq 1 .. made'
    BY <1>1, <1>3, <1>9 DEF provider
  <2>2. \A id \in Outstanding(v) : id \notin codes /\ \A old \in responses : old.id # id
    BY DEF CInv, OutstandingOnce
  <2>3. \A u \in Windows \ {v} : Outstanding(u) \cap Outstanding(v) = {}
    BY DEF CInv, OutstandingOnce
  <2>4. made + 1 \notin codes /\ \A old \in responses : old.id # made + 1
    BY <1>3, <1>5, <1>9
  <2>5. \A u \in Windows : made + 1 \notin Outstanding(u)
    BY <1>3, <1>6
  <2>6. CASE v = w
    BY <1>1, <1>3, <1>4, <1>6, <2>1, <2>2, <2>3, <2>4, <2>5, <2>6 DEF provider
  <2>7. CASE v # w
    BY <1>1, <1>3, <1>4, <1>6, <2>1, <2>2, <2>3, <2>4, <2>5, <2>7 DEF provider
  <2> QED
    BY <2>6, <2>7
<1>11. \A v \in Windows : Taken(v) => where[v].id \in 1 .. made
  BY <1>5, AtResponse DEF CInv, Ids
<1>12. TakenOnce'
  BY <1>1, <1>3, <1>11 DEF CInv, TakenOnce, Taken
<1>13. ShownIsTrue'
  BY <1>1, <1>3, <1>11 DEF CInv, ShownIsTrue, Taken, provider
<1> QED
  BY <1>7, <1>8, <1>10, <1>12, <1>13 DEF CInv

\* The window leaves for the provider with one of its requests.
LEMMA RedirectKeeps ==
    ASSUME TypeOK, CInv, NEW w \in Windows, NEW request \in due[w],
           Redirect(w, request)
    PROVE  CInv'
<1>1. /\ loaded[w] /\ where'[w] = request /\ loaded'[w] = FALSE
      /\ exchange'[w] = FALSE /\ due'[w] = {} /\ shown'[w] = Blank
      /\ request \in Requests /\ UNCHANGED <<provider, requests>>
  BY DEF Redirect, TypeOK
<1>2. \A v \in Windows \ {w} : Same(v)
  BY DEF Redirect, TypeOK, Same
<1>3. /\ ~shown'[w].signedIn /\ ~shown'[w].signedOut /\ ~Taken(w)'
  BY <1>1 DEF Blank, Taken
<1>4. \A v \in Windows \ {w} : Outstanding(v)' = Outstanding(v) /\ Taken(v)' = Taken(v)
  BY <1>2, SameOutstanding
<1>5. Outstanding(w)' \subseteq Outstanding(w)
  BY <1>1 DEF Outstanding
<1>6. PagesComeFrom'
  <2> SUFFICES ASSUME NEW v \in Windows
               PROVE  IF loaded'[v] THEN where'[v] \in responses'
                      ELSE /\ where'[v] \in Requests /\ due'[v] = {}
                           /\ ~exchange'[v] /\ ~shown'[v].signedIn
                           /\ ~shown'[v].signedOut
    BY DEF PagesComeFrom
  <2>1. CASE v = w
    BY <1>1, <1>3, <2>1
  <2>2. CASE v # w
    BY <1>1, <1>2, <2>2 DEF Same, CInv, PagesComeFrom, requests
  <2> QED
    BY <2>1, <2>2
<1>7. ResponsesAreEarned'
  BY <1>1 DEF CInv, ResponsesAreEarned, provider, requests
<1>8. OutstandingOnce'
  <2>1. \A v \in Windows : Outstanding(v)' \subseteq Outstanding(v)
    BY <1>4, <1>5
  <2> QED
    BY <1>1, <2>1 DEF CInv, OutstandingOnce, provider, requests
<1>9. TakenOnce'
  BY <1>1, <1>2, <1>3, <1>4 DEF CInv, TakenOnce, Same, requests
<1>10. ShownIsTrue'
  BY <1>1, <1>2, <1>3 DEF CInv, ShownIsTrue, Same, provider, requests
<1> QED
  BY <1>6, <1>7, <1>8, <1>9, <1>10 DEF CInv

\* A window shows that it is signed in when its code has been redeemed.
LEMMA ExchangedKeeps ==
    ASSUME TypeOK, CInv, NEW w \in Windows, Exchanged(w)
    PROVE  CInv'
<1> DEFINE own == where[w].id
<1>1. /\ exchange[w] /\ codes' = codes \ {own} /\ exchange'[w] = FALSE
      /\ UNCHANGED <<up, session, issued, ended, requests, where, loaded, loads, due>>
  BY DEF Exchanged, TypeOK
<1>2. /\ shown'[w].signedIn /\ ~shown'[w].signedOut
      /\ shown'[w].user = issued[own]
  BY DEF Exchanged, TypeOK
<1>3. \A v \in Windows \ {w} : Same(v)
  BY DEF Exchanged, TypeOK, Same
<1>4. /\ Taken(w) /\ loaded[w] /\ where[w] \in responses /\ where[w].query = "code"
  BY <1>1, AtResponse DEF CInv, Taken
<1>5. own \notin stored /\ issued[own] # Nobody
  BY <1>4 DEF CInv, TakenOnce, ResponsesAreEarned
<1>6. \A v \in Windows : (Taken(v)' <=> Taken(v)) /\ Outstanding(v)' = Outstanding(v)
  BY <1>1, <1>2, <1>3, <1>4 DEF Same, Taken, Outstanding
<1>7. PagesComeFrom'
  BY <1>1, <1>3, <1>4 DEF CInv, PagesComeFrom, Same, requests
<1>8. ResponsesAreEarned'
  BY <1>1 DEF CInv, ResponsesAreEarned, requests
<1>9. OutstandingOnce'
  BY <1>1, <1>6 DEF CInv, OutstandingOnce, requests
<1>10. TakenOnce'
  BY <1>1, <1>3, <1>6 DEF CInv, TakenOnce, Same, requests
<1>11. ShownIsTrue'
  <2>1. \A v \in Windows \ {w} : shown[v].signedIn => where[v] # where[w]
    BY <1>4 DEF CInv, TakenOnce, Taken
  <2> SUFFICES ASSUME NEW v \in Windows
               PROVE  /\ shown'[v].signedIn =>
                            /\ where[v].query = "code"
                            /\ where[v].id \notin stored \cup codes'
                            /\ shown'[v].user = issued[where[v].id]
                            /\ shown'[v].user # Nobody
                            /\ \A u \in Windows \ {v} :
                                  shown'[u].signedIn => where[u] # where[v]
                      /\ shown'[v].signedOut =>
                            where[v].query = "state" /\ where[v].id \in ended
                      /\ ~(shown'[v].signedIn /\ shown'[v].signedOut)
    BY <1>1 DEF ShownIsTrue, requests
  <2>2. CASE v = w
    BY <1>1, <1>2, <1>3, <1>4, <1>5, <2>1, <2>2 DEF Same
  <2>3. CASE v # w
    BY <1>1, <1>2, <1>3, <2>1, <2>3 DEF CInv, ShownIsTrue, Same
  <2> QED
    BY <2>2, <2>3
<1> QED
  BY <1>7, <1>8, <1>9, <1>10, <1>11 DEF CInv

\* The steps that change neither a page nor a request: they show or redeem no
\* more than before.
LEMMA QuietKeeps ==
    ASSUME TypeOK, CInv,
           UNCHANGED <<issued, ended, requests, where, loaded, due>>,
           codes' \subseteq codes,
           \A v \in Windows :
               /\ exchange'[v] => exchange[v] /\ polls'[v] = polls[v]
               /\ shown'[v].signedIn = shown[v].signedIn
               /\ shown'[v].signedOut = shown[v].signedOut
               /\ shown'[v].user = shown[v].user
    PROVE  CInv'
<1>1. \A v \in Windows : (Taken(v)' => Taken(v)) /\ Outstanding(v)' = Outstanding(v)
  BY DEF Taken, Outstanding
<1>2. PagesComeFrom'
  BY DEF CInv, PagesComeFrom, requests
<1>3. ResponsesAreEarned'
  BY DEF CInv, ResponsesAreEarned, requests
<1>4. OutstandingOnce'
  BY <1>1 DEF CInv, OutstandingOnce, requests
<1>5. TakenOnce'
  BY <1>1 DEF CInv, TakenOnce, requests
<1>6. ShownIsTrue'
  BY DEF CInv, ShownIsTrue, requests
<1> QED
  BY <1>2, <1>3, <1>4, <1>5, <1>6 DEF CInv

\* A window that redeems a code has no call of updateServerState under way.
LEMMA PollingKeeps ==
    ASSUME TypeOK, CInv, NEW w \in Windows,
           \/ Poll(w) \/ Answer(w) \/ PollYes(w) \/ PollNo(w)
    PROVE  CInv'
<1>1. ~exchange[w]
  <2>1. exchange[w] => polls[w] = NoPolls
    BY DEF CInv, TakenOnce
  <2> QED
    BY <2>1 DEF Poll, Polling, Answer, PollYes, PollNo, NoPolls
<1>2. UNCHANGED <<provider, requests, page>>
  BY DEF Poll, Answer, PollYes, PollNo
<1>3. \A v \in Windows \ {w} : polls'[v] = polls[v]
  BY DEF Poll, Answer, PollYes, PollNo, TypeOK
<1>4. \A v \in Windows : /\ shown'[v].signedIn = shown[v].signedIn
                        /\ shown'[v].signedOut = shown[v].signedOut
                        /\ shown'[v].user = shown[v].user
  <2>1. shown \in [Windows -> Shown]
    BY DEF TypeOK
  <2>2. \/ shown' = shown
        \/ \E yes \in BOOLEAN : shown' = [shown EXCEPT ![w].serverUp = yes]
    BY DEF Poll, Answer, PollYes, PollNo
  <2> QED
    BY <2>1, <2>2
<1> QED
  BY <1>1, <1>2, <1>3, <1>4, QuietKeeps DEF provider, page

-----------------------------------------------------------------------------
(* The invariant. *)

\* The invariant holds when no request has been made.
LEMMA CInvInit == Init => CInv
<1> SUFFICES ASSUME Init PROVE CInv
  OBVIOUS
<1>1. \A w \in Windows : /\ loaded[w] /\ where[w] = Home /\ due[w] = {}
                        /\ ~exchange[w] /\ shown[w] = Blank
  BY DEF Init
<1>2. responses = {Home} /\ made = 0 /\ stored = {} /\ codes = {}
  BY DEF Init
<1>3. \A w \in Windows : Outstanding(w) = {}
  BY <1>1 DEF Outstanding
<1>4. \A w \in Windows : ~Taken(w) /\ ~shown[w].signedIn /\ ~shown[w].signedOut
  BY <1>1 DEF Taken, Blank
<1>5. PagesComeFrom
  BY <1>1, <1>2 DEF PagesComeFrom
<1>6. ResponsesAreEarned
  BY <1>2 DEF ResponsesAreEarned, Home
<1>7. OutstandingOnce
  BY <1>2, <1>3 DEF OutstandingOnce
<1>8. TakenOnce
  BY <1>1, <1>4 DEF TakenOnce
<1>9. ShownIsTrue
  BY <1>4 DEF ShownIsTrue
<1> QED
  BY <1>5, <1>6, <1>7, <1>8, <1>9 DEF CInv

\* Every step keeps the invariant.
LEMMA CInvStep ==
    ASSUME TypeOK, CInv, [Next]_vars
    PROVE  CInv'
<1>1. ASSUME NEW w \in Windows, Visit(w) PROVE CInv'
  <2>1. PICK location \in responses : Loaded(w, location)
    BY <1>1 DEF Visit
  <2>2. location \in Locations /\ responses' = responses \cup {location}
    BY <1>1 DEF Visit, TypeOK
  <2>3. UNCHANGED <<issued, ended, codes, made>>
    BY <1>1 DEF Visit, provider
  <2>4. ResponsesAreEarned'
    BY <2>2, <2>3 DEF CInv, ResponsesAreEarned
  <2>5. /\ codes \subseteq 1 .. made
        /\ \A v \in Windows : \A id \in Outstanding(v) :
              id \notin codes /\ location.id # id
    BY DEF CInv, OutstandingOnce
  <2> QED
    BY <2>1, <2>2, <2>3, <2>4, <2>5, LoadedKeeps
<1>2. ASSUME NEW w \in Windows, ExchangeFails(w) PROVE CInv'
  <2>1. \A v \in Windows : exchange'[v] => v # w /\ exchange[v] /\ polls'[v] = polls[v]
    BY <1>2 DEF ExchangeFails, TypeOK
  <2>2. UNCHANGED <<issued, ended, requests, where, loaded, due, shown>>
        /\ codes' \subseteq codes
    BY <1>2 DEF ExchangeFails
  <2> QED
    BY <2>1, <2>2, QuietKeeps
<1>3. ASSUME NEW w \in Windows, NEW user \in Users, SignedIn(w, user) PROVE CInv'
  <2>1. where[w].id \in Ids
    BY <1>3, AtProvider DEF CInv, SignedIn
  <2>2. issued'[where[w].id] = user /\ user # Nobody
    BY <1>3, <2>1, ClientAssumption DEF SignedIn, TypeOK
  <2>3. \A id \in Ids : id # where[w].id => issued'[id] = issued[id]
    BY <1>3 DEF SignedIn, TypeOK
  <2> QED
    BY <1>3, <2>2, <2>3, SentBackKeeps DEF SignedIn
<1>4. ASSUME NEW w \in Windows, Refused(w) PROVE CInv'
  BY <1>4, SentBackKeeps DEF Refused
<1>5. ASSUME NEW w \in Windows, SignedOut(w) PROVE CInv'
  BY <1>5, SentBackKeeps DEF SignedOut
<1>6. CASE Fall \/ Rise \/ UNCHANGED vars
  <2>1. /\ UNCHANGED <<issued, ended, requests, where, loaded, due, exchange, polls, shown>>
        /\ codes' \subseteq codes
    BY <1>6 DEF Fall, Rise, vars, provider, page
  <2> QED
    BY <2>1, QuietKeeps
<1> QED
  BY <1>1, <1>2, <1>3, <1>4, <1>5, <1>6, ExchangedKeeps, AskKeeps, RedirectKeeps,
     PollingKeeps DEF Next, Window, Login, Logout, Purposes

\* Types and invariant hold in every state.
LEMMA Invariant == Spec => [](TypeOK /\ CInv)
<1>1. Init => TypeOK /\ CInv
  BY TypeInit, CInvInit
<1>2. TypeOK /\ CInv /\ [Next]_vars => (TypeOK /\ CInv)'
  BY TypeStep, CInvStep DEF CInv
<1> QED
  BY <1>1, <1>2, PTL DEF Spec

\* Every variable keeps its type, and no window has more calls under way than the
\* bound: a call is made only below it, or when none is left of the ones before.
THEOREM TypeCorrect == Spec => []TypeOK
  BY Invariant, PTL

\* A window shows a user as signed in only by the one response to one request of
\* this browser, whose code and stored request are used up and that no other
\* window used; and as signed out only by the response to a request for which the
\* provider ended the session (ClientConnector.componentDidMount).
THEOREM ShownStaysTrue == Spec => []ShownIsTrue
<1>1. CInv => ShownIsTrue
  BY DEF CInv
<1> QED
  BY <1>1, Invariant, PTL

=============================================================================
