----------------------------- MODULE CasServer -----------------------------
(***************************************************************************)
(* The boot of a CertAssert instance and the life of its two listeners:    *)
(* init mounts the middleware and waits for the OIDC provider, which mounts *)
(* the rest and starts the server; close stops listening, destroys the     *)
(* connections if it is forced, and resolves two seconds after both        *)
(* listeners have drained.  A server that was closed may be started again: *)
(* each start makes a new pair of listeners, a generation, while the sets  *)
(* of connections are shared by all of them.                               *)
(***************************************************************************)
EXTENDS Naturals, Sequences

CONSTANTS
    Conns,              \* connections, from either kind of client
    MaxStarts,          \* bound on starts of the server
    MaxCloses           \* bound on calls of close

ASSUME ServerAssumption == MaxStarts \in Nat /\ MaxCloses \in Nat

Kinds == {"secure", "insecure"}

VARIABLES
    config,             \* which of the two optional fields the owner defines
    stage,              \* of CertAssert
    middleware,         \* what the app has mounted, in order
    generation,         \* of the current listeners; 0 are the constructor's
    listening,
    conn,               \* per connection: its state, listener and generation
    openConnections,    \* per kind: the set of that kind's sockets
    calls               \* the promises that close has returned

bootVars == <<config, stage, middleware>>
listenVars == <<generation, listening>>
connVars == <<conn, openConnections>>
serverVars == <<listenVars, connVars, calls>>
vars == <<bootVars, serverVars>>

Free == [state |-> "free", kind |-> "secure", generation |-> 0]
ConnRecords ==
    [state : {"free", "open", "destroyed"}, kind : Kinds,
     generation : 0 .. MaxStarts]
Calls ==
    [generation : 0 .. MaxStarts, running : BOOLEAN, force : BOOLEAN,
     drained : SUBSET Kinds,
     outcome : {"pending", "timer", "resolved", "rejected"}]
Layers == {"common", "adapt", "verify", "api", "static", "interactions",
           "oidc", "index"}

TypeOK ==
    /\ config \in [interactionPaths : BOOLEAN, transparentFlows : BOOLEAN]
    /\ stage \in {"new", "constructed", "booting", "up", "failed", "exited"}
    /\ middleware \in Seq(Layers)
    /\ generation \in 0 .. MaxStarts
    /\ listening \in BOOLEAN
    /\ conn \in [Conns -> ConnRecords]
    /\ openConnections \in [Kinds -> SUBSET Conns]
    /\ calls \in Seq(Calls) /\ Len(calls) <= MaxCloses

Init ==
    /\ config \in [interactionPaths : BOOLEAN, transparentFlows : BOOLEAN]
    /\ stage = "new"
    /\ middleware = <<>>
    /\ generation = 0
    /\ listening = FALSE
    /\ conn = [c \in Conns |-> Free]
    /\ openConnections = [k \in Kinds |-> {}]
    /\ calls = <<>>

----------------------------------------------------------------------------
(* The boot of CertAssert. *)

VerifyConfig == ~(config.transparentFlows /\ config.interactionPaths)

Construct ==
    /\ stage = "new"
    /\ stage' = IF VerifyConfig THEN "constructed" ELSE "exited"
    /\ UNCHANGED <<config, middleware, serverVars>>

\* A fault of IfDefaultPaths: something is mounted in any case.
IfDefaultPathsElse(layer) ==
    IF config.interactionPaths THEN <<"undefined">> ELSE <<layer>>
IfDefaultPaths(layer) == IF config.interactionPaths THEN <<>> ELSE <<layer>>

\* A fault of InitApp: the chain is checked behind the API.
InitAppLate ==
    /\ stage = "constructed"
    /\ stage' = "booting"
    /\ middleware' = <<"common", "adapt", "api", "verify">>
                     \o IfDefaultPaths("static") \o <<"interactions">>
    /\ UNCHANGED <<config, serverVars>>

\* CertAssert.init up to the promise of the provider.
InitApp ==
    /\ stage = "constructed"
    /\ stage' = "booting"
    /\ middleware' = <<"common", "adapt", "verify", "api">>
                     \o IfDefaultPaths("static") \o <<"interactions">>
    /\ UNCHANGED <<config, serverVars>>

\* A file of an accepted CA is missing, when they are read for the check of the
\* chain: readFileSync throws out of init, half-way through the middleware.
InitAppThrows ==
    /\ stage = "constructed"
    /\ stage' = "failed"
    /\ middleware' = <<"common", "adapt">>
    /\ UNCHANGED <<config, serverVars>>

\* Both listeners are replaced and bound to their ports.
Listen ==
    /\ generation < MaxStarts
    /\ generation' = generation + 1
    /\ listening' = TRUE
    /\ UNCHANGED <<connVars, calls>>

\* The provider is ready: the rest is mounted, and the server starts.
ProviderReady ==
    /\ stage = "booting"
    /\ stage' = "up"
    /\ middleware' = middleware \o <<"oidc">> \o IfDefaultPaths("index")
    /\ Listen
    /\ UNCHANGED config

\* The provider rejects its configuration or a file of the server cannot be
\* read: nobody catches the rejection, and nothing listens.
BootFails ==
    /\ stage = "booting"
    /\ stage' = "failed"
    /\ \/ UNCHANGED middleware
       \/ middleware' = middleware \o <<"oidc">> \o IfDefaultPaths("index")
    /\ UNCHANGED <<config, serverVars>>

\* A port is taken: the listener's error event has no handler, and the process
\* ends with everything that is connected.
PortTaken ==
    /\ stage = "booting" \/ (stage = "up" /\ ~listening)
    /\ stage' = "exited"
    /\ conn' = [c \in Conns |-> Free]
    /\ openConnections' = [k \in Kinds |-> {}]
    /\ UNCHANGED <<config, middleware, listenVars, calls>>

\* CasServer.init again, by its owner, after a close.
Restart ==
    /\ stage = "up" /\ ~listening
    /\ Listen
    /\ UNCHANGED bootVars

----------------------------------------------------------------------------
(* Connections. *)

Accept(c, kind) ==
    /\ listening
    /\ conn[c].state = "free"
    /\ conn' = [conn EXCEPT ![c] =
          [state |-> "open", kind |-> kind, generation |-> generation]]
    /\ openConnections' = [openConnections EXCEPT ![kind] = @ \cup {c}]
    /\ UNCHANGED <<bootVars, listenVars, calls>>

\* The client ends the connection, or an idle one runs into a timeout.
Hangup(c) ==
    /\ conn[c].state = "open"
    /\ conn' = [conn EXCEPT ![c].state = "destroyed"]
    /\ UNCHANGED <<bootVars, listenVars, openConnections, calls>>

\* The close event of a socket.
SocketClosed(c) ==
    /\ conn[c].state = "destroyed"
    /\ conn' = [conn EXCEPT ![c] = Free]
    /\ openConnections' =
          [openConnections EXCEPT ![conn[c].kind] = @ \ {c}]
    /\ UNCHANGED <<bootVars, listenVars, calls>>

----------------------------------------------------------------------------
(* close. *)

\* Faults of Destroyed: only the secure connections; or only the ones of the
\* current listeners.
DestroyedSecure(c) == c \in openConnections["secure"]
DestroyedCurrent(c) ==
    /\ c \in openConnections["secure"] \cup openConnections["insecure"]
    /\ conn[c].generation = generation

\* What a forced close destroys.
Destroyed(c) ==
    c \in openConnections["secure"] \cup openConnections["insecure"]

Close(force) ==
    /\ Len(calls) < MaxCloses
    /\ stage \notin {"new", "exited"}
    /\ IF force
       THEN /\ conn' = [c \in Conns |->
                 IF Destroyed(c) THEN [conn[c] EXCEPT !.state = "destroyed"]
                                 ELSE conn[c]]
            /\ openConnections' = [k \in Kinds |-> {}]
       ELSE UNCHANGED connVars
    /\ listening' = FALSE
    /\ calls' = Append(calls,
          [generation |-> generation, running |-> listening, force |-> force,
           drained |-> {}, outcome |-> "pending"])
    /\ UNCHANGED <<bootVars, generation>>

\* A fault of Settled: the first listener that has drained settles the call.
SettledByFirst(call, kind) ==
    [call EXCEPT !.drained = @ \cup {kind},
                 !.outcome = IF call.running THEN "timer" ELSE "rejected"]

\* Promise.all over the two listeners; the callback of one that was not
\* running gets an error.
Settled(call, kind) ==
    [call EXCEPT
        !.drained = @ \cup {kind},
        !.outcome = IF @ # "pending" THEN @
                    ELSE IF ~call.running THEN "rejected"
                    ELSE IF call.drained \cup {kind} = Kinds THEN "timer"
                    ELSE @]

\* The close event of a listener: it has stopped and has no connection left.
\* Every callback that waits for it is run.
Drained(g, kind) ==
    /\ stage # "exited"
    /\ ~(listening /\ g = generation)
    /\ \A c \in Conns :
          conn[c].state = "open" => <<conn[c].kind, conn[c].generation>> # <<kind, g>>
    /\ \E i \in 1 .. Len(calls) :
          calls[i].generation = g /\ kind \notin calls[i].drained
    /\ calls' = [i \in 1 .. Len(calls) |->
          IF calls[i].generation = g THEN Settled(calls[i], kind) ELSE calls[i]]
    /\ UNCHANGED <<bootVars, listenVars, connVars>>

\* The two seconds are over.
Timeout(i) ==
    /\ stage # "exited"
    /\ calls[i].outcome = "timer"
    /\ calls' = [calls EXCEPT ![i].outcome = "resolved"]
    /\ UNCHANGED <<bootVars, listenVars, connVars>>

----------------------------------------------------------------------------
Next ==
    \/ Construct \/ InitApp \/ InitAppThrows \/ ProviderReady \/ BootFails
    \/ PortTaken \/ Restart
    \/ \E c \in Conns :
          \/ \E kind \in Kinds : Accept(c, kind)
          \/ Hangup(c)
          \/ SocketClosed(c)
    \/ \E force \in BOOLEAN : Close(force)
    \/ \E g \in 0 .. MaxStarts, kind \in Kinds : Drained(g, kind)
    \/ \E i \in 1 .. Len(calls) : Timeout(i)

Spec == Init /\ [][Next]_vars

\* The event loop delivers events and timers; clients need do nothing.
Fairness ==
    /\ \A c \in Conns : WF_vars(SocketClosed(c))
    /\ \A g \in 0 .. MaxStarts, kind \in Kinds : WF_vars(Drained(g, kind))
    /\ \A i \in 1 .. MaxCloses : WF_vars(i \in 1 .. Len(calls) /\ Timeout(i))
FairSpec == Spec /\ Fairness

----------------------------------------------------------------------------
(* Properties *)

\* No request is served before the app is whole: whoever is connected finds
\* every endpoint mounted behind the adaptation and the check of the chain, in
\* this order, and the page that catches all other paths behind them all
\* ("Needs to be configured lastly").
Before(a, b) ==
    \E i, j \in 1 .. Len(middleware) :
        i < j /\ middleware[i] = a /\ middleware[j] = b
ServesWhole ==
    (\E c \in Conns : conn[c].state = "open") =>
        /\ \A endpoint \in {"api", "interactions", "oidc"} :
              Before("adapt", "verify") /\ Before("verify", endpoint)
        /\ ~config.interactionPaths =>
              /\ Before("static", "interactions")
              /\ \A layer \in Layers \ {"index"} : ~Before("index", layer)
              /\ Before("oidc", "index")

\* The sets of connections know every socket that is open, whichever start of
\* the server accepted it and however many closes are under way: a forced close
\* destroys all there are.
OpenIsTracked ==
    \A c \in Conns :
        conn[c].state = "open" => c \in openConnections[conn[c].kind]

\* A promise of close that resolves tells the truth: the listeners it was
\* called on have stopped, and none of their connections is open, of either
\* kind, even if the server has been started again meanwhile.
ResolvedIsClosed ==
    \A i \in 1 .. Len(calls) : calls[i].outcome \in {"timer", "resolved"} =>
        /\ ~(listening /\ generation = calls[i].generation)
        /\ \A c \in Conns :
              conn[c].state = "open" => conn[c].generation # calls[i].generation

\* What a promise of close has come to for whoever waits for it.
StateOf(call) ==
    CASE call.outcome \in {"pending", "timer"} -> "pending"
      [] call.outcome = "resolved"             -> "kept"
      [] call.outcome = "rejected"             -> "broken"

Promises ==
    [i \in 1 .. Len(calls) |->
        [of |-> calls[i].generation, running |-> calls[i].running,
         state |-> StateOf(calls[i])]]

\* The start that serves a connection, if any.
Served ==
    [c \in Conns |->
        IF conn[c].state = "open" THEN {conn[c].generation} ELSE {}]

Contract ==
    INSTANCE ServerContract WITH
        starts <- generation, running <- listening,
        served <- Served, promises <- Promises

\* The boot, the two listeners, the sets of sockets and the counting of close
\* events keep what their owner may expect: a forced close leaves no connection
\* of any start, of either kind, and a promise resolves only when the start it
\* was made of is over, and is rejected only if it was made of nothing.
ImplementsContract == Contract!Spec

\* A forced close settles whatever the clients do: none of them can keep it
\* waiting by holding a connection.
ForcedCloseSettles ==
    \A i \in 1 .. MaxCloses :
        (i <= Len(calls) /\ calls[i].force) ~>
            \/ i <= Len(calls) /\ calls[i].outcome \in {"resolved", "rejected"}
            \/ stage = "exited"

=============================================================================
