-------------------------- MODULE CasServerProofs --------------------------
(***************************************************************************)
(* The safety of the boot and of close, for any number of connections,     *)
(* starts and calls of close.                                              *)
(***************************************************************************)
EXTENDS CasServer, TLAPS, SequenceTheorems

\* What the app has mounted before the provider is ready, and after.
Booted == <<"common", "adapt", "verify", "api">> \o IfDefaultPaths("static")
          \o <<"interactions">>
Whole == Booted \o <<"oidc">> \o IfDefaultPaths("index")

\* Layers are mounted in the order of the boot, and who listens has them all.
BootOrder ==
    /\ stage = "booting" => middleware = Booted
    /\ stage = "up" => middleware = Whole
    /\ listening => stage = "up"
    /\ \A c \in Conns : conn[c].state = "open" => stage = "up"

\* A promise waits for listeners that have stopped for good.
CallsAreOld ==
    \A i \in 1 .. Len(calls) :
        /\ calls[i].generation <= generation
        /\ listening => calls[i].generation # generation

\* A listener whose close event was counted has no open connection.
DrainedIsClosed ==
    \A i \in 1 .. Len(calls) : \A c \in Conns :
        conn[c].state = "open" /\ conn[c].generation = calls[i].generation =>
            conn[c].kind \notin calls[i].drained

\* A promise resolves after the close events of both listeners.
SettledIsDrained ==
    \A i \in 1 .. Len(calls) :
        calls[i].outcome \in {"timer", "resolved"} => calls[i].drained = Kinds

IInv ==
    /\ TypeOK
    /\ OpenIsTracked
    /\ BootOrder
    /\ CallsAreOld
    /\ DrainedIsClosed
    /\ SettledIsDrained

----------------------------------------------------------------------------
(* Sequences of layers and of calls. *)

\* The layers up to the interactions, in their order.
LEMMA BootedLayers ==
    /\ Booted \in Seq(Layers \ {"index"})
    /\ Len(Booted) = IF config.interactionPaths THEN 5 ELSE 6
    /\ Booted[2] = "adapt" /\ Booted[3] = "verify" /\ Booted[4] = "api"
    /\ ~config.interactionPaths => Booted[5] = "static"
    /\ Booted[Len(Booted)] = "interactions"
<1> DEFINE Others == Layers \ {"index"}
           api == <<"common", "adapt", "verify", "api">>
           static == IfDefaultPaths("static")
           first == api \o static
<1>1. api \in Seq(Others) /\ <<"interactions">> \in Seq(Others)
  BY DEF Layers
<1>2. /\ api[2] = "adapt" /\ api[3] = "verify" /\ api[4] = "api" /\ Len(api) = 4
      /\ <<"interactions">>[1] = "interactions" /\ Len(<<"interactions">>) = 1
  OBVIOUS
<1>3. /\ static \in Seq(Others)
      /\ Len(static) = IF config.interactionPaths THEN 0 ELSE 1
      /\ ~config.interactionPaths => static[1] = "static"
  <2>1. CASE config.interactionPaths
    BY <2>1 DEF IfDefaultPaths
  <2>2. CASE ~config.interactionPaths
    <3>1. static = <<"static">>
      BY <2>2 DEF IfDefaultPaths
    <3>2. <<"static">> \in Seq(Others)
      BY DEF Layers
    <3> QED
      BY <2>2, <3>1, <3>2
  <2> QED
    BY <2>1, <2>2
<1>4. Booted = first \o <<"interactions">>
  BY DEF Booted
<1> HIDE DEF api, static, Others
<1>5. /\ first \in Seq(Others)
      /\ Len(first) = Len(api) + Len(static)
      /\ \A i \in 1 .. Len(api) + Len(static) :
            first[i] = IF i <= Len(api) THEN api[i] ELSE static[i - Len(api)]
  BY <1>1, <1>3, ConcatProperties
<1>6. /\ first[2] = "adapt" /\ first[3] = "verify" /\ first[4] = "api"
      /\ ~config.interactionPaths => first[5] = "static"
      /\ Len(first) = IF config.interactionPaths THEN 4 ELSE 5
  BY <1>2, <1>3, <1>5
<1> HIDE DEF first
<1>7. /\ Booted \in Seq(Others)
      /\ Len(Booted) = Len(first) + 1
      /\ \A i \in 1 .. Len(first) + 1 :
            Booted[i] = IF i <= Len(first) THEN first[i]
                        ELSE <<"interactions">>[i - Len(first)]
  BY <1>1, <1>2, <1>4, <1>5, ConcatProperties
<1>8. Booted[Len(first) + 1] = "interactions"
  BY <1>2, <1>6, <1>7
<1> QED
  BY <1>6, <1>7, <1>8 DEF Others

\* Behind them the provider, and behind it the page that catches all paths.
LEMMA WholeLayers ==
    /\ Whole \in Seq(Layers)
    /\ Len(Whole) = IF config.interactionPaths THEN 6 ELSE 8
    /\ Whole[2] = "adapt" /\ Whole[3] = "verify" /\ Whole[4] = "api"
    /\ config.interactionPaths => Whole[5] = "interactions" /\ Whole[6] = "oidc"
    /\ ~config.interactionPaths =>
          /\ Whole[5] = "static" /\ Whole[6] = "interactions"
          /\ Whole[7] = "oidc" /\ Whole[8] = "index"
          /\ \A i \in 1 .. 7 : Whole[i] # "index"
<1> DEFINE Others == Layers \ {"index"}
           index == IfDefaultPaths("index")
           first == Booted \o <<"oidc">>
<1>1. <<"oidc">> \in Seq(Others) /\ <<"oidc">>[1] = "oidc" /\ Len(<<"oidc">>) = 1
  BY DEF Layers
<1>2. /\ index \in Seq(Layers)
      /\ Len(index) = IF config.interactionPaths THEN 0 ELSE 1
      /\ ~config.interactionPaths => index[1] = "index"
  <2>1. CASE config.interactionPaths
    BY <2>1 DEF IfDefaultPaths
  <2>2. CASE ~config.interactionPaths
    <3>1. index = <<"index">>
      BY <2>2 DEF IfDefaultPaths
    <3>2. <<"index">> \in Seq(Layers)
      BY DEF Layers
    <3>3. Len(<<"index">>) = 1 /\ <<"index">>[1] = "index"
      OBVIOUS
    <3> HIDE DEF index
    <3> QED
      BY <2>2, <3>1, <3>2, <3>3
  <2> QED
    BY <2>1, <2>2
<1>3. Whole = first \o index
  BY DEF Whole
<1> HIDE DEF index
<1>4. /\ first \in Seq(Others)
      /\ Len(first) = Len(Booted) + 1
      /\ \A i \in 1 .. Len(Booted) + 1 :
            first[i] = IF i <= Len(Booted) THEN Booted[i]
                       ELSE <<"oidc">>[i - Len(Booted)]
  BY <1>1, BootedLayers, ConcatProperties
<1> HIDE DEF first
<1>5. /\ Len(first) = IF config.interactionPaths THEN 6 ELSE 7
      /\ first[2] = "adapt" /\ first[3] = "verify" /\ first[4] = "api"
      /\ config.interactionPaths => first[5] = "interactions" /\ first[6] = "oidc"
      /\ ~config.interactionPaths =>
            first[5] = "static" /\ first[6] = "interactions" /\ first[7] = "oidc"
  BY <1>1, <1>4, BootedLayers
<1>6. \A i \in 1 .. Len(first) : first[i] # "index"
  BY <1>4, ElementOfSeq DEF Others
<1>7. first \in Seq(Layers)
  BY <1>4, SeqMonotonic, Others \subseteq Layers
<1>8. /\ Whole \in Seq(Layers)
      /\ Len(Whole) = Len(first) + Len(index)
      /\ \A i \in 1 .. Len(first) + Len(index) :
            Whole[i] = IF i <= Len(first) THEN first[i] ELSE index[i - Len(first)]
  BY <1>2, <1>3, <1>7, ConcatProperties
<1> QED
  BY <1>2, <1>5, <1>6, <1>8

\* A settled call is a call.
LEMMA SettledIsCall ==
    ASSUME NEW call \in Calls, NEW kind \in Kinds
    PROVE  /\ Settled(call, kind) \in Calls
           /\ Settled(call, kind).generation = call.generation
           /\ Settled(call, kind).drained = call.drained \cup {kind}
           /\ Settled(call, kind).outcome \in {"timer", "resolved"} =>
                 \/ call.outcome \in {"timer", "resolved"}
                 \/ call.drained \cup {kind} = Kinds
BY DEF Settled, Calls, Kinds

\* The layers behind the provider are layers.
LEMMA ProviderLayers ==
    ASSUME NEW m \in Seq(Layers)
    PROVE  m \o <<"oidc">> \o IfDefaultPaths("index") \in Seq(Layers)
<1>1. <<"oidc">> \in Seq(Layers)
  BY DEF Layers
<1>2. m \o <<"oidc">> \in Seq(Layers)
  BY <1>1, ConcatProperties
<1>3. IfDefaultPaths("index") \in Seq(Layers)
  <2>1. <<"index">> \in Seq(Layers)
    BY DEF Layers
  <2> QED
    BY <2>1, EmptySeq DEF IfDefaultPaths
<1> QED
  BY <1>2, <1>3, ConcatProperties

----------------------------------------------------------------------------
(* What the steps keep. *)

\* The boot, the listeners, the sockets and the promises keep their types.
THEOREM TypeInvariant == Spec => []TypeOK
<1> USE ServerAssumption
<1>1. ASSUME Init PROVE TypeOK
  <2> USE <1>1 DEF Init
  <2>1. Free \in ConnRecords
    BY DEF Free, ConnRecords, Kinds
  <2>2. <<>> \in Seq(Layers) /\ <<>> \in Seq(Calls) /\ Len(<<>>) = 0
    BY EmptySeq
  <2>3. conn \in [Conns -> ConnRecords]
    BY <2>1
  <2>4. middleware \in Seq(Layers) /\ calls \in Seq(Calls)
    BY <2>2
  <2>5. Len(calls) <= MaxCloses /\ generation \in 0 .. MaxStarts
    BY <2>2
  <2> QED
    BY <2>3, <2>4, <2>5 DEF TypeOK
<1>2. TypeOK /\ [Next]_vars => TypeOK'
  <2> SUFFICES ASSUME TypeOK, [Next]_vars PROVE TypeOK'
    OBVIOUS
  <2> USE DEF TypeOK
  <2>1. CASE UNCHANGED vars
    BY <2>1 DEF vars, bootVars, serverVars, listenVars, connVars
  <2>2. CASE Construct
    BY <2>2 DEF Construct, serverVars, listenVars, connVars
  <2>3. CASE InitApp
    <3>1. middleware' \in Seq(Layers)
      BY <2>3, BootedLayers, SeqMonotonic, Layers \ {"index"} \subseteq Layers
         DEF InitApp, Booted
    <3> QED
      BY <2>3, <3>1 DEF InitApp, serverVars, listenVars, connVars
  <2>4. CASE ProviderReady
    <3>1. middleware' \in Seq(Layers)
      BY <2>4, ProviderLayers DEF ProviderReady
    <3> QED
      BY <2>4, <3>1 DEF ProviderReady, Listen, connVars
  <2>5. CASE BootFails
    <3>1. middleware' \in Seq(Layers)
      BY <2>5, ProviderLayers DEF BootFails
    <3> QED
      BY <2>5, <3>1 DEF BootFails, serverVars, listenVars, connVars
  <2>6. CASE PortTaken
    BY <2>6 DEF PortTaken, listenVars, Free, ConnRecords, Kinds
  <2>7. CASE Restart
    BY <2>7 DEF Restart, Listen, connVars, bootVars
  <2>8. ASSUME NEW c \in Conns, NEW kind \in Kinds, Accept(c, kind)
        PROVE  TypeOK'
    <3>1. [state |-> "open", kind |-> kind, generation |-> generation]
             \in ConnRecords
      BY DEF ConnRecords
    <3> QED
      BY <2>8, <3>1 DEF Accept, bootVars, listenVars
  <2>9. ASSUME NEW c \in Conns, Hangup(c)
        PROVE  TypeOK'
    <3>1. conn' \in [Conns -> ConnRecords]
      BY <2>9 DEF Hangup, ConnRecords
    <3> QED
      BY <2>9, <3>1 DEF Hangup, bootVars, listenVars
  <2>10. ASSUME NEW c \in Conns, SocketClosed(c)
         PROVE  TypeOK'
    <3>1. conn' \in [Conns -> ConnRecords]
      BY <2>10 DEF SocketClosed, ConnRecords, Free, Kinds
    <3>2. openConnections' \in [Kinds -> SUBSET Conns]
      BY <2>10 DEF SocketClosed, ConnRecords
    <3> QED
      BY <2>10, <3>1, <3>2 DEF SocketClosed, bootVars, listenVars
  <2>11. ASSUME NEW force \in BOOLEAN, Close(force)
         PROVE  TypeOK'
    <3>1. conn' \in [Conns -> ConnRecords]
      <4>1. \A c \in Conns : [conn[c] EXCEPT !.state = "destroyed"] \in ConnRecords
        BY DEF ConnRecords
      <4> QED
        BY <2>11, <4>1 DEF Close, connVars
    <3>2. openConnections' \in [Kinds -> SUBSET Conns]
      BY <2>11 DEF Close, connVars
    <3>3. calls' \in Seq(Calls) /\ Len(calls') <= MaxCloses
      <4>1. [generation |-> generation, running |-> listening, force |-> force,
             drained |-> {}, outcome |-> "pending"] \in Calls
        BY DEF Calls
      <4> QED
        BY <2>11, <4>1 DEF Close
    <3> QED
      BY <2>11, <3>1, <3>2, <3>3 DEF Close, bootVars
  <2>12. ASSUME NEW g \in 0 .. MaxStarts, NEW kind \in Kinds, Drained(g, kind)
         PROVE  TypeOK'
    <3>1. \A i \in 1 .. Len(calls) :
             (IF calls[i].generation = g THEN Settled(calls[i], kind)
              ELSE calls[i]) \in Calls
      BY ElementOfSeq, SettledIsCall
    <3>2. Len(calls) \in Nat
      BY LenProperties
    <3>3. calls' \in [1 .. Len(calls) -> Calls]
      BY <2>12, <3>1 DEF Drained
    <3>4. calls' \in Seq(Calls) /\ Len(calls') = Len(calls)
      BY <3>2, <3>3
    <3> QED
      BY <2>12, <3>4 DEF Drained, bootVars, listenVars, connVars
  <2>13. ASSUME NEW i \in 1 .. Len(calls), Timeout(i)
         PROVE  TypeOK'
    <3>1. [calls[i] EXCEPT !.outcome = "resolved"] \in Calls
      <4>1. calls[i] \in Calls
        BY ElementOfSeq
      <4> QED
        BY <4>1 DEF Calls
    <3>2. calls' = [calls EXCEPT ![i] = [calls[i] EXCEPT !.outcome = "resolved"]]
      BY <2>13 DEF Timeout
    <3>3. calls' \in Seq(Calls) /\ Len(calls') = Len(calls)
      BY <3>1, <3>2, ExceptSeq
    <3> QED
      BY <2>13, <3>3 DEF Timeout, bootVars, listenVars, connVars
  <2>14. CASE InitAppThrows
    <3>1. middleware' \in Seq(Layers)
      BY <2>14 DEF InitAppThrows, Layers
    <3> QED
      BY <2>14, <3>1 DEF InitAppThrows, serverVars, listenVars, connVars
  <2> QED
    BY <2>1, <2>2, <2>3, <2>4, <2>5, <2>6, <2>7, <2>8, <2>9, <2>10, <2>11,
       <2>12, <2>13, <2>14 DEF Next
<1> QED
  BY <1>1, <1>2, PTL DEF Spec

\* The owner's configuration does not change, and neither does what it makes of
\* the layers.
LEMMA LayersStay ==
    ASSUME UNCHANGED config
    PROVE  Booted' = Booted /\ Whole' = Whole
BY DEF Booted, Whole, IfDefaultPaths

\* What a promise is, and that generations are numbers.
LEMMA CallIsTyped ==
    ASSUME TypeOK, NEW i \in 1 .. Len(calls)
    PROVE  calls[i] \in Calls /\ calls[i].generation \in Nat /\ generation \in Nat
<1>1. calls[i] \in Calls
  BY ElementOfSeq DEF TypeOK
<1> QED
  BY <1>1, ServerAssumption DEF TypeOK, Calls

\* Steps of the boot touch neither sockets nor promises, and nothing listens
\* before the last of them.
LEMMA BootSteps ==
    ASSUME IInv, TypeOK',
           Construct \/ InitApp \/ InitAppThrows \/ ProviderReady \/ BootFails
    PROVE  IInv'
<1> USE DEF IInv
<1>1. /\ UNCHANGED <<conn, openConnections, calls>> /\ UNCHANGED config
      /\ ~listening /\ \A c \in Conns : conn[c].state # "open"
      /\ generation' = generation \/ generation' = generation + 1
  BY DEF Construct, InitApp, InitAppThrows, ProviderReady, BootFails, Listen,
         serverVars, listenVars, connVars, BootOrder
<1>2. OpenIsTracked' /\ SettledIsDrained' /\ DrainedIsClosed'
  BY <1>1 DEF OpenIsTracked, SettledIsDrained, DrainedIsClosed
<1>3. CallsAreOld'
  <2> SUFFICES ASSUME NEW i \in 1 .. Len(calls)
               PROVE  /\ calls[i].generation <= generation'
                      /\ listening' => calls[i].generation # generation'
    BY <1>1 DEF CallsAreOld
  <2>1. calls[i].generation \in Nat /\ generation \in Nat
    BY CallIsTyped
  <2>2. calls[i].generation <= generation
    BY DEF CallsAreOld
  <2>3. \/ generation' = generation /\ ~listening'
        \/ generation' = generation + 1
    BY <1>1 DEF Construct, InitApp, InitAppThrows, ProviderReady, BootFails, Listen,
                serverVars, listenVars
  <2> QED
    BY <2>1, <2>2, <2>3
<1>4. BootOrder'
  <2>1. CASE Construct
    BY <1>1, <2>1 DEF Construct, BootOrder, serverVars, listenVars
  <2>2. CASE InitApp
    BY <1>1, <2>2, LayersStay DEF InitApp, BootOrder, Booted, serverVars, listenVars
  <2>3. CASE ProviderReady
    <3>1. middleware' = Whole /\ stage' = "up"
      BY <2>3 DEF ProviderReady, BootOrder, Whole
    <3> QED
      BY <1>1, <3>1, LayersStay DEF BootOrder
  <2>4. CASE InitAppThrows
    BY <1>1, <2>4 DEF InitAppThrows, BootOrder, serverVars, listenVars
  <2>5. CASE BootFails
    BY <1>1, <2>5 DEF BootFails, BootOrder, serverVars, listenVars
  <2> QED
    BY <2>1, <2>2, <2>3, <2>4, <2>5
<1> QED
  BY <1>2, <1>3, <1>4

\* When the process ends, its connections do; a start makes listeners that no
\* promise waits for.
LEMMA ProcessSteps ==
    ASSUME IInv, TypeOK', PortTaken \/ Restart
    PROVE  IInv'
<1> USE DEF IInv
<1>1. CASE PortTaken
  <2>1. \A c \in Conns : conn'[c].state # "open"
    BY <1>1 DEF PortTaken, Free
  <2>2. ~listening'
    BY <1>1 DEF PortTaken, BootOrder, listenVars
  <2>3. stage' = "exited" /\ UNCHANGED <<calls, generation>>
    BY <1>1 DEF PortTaken, listenVars
  <2> QED
    BY <2>1, <2>2, <2>3
       DEF OpenIsTracked, BootOrder, CallsAreOld, DrainedIsClosed, SettledIsDrained
<1>2. CASE Restart
  <2>1. /\ UNCHANGED <<conn, openConnections, calls, stage, middleware, config>>
        /\ stage = "up" /\ generation' = generation + 1
    BY <1>2 DEF Restart, Listen, connVars, bootVars
  <2>2. BootOrder'
    BY <2>1, LayersStay DEF BootOrder
  <2>3. CallsAreOld'
    <3> SUFFICES ASSUME NEW i \in 1 .. Len(calls)
                 PROVE  /\ calls[i].generation <= generation'
                        /\ calls[i].generation # generation'
      BY <2>1 DEF CallsAreOld
    <3>1. calls[i].generation \in Nat /\ generation \in Nat
      BY CallIsTyped
    <3>2. calls[i].generation <= generation
      BY DEF CallsAreOld
    <3> QED
      BY <2>1, <3>1, <3>2
  <2> QED
    BY <2>1, <2>2, <2>3 DEF OpenIsTracked, DrainedIsClosed, SettledIsDrained
<1> QED
  BY <1>1, <1>2

\* A connection belongs to the listeners that are open, so to none that a
\* promise waits for; one that ends is none of anyone's.
LEMMA ConnectionSteps ==
    ASSUME IInv, TypeOK', NEW c \in Conns,
           \/ \E kind \in Kinds : Accept(c, kind)
           \/ Hangup(c)
           \/ SocketClosed(c)
    PROVE  IInv'
<1> USE DEF IInv
<1>1. UNCHANGED <<config, stage, middleware, generation, listening, calls>>
  BY DEF Accept, Hangup, SocketClosed, bootVars, listenVars
<1>2. CallsAreOld' /\ SettledIsDrained'
  BY <1>1 DEF CallsAreOld, SettledIsDrained
<1>3. ASSUME NEW kind \in Kinds, Accept(c, kind)
      PROVE  OpenIsTracked' /\ BootOrder' /\ DrainedIsClosed'
  <2>1. /\ conn' = [conn EXCEPT ![c] =
              [state |-> "open", kind |-> kind, generation |-> generation]]
        /\ openConnections' = [openConnections EXCEPT ![kind] = @ \cup {c}]
        /\ listening
    BY <1>3 DEF Accept
  <2>2. \A d \in Conns : d # c => conn'[d] = conn[d]
    BY <2>1 DEF TypeOK
  <2>3. /\ conn'[c].state = "open" /\ conn'[c].kind = kind
        /\ conn'[c].generation = generation
    BY <2>1 DEF TypeOK
  <2>4. \A k \in Kinds : openConnections[k] \subseteq openConnections'[k]
    BY <2>1 DEF TypeOK
  <2>5. c \in openConnections'[kind]
    BY <2>1 DEF TypeOK
  <2>6. OpenIsTracked'
    <3> SUFFICES ASSUME NEW d \in Conns, conn'[d].state = "open"
                 PROVE  d \in openConnections'[conn'[d].kind]
      BY DEF OpenIsTracked
    <3>1. conn[d].kind \in Kinds
      BY DEF TypeOK, ConnRecords
    <3> QED
      BY <2>2, <2>3, <2>4, <2>5, <3>1 DEF OpenIsTracked
  <2>7. BootOrder'
    BY <1>1, <2>1, LayersStay DEF BootOrder
  <2>8. DrainedIsClosed'
    BY <1>1, <2>1, <2>2, <2>3 DEF DrainedIsClosed, CallsAreOld
  <2> QED
    BY <2>6, <2>7, <2>8
<1>4. ASSUME Hangup(c) \/ SocketClosed(c)
      PROVE  OpenIsTracked' /\ BootOrder' /\ DrainedIsClosed'
  <2>1. \A d \in Conns : conn'[d].state = "open" => d # c /\ conn'[d] = conn[d]
    BY <1>4 DEF Hangup, SocketClosed, Free, TypeOK, ConnRecords
  <2>2. \A d \in Conns, k \in Kinds :
           d # c /\ d \in openConnections[k] => d \in openConnections'[k]
    BY <1>4 DEF Hangup, SocketClosed, TypeOK
  <2>3. \A d \in Conns : conn[d].kind \in Kinds
    BY DEF TypeOK, ConnRecords
  <2>4. OpenIsTracked'
    BY <2>1, <2>2, <2>3 DEF OpenIsTracked
  <2>5. BootOrder'
    BY <1>1, <2>1, LayersStay DEF BootOrder
  <2>6. DrainedIsClosed'
    BY <1>1, <2>1 DEF DrainedIsClosed
  <2> QED
    BY <2>4, <2>5, <2>6
<1> QED
  BY <1>2, <1>3, <1>4

\* close stops the listeners, so the promise it adds waits for stopped ones; if
\* it is forced, no socket stays open, because the sets know all that are.
LEMMA CloseSteps ==
    ASSUME IInv, TypeOK', NEW force \in BOOLEAN, Close(force)
    PROVE  IInv'
<1> USE DEF IInv
<1> DEFINE call == [generation |-> generation, running |-> listening,
                    force |-> force, drained |-> {}, outcome |-> "pending"]
<1>1. /\ UNCHANGED <<config, stage, middleware, generation>> /\ ~listening'
      /\ calls' = Append(calls, call)
  BY DEF Close, bootVars
<1>2. /\ calls \in Seq(Calls) /\ Len(calls) \in Nat
      /\ Len(calls') = Len(calls) + 1 /\ calls'[Len(calls) + 1] = call
      /\ \A i \in 1 .. Len(calls) : calls'[i] = calls[i]
  BY <1>1 DEF TypeOK
<1>3. \A i \in 1 .. Len(calls') : i \in 1 .. Len(calls) \/ i = Len(calls) + 1
  BY <1>2
<1>4. \A c \in Conns : conn'[c].state = "open" => conn'[c] = conn[c]
  BY DEF Close, connVars, TypeOK, ConnRecords
<1>5. OpenIsTracked'
  <2>1. CASE force
    <3> SUFFICES ASSUME NEW c \in Conns PROVE conn'[c].state # "open"
      BY DEF OpenIsTracked
    <3>1. conn[c].state = "open" => Destroyed(c)
      BY DEF OpenIsTracked, Destroyed, Kinds, TypeOK, ConnRecords
    <3> QED
      BY <2>1, <3>1 DEF Close, TypeOK, ConnRecords
  <2>2. CASE ~force
    BY <2>2 DEF Close, connVars, OpenIsTracked
  <2> QED
    BY <2>1, <2>2
<1>6. BootOrder'
  BY <1>1, <1>4, LayersStay DEF BootOrder
<1>7. CallsAreOld'
  BY <1>1, <1>2, <1>3, ServerAssumption DEF CallsAreOld, TypeOK
<1>8. DrainedIsClosed'
  BY <1>2, <1>3, <1>4 DEF DrainedIsClosed
<1>9. SettledIsDrained'
  BY <1>2, <1>3 DEF SettledIsDrained
<1> QED
  BY <1>5, <1>6, <1>7, <1>8, <1>9

\* The close event of a listener is counted when it has no connection left, and
\* the last one of the two that a promise waits for settles it.
LEMMA SettlingSteps ==
    ASSUME IInv, TypeOK',
           \/ \E g \in 0 .. MaxStarts, kind \in Kinds : Drained(g, kind)
           \/ \E i \in 1 .. Len(calls) : Timeout(i)
    PROVE  IInv'
<1> USE DEF IInv
<1>1. UNCHANGED <<config, stage, middleware, generation, listening, conn,
                  openConnections>>
  BY DEF Drained, Timeout, bootVars, listenVars, connVars
<1>2. OpenIsTracked' /\ BootOrder'
  BY <1>1, LayersStay DEF OpenIsTracked, BootOrder
<1>3. ASSUME NEW g \in 0 .. MaxStarts, NEW kind \in Kinds, Drained(g, kind)
      PROVE  CallsAreOld' /\ DrainedIsClosed' /\ SettledIsDrained'
  <2>1. /\ calls' = [i \in 1 .. Len(calls) |->
              IF calls[i].generation = g THEN Settled(calls[i], kind) ELSE calls[i]]
        /\ \A c \in Conns : conn[c].state = "open" =>
              <<conn[c].kind, conn[c].generation>> # <<kind, g>>
    BY <1>3 DEF Drained
  <2>2. Len(calls) \in Nat /\ DOMAIN calls' = 1 .. Len(calls)
    BY <2>1, LenProperties DEF TypeOK
  <2>3. Len(calls') = Len(calls)
    BY <2>1, <2>2
  <2>4. ASSUME NEW i \in 1 .. Len(calls)
        PROVE  /\ calls'[i].generation = calls[i].generation
               /\ calls'[i].drained
                     = IF calls[i].generation = g THEN calls[i].drained \cup {kind}
                       ELSE calls[i].drained
               /\ calls'[i].outcome \in {"timer", "resolved"} =>
                     \/ calls[i].outcome \in {"timer", "resolved"}
                     \/ calls'[i].drained = Kinds
    BY <2>1, CallIsTyped, SettledIsCall
  <2>5. CallsAreOld'
    BY <1>1, <2>3, <2>4 DEF CallsAreOld
  <2>6. DrainedIsClosed'
    <3> SUFFICES ASSUME NEW i \in 1 .. Len(calls), NEW c \in Conns,
                        conn[c].state = "open",
                        conn[c].generation = calls[i].generation
                 PROVE  conn[c].kind \notin calls'[i].drained
      BY <1>1, <2>3, <2>4 DEF DrainedIsClosed
    <3>1. conn[c].kind \notin calls[i].drained
      BY DEF DrainedIsClosed
    <3>2. calls[i].generation = g => conn[c].kind # kind
      BY <2>1
    <3> QED
      BY <2>4, <3>1, <3>2
  <2>7. SettledIsDrained'
    <3> SUFFICES ASSUME NEW i \in 1 .. Len(calls),
                        calls'[i].outcome \in {"timer", "resolved"}
                 PROVE  calls'[i].drained = Kinds
      BY <2>3 DEF SettledIsDrained
    <3>1. CASE calls[i].outcome \in {"timer", "resolved"}
      BY <2>4, <3>1 DEF SettledIsDrained
    <3> QED
      BY <2>4, <3>1
  <2> QED
    BY <2>5, <2>6, <2>7
<1>4. ASSUME NEW j \in 1 .. Len(calls), Timeout(j)
      PROVE  CallsAreOld' /\ DrainedIsClosed' /\ SettledIsDrained'
  <2>1. /\ calls' = [calls EXCEPT ![j] = [calls[j] EXCEPT !.outcome = "resolved"]]
        /\ calls[j].outcome = "timer"
    BY <1>4 DEF Timeout
  <2>2. [calls[j] EXCEPT !.outcome = "resolved"] \in Calls
    BY CallIsTyped DEF Calls
  <2>3. /\ Len(calls') = Len(calls)
        /\ \A i \in 1 .. Len(calls) :
              calls'[i] = IF i = j THEN [calls[j] EXCEPT !.outcome = "resolved"]
                          ELSE calls[i]
    BY <2>1, <2>2, ExceptSeq DEF TypeOK
  <2>4. ASSUME NEW i \in 1 .. Len(calls)
        PROVE  /\ calls'[i].generation = calls[i].generation
               /\ calls'[i].drained = calls[i].drained
               /\ calls'[i].outcome \in {"timer", "resolved"} =>
                     calls[i].outcome \in {"timer", "resolved"}
    BY <2>1, <2>3, CallIsTyped DEF Calls
  <2> QED
    BY <1>1, <2>3, <2>4 DEF CallsAreOld, DrainedIsClosed, SettledIsDrained
<1> QED
  BY <1>2, <1>3, <1>4

----------------------------------------------------------------------------
(* The theorems. *)

\* The invariant is inductive.
LEMMA Invariance == Spec => []IInv
<1>1. Init => OpenIsTracked /\ BootOrder /\ CallsAreOld /\ DrainedIsClosed
              /\ SettledIsDrained
  BY DEF Init, Free, OpenIsTracked, BootOrder, CallsAreOld, DrainedIsClosed,
         SettledIsDrained
<1>2. TypeOK /\ TypeOK' /\ IInv /\ [Next]_vars => IInv'
  <2> SUFFICES ASSUME TypeOK', IInv, [Next]_vars PROVE IInv'
    BY DEF IInv
  <2>1. CASE UNCHANGED vars
    BY <2>1, LayersStay
       DEF vars, bootVars, serverVars, listenVars, connVars, IInv, OpenIsTracked,
           BootOrder, CallsAreOld, DrainedIsClosed, SettledIsDrained
  <2>2. ASSUME NEW c \in Conns,
               \/ \E kind \in Kinds : Accept(c, kind)
               \/ Hangup(c)
               \/ SocketClosed(c)
        PROVE  IInv'
    BY <2>2, ConnectionSteps
  <2>3. CASE \E force \in BOOLEAN : Close(force)
    BY <2>3, CloseSteps
  <2> QED
    BY <2>1, <2>2, <2>3, BootSteps, ProcessSteps, SettlingSteps DEF Next
<1> QED
  BY <1>1, <1>2, TypeInvariant, PTL DEF Spec, IInv

\* No request is served before the app is whole, whatever else the boot and the
\* owner do.
THEOREM WholeIsServed == Spec => []ServesWhole
<1>1. IInv => ServesWhole
  <2> SUFFICES ASSUME IInv, NEW c \in Conns, conn[c].state = "open"
               PROVE  /\ \A endpoint \in {"api", "interactions", "oidc"} :
                            Before("adapt", "verify") /\ Before("verify", endpoint)
                      /\ ~config.interactionPaths =>
                            /\ Before("static", "interactions")
                            /\ \A layer \in Layers \ {"index"} : ~Before("index", layer)
                            /\ Before("oidc", "index")
    BY DEF ServesWhole
  <2>1. middleware = Whole
    BY DEF IInv, BootOrder
  <2>2. ASSUME NEW a, NEW b, NEW i \in 1 .. Len(Whole), NEW j \in 1 .. Len(Whole),
               i < j, Whole[i] = a, Whole[j] = b
        PROVE  Before(a, b)
    BY <2>1, <2>2 DEF Before
  <2>3. CASE config.interactionPaths
    <3>1. Len(Whole) = 6
      BY <2>3, WholeLayers
    <3> QED
      BY <2>2, <2>3, <3>1, WholeLayers
  <2>4. CASE ~config.interactionPaths
    <3>1. Len(Whole) = 8
      BY <2>4, WholeLayers
    <3>2. ASSUME NEW layer \in Layers \ {"index"} PROVE ~Before("index", layer)
      BY <2>1, <2>4, <3>1, WholeLayers DEF Before
    <3> QED
      BY <2>2, <2>4, <3>1, <3>2, WholeLayers
  <2> QED
    BY <2>3, <2>4
<1> QED
  BY <1>1, Invariance, PTL

\* The server never loses an open socket.
THEOREM OpenStaysTracked == Spec => []OpenIsTracked
BY Invariance, PTL DEF IInv

\* A promise of close that resolves tells the truth.
THEOREM ResolvedTellsTruth == Spec => []ResolvedIsClosed
<1>1. IInv => ResolvedIsClosed
  <2> SUFFICES ASSUME IInv, NEW i \in 1 .. Len(calls),
                      calls[i].outcome \in {"timer", "resolved"}
               PROVE  /\ ~(listening /\ generation = calls[i].generation)
                      /\ \A c \in Conns : conn[c].state = "open" =>
                            conn[c].generation # calls[i].generation
    BY DEF ResolvedIsClosed
  <2>1. calls[i].drained = Kinds
    BY DEF IInv, SettledIsDrained
  <2>2. \A c \in Conns : conn[c].kind \in Kinds
    BY DEF IInv, TypeOK, ConnRecords
  <2> QED
    BY <2>1, <2>2 DEF IInv, CallsAreOld, DrainedIsClosed
<1> QED
  BY <1>1, Invariance, PTL

----------------------------------------------------------------------------
(* The contract. *)

\* Only promises made of a server that ran come to the timer.
TimedRan ==
    \A i \in 1 .. Len(calls) :
        calls[i].outcome \in {"timer", "resolved"} => calls[i].running

\* A settled call was made of the same server, and comes to the timer only if
\* that was running.
LEMMA SettledIs ==
    ASSUME NEW call \in Calls, NEW kind \in Kinds
    PROVE  /\ Settled(call, kind).generation = call.generation
           /\ Settled(call, kind).running = call.running
           /\ Settled(call, kind).outcome \in
                 {call.outcome, "timer", "rejected"}
           /\ call.outcome # "pending" =>
                 Settled(call, kind).outcome = call.outcome
           /\ call.outcome = "pending" =>
                 /\ Settled(call, kind).outcome # "resolved"
                 /\ Settled(call, kind).outcome = "timer" => call.running
                 /\ Settled(call, kind).outcome = "rejected" <=> ~call.running
BY DEF Settled, Calls, Kinds

\* What each promise has come to after a close event.
LEMMA DrainedCalls ==
    ASSUME TypeOK, NEW g, NEW kind \in Kinds, Drained(g, kind)
    PROVE  /\ Len(calls') = Len(calls)
           /\ \A i \in 1 .. Len(calls) :
                 calls'[i] = IF calls[i].generation = g THEN Settled(calls[i], kind)
                             ELSE calls[i]
<1>1. calls' = [i \in 1 .. Len(calls) |->
          IF calls[i].generation = g THEN Settled(calls[i], kind) ELSE calls[i]]
  BY DEF Drained
<1>2. Len(calls) \in Nat
  BY LenProperties DEF TypeOK
<1> QED
  BY <1>1, <1>2

\* And when its two seconds are over.
LEMMA TimeoutCalls ==
    ASSUME TypeOK, NEW j \in 1 .. Len(calls), Timeout(j)
    PROVE  /\ Len(calls') = Len(calls)
           /\ calls[j].outcome = "timer"
           /\ \A i \in 1 .. Len(calls) :
                 /\ i # j => calls'[i] = calls[i]
                 /\ calls'[j].generation = calls[j].generation
                 /\ calls'[j].running = calls[j].running
                 /\ calls'[j].outcome = "resolved"
<1>1. /\ calls' = [calls EXCEPT ![j] = [calls[j] EXCEPT !.outcome = "resolved"]]
      /\ calls[j].outcome = "timer"
  BY DEF Timeout
<1>2. calls[j] \in Calls
  BY CallIsTyped
<1>3. [calls[j] EXCEPT !.outcome = "resolved"] \in Calls
  BY <1>2 DEF Calls
<1>4. /\ Len(calls') = Len(calls)
      /\ \A i \in 1 .. Len(calls) :
            calls'[i] = IF i = j THEN [calls[j] EXCEPT !.outcome = "resolved"]
                        ELSE calls[i]
  BY <1>1, <1>3, ExceptSeq DEF TypeOK
<1> QED
  BY <1>1, <1>2, <1>4 DEF Calls

\* One more promise.
LEMMA CloseCalls ==
    ASSUME TypeOK, NEW force \in BOOLEAN, Close(force)
    PROVE  LET n == Len(calls)
           IN  /\ n \in Nat /\ Len(calls') = n + 1
               /\ \A i \in 1 .. n : calls'[i] = calls[i]
               /\ calls'[n + 1].generation = generation
               /\ calls'[n + 1].running = listening
               /\ calls'[n + 1].outcome = "pending"
BY DEF TypeOK, Close

\* The invariant of the outcomes.
LEMMA TimedStep ==
    ASSUME TypeOK, TimedRan, [Next]_vars
    PROVE  TimedRan'
<1>1. CASE UNCHANGED calls
  BY <1>1 DEF TimedRan
<1>2. ASSUME NEW force \in BOOLEAN, Close(force) PROVE TimedRan'
  <2>1. \A i \in 1 .. Len(calls') : i \in 1 .. Len(calls) \/ i = Len(calls) + 1
    BY <1>2, CloseCalls
  <2> QED
    BY <1>2, <2>1, CloseCalls DEF TimedRan
<1>3. ASSUME NEW g \in 0 .. MaxStarts, NEW kind \in Kinds, Drained(g, kind)
      PROVE  TimedRan'
  <2> SUFFICES ASSUME NEW i \in 1 .. Len(calls),
                      calls'[i].outcome \in {"timer", "resolved"}
               PROVE  calls'[i].running
    BY <1>3, DrainedCalls DEF TimedRan
  <2>1. calls'[i] = calls[i] \/ calls'[i] = Settled(calls[i], kind)
    BY <1>3, DrainedCalls
  <2>2. calls[i] \in Calls
    BY CallIsTyped
  <2> QED
    BY <2>1, <2>2, SettledIs DEF TimedRan
<1>4. ASSUME NEW j \in 1 .. Len(calls), Timeout(j) PROVE TimedRan'
  BY <1>4, TimeoutCalls DEF TimedRan
<1> QED
  BY <1>1, <1>2, <1>3, <1>4
     DEF Next, vars, bootVars, serverVars, listenVars, connVars, Construct,
         InitApp, InitAppThrows, ProviderReady, BootFails, PortTaken, Restart, Listen,
         Accept, Hangup, SocketClosed

\* The promises and the connections of the contract, as long as theirs stay.
LEMMA MapsStay ==
    /\ UNCHANGED calls => UNCHANGED Promises
    /\ UNCHANGED conn => UNCHANGED Served
BY DEF Promises, Served, StateOf

\* A promise of the contract.
LEMMA PromiseIs ==
    ASSUME TypeOK
    PROVE  /\ Promises \in Seq([of : Nat, running : BOOLEAN,
                                state : {"pending", "kept", "broken"}])
           /\ Promises \in [1 .. Len(calls) ->
                              [of : Nat, running : BOOLEAN,
                               state : {"pending", "kept", "broken"}]]
           /\ Len(Promises) = Len(calls)
           /\ \A i \in 1 .. Len(calls) :
                 Promises[i] = [of |-> calls[i].generation,
                                running |-> calls[i].running,
                                state |-> StateOf(calls[i])]
<1> DEFINE P == [of : Nat, running : BOOLEAN, state : {"pending", "kept", "broken"}]
<1>1. Len(calls) \in Nat
  BY LenProperties DEF TypeOK
<1>2. \A i \in 1 .. Len(calls) :
         [of |-> calls[i].generation, running |-> calls[i].running,
          state |-> StateOf(calls[i])] \in P
  <2> SUFFICES ASSUME NEW i \in 1 .. Len(calls)
               PROVE  /\ calls[i].generation \in Nat
                      /\ calls[i].running \in BOOLEAN
                      /\ StateOf(calls[i]) \in {"pending", "kept", "broken"}
    OBVIOUS
  <2>1. calls[i] \in Calls /\ calls[i].generation \in Nat
    BY CallIsTyped
  <2> QED
    BY <2>1 DEF Calls, StateOf
<1>3. Promises \in [1 .. Len(calls) -> P]
  BY <1>2 DEF Promises
<1> HIDE DEF P
<1>4. Promises \in Seq(P) /\ Len(Promises) = Len(calls)
  BY <1>1, <1>3
<1>5. \A i \in 1 .. Len(calls) :
         Promises[i] = [of |-> calls[i].generation, running |-> calls[i].running,
                        state |-> StateOf(calls[i])]
  BY DEF Promises
<1> QED
  BY <1>3, <1>4, <1>5 DEF P

\* At first there is nothing to promise.
LEMMA ContractInit == Init => Contract!Init
<1> SUFFICES ASSUME Init PROVE Contract!Init
  OBVIOUS
<1>1. Served = [c \in Conns |-> {}]
  BY DEF Init, Served, Free
<1>2. Promises = <<>>
  BY DEF Init, Promises
<1> QED
  BY <1>1, <1>2 DEF Init, Contract!Init

\* The boot and the owner's starts are starts.
LEMMA StartStep ==
    ASSUME IInv,
           \/ Construct \/ InitApp \/ InitAppThrows \/ ProviderReady \/ BootFails
           \/ Restart
    PROVE  [Contract!Next]_(Contract!vars)
<1>1. UNCHANGED <<Promises, Served>>
  BY MapsStay DEF Construct, InitApp, InitAppThrows, ProviderReady, BootFails,
                  Restart, Listen, serverVars, connVars
<1>2. CASE ProviderReady \/ Restart
  <2>1. ~listening
    BY <1>2 DEF IInv, BootOrder, ProviderReady, Restart
  <2>2. Contract!Start
    BY <1>1, <1>2, <2>1 DEF ProviderReady, Restart, Listen, Contract!Start
  <2> QED
    BY <2>2 DEF Contract!Next
<1>3. CASE Construct \/ InitApp \/ InitAppThrows \/ BootFails
  BY <1>1, <1>3 DEF Construct, InitApp, InitAppThrows, BootFails, serverVars, listenVars,
                    Contract!vars
<1> QED
  BY <1>2, <1>3

\* A connection that a listener accepts is served by the current start; one that
\* ends, alone or with the process, is not served any longer; and nobody is told
\* when its socket is forgotten.
LEMMA ConnectionsStep ==
    ASSUME IInv,
           \/ PortTaken
           \/ \E c \in Conns : \/ \E kind \in Kinds : Accept(c, kind)
                               \/ Hangup(c)
                               \/ SocketClosed(c)
    PROVE  [Contract!Next]_(Contract!vars)
<1>1. UNCHANGED <<generation, listening, Promises>>
  BY MapsStay DEF PortTaken, Accept, Hangup, SocketClosed, listenVars
<1>2. conn \in [Conns -> ConnRecords]
  BY DEF IInv, TypeOK
<1>3. ASSUME NEW left \in SUBSET Conns,
             Served' = [c \in Conns |-> IF c \in left THEN {} ELSE Served[c]]
      PROVE  Contract!Next
  BY <1>1, <1>3 DEF Contract!Leave, Contract!Next
<1>4. CASE PortTaken
  <2>1. Served' = [c \in Conns |-> IF c \in Conns THEN {} ELSE Served[c]]
    BY <1>4 DEF PortTaken, Free, Served
  <2> QED
    BY <1>3, <2>1
<1>5. ASSUME NEW c \in Conns, NEW kind \in Kinds, Accept(c, kind)
      PROVE  Contract!Next
  <2>1. Served[c] = {} /\ listening
    BY <1>5 DEF Accept, Served
  <2>2. Served' = [Served EXCEPT ![c] = {generation}]
    BY <1>2, <1>5 DEF Accept, Served
  <2>3. Contract!Serve(c)
    BY <1>1, <2>1, <2>2 DEF Contract!Serve
  <2> QED
    BY <2>3 DEF Contract!Next
<1>6. ASSUME NEW c \in Conns, Hangup(c)
      PROVE  Contract!Next
  <2>1. \A d \in Conns : conn'[d] = IF d = c THEN [conn[c] EXCEPT !.state = "destroyed"]
                                    ELSE conn[d]
    BY <1>2, <1>6 DEF Hangup
  <2>2. conn'[c].state # "open"
    BY <1>2, <2>1 DEF ConnRecords
  <2>3. Served' = [d \in Conns |-> IF d \in {c} THEN {} ELSE Served[d]]
    BY <2>1, <2>2 DEF Served
  <2> QED
    BY <1>3, <2>3
<1>7. ASSUME NEW c \in Conns, SocketClosed(c)
      PROVE  UNCHANGED Contract!vars
  <2>1. \A d \in Conns : conn'[d] = IF d = c THEN Free ELSE conn[d]
    BY <1>2, <1>7 DEF SocketClosed
  <2>2. conn[c].state = "destroyed"
    BY <1>7 DEF SocketClosed
  <2>3. Served' = Served
    BY <2>1, <2>2 DEF Served, Free
  <2> QED
    BY <1>1, <2>3 DEF Contract!vars
<1> QED
  BY <1>4, <1>5, <1>6, <1>7

\* A forced close leaves no connection, because the sets know all that are open.
LEMMA ForceLeavesNone ==
    ASSUME IInv, Close(TRUE)
    PROVE  Served' = [c \in Conns |-> {}]
<1> SUFFICES ASSUME NEW c \in Conns PROVE conn'[c].state # "open"
  BY DEF Served
<1>1. conn[c].state = "open" => Destroyed(c)
  BY DEF IInv, OpenIsTracked, Destroyed, Kinds, TypeOK, ConnRecords
<1> QED
  BY <1>1 DEF Close, IInv, TypeOK, ConnRecords

\* A call of close is one more promise.
LEMMA CloseStep ==
    ASSUME IInv, TypeOK', NEW force \in BOOLEAN, Close(force)
    PROVE  Contract!Close(force)
<1> DEFINE n == Len(calls)
           new == [of |-> generation, running |-> listening, state |-> "pending"]
<1>1. /\ n \in Nat /\ Len(calls') = n + 1
      /\ \A i \in 1 .. n : calls'[i] = calls[i]
      /\ calls'[n + 1].generation = generation
      /\ calls'[n + 1].running = listening
      /\ calls'[n + 1].outcome = "pending"
  BY CloseCalls DEF IInv
<1>2. /\ Len(Promises) = n /\ Promises \in Seq([of : Nat, running : BOOLEAN,
                                state : {"pending", "kept", "broken"}])
      /\ \A i \in 1 .. n :
            Promises[i] = [of |-> calls[i].generation,
                           running |-> calls[i].running,
                           state |-> StateOf(calls[i])]
  BY PromiseIs DEF IInv
<1>3. StateOf(calls'[n + 1]) = "pending"
  BY <1>1 DEF StateOf
<1>4. Promises' = [i \in 1 .. n + 1 |->
          [of |-> calls'[i].generation, running |-> calls'[i].running,
           state |-> StateOf(calls'[i])]]
  BY <1>1 DEF Promises, StateOf
<1>5. Append(Promises, new) = [i \in 1 .. n + 1 |->
          IF i = n + 1 THEN new ELSE Promises[i]]
  BY <1>1, <1>2
<1>6. ASSUME NEW i \in 1 .. n + 1
      PROVE  [of |-> calls'[i].generation, running |-> calls'[i].running,
              state |-> StateOf(calls'[i])]
                = IF i = n + 1 THEN new ELSE Promises[i]
  <2>1. CASE i = n + 1
    BY <1>1, <1>3, <2>1
  <2>2. CASE i # n + 1
    <3>1. i \in 1 .. n
      BY <1>1, <2>2
    <3> QED
      BY <1>1, <1>2, <2>2, <3>1
  <2> QED
    BY <2>1, <2>2
<1>7. Promises' = Append(Promises, new)
  BY <1>4, <1>5, <1>6
<1>8. Served' = IF force THEN [c \in Conns |-> {}] ELSE Served
  <2>1. CASE force
    BY <2>1, ForceLeavesNone
  <2>2. CASE ~force
    BY <2>2, MapsStay DEF Close, connVars
  <2> QED
    BY <2>1, <2>2
<1>9. listening' = FALSE /\ UNCHANGED generation
  BY DEF Close
<1> QED
  BY <1>7, <1>8, <1>9 DEF Contract!Close

\* A close event breaks the promises that were made of nothing, and moves the
\* others at most to their timer.
LEMMA DrainedStep ==
    ASSUME IInv, TypeOK', NEW g, NEW kind \in Kinds, Drained(g, kind)
    PROVE  [Contract!Next]_(Contract!vars)
<1> DEFINE n == Len(calls)
           vain == {i \in 1 .. n : /\ calls[i].generation = g
                                   /\ calls[i].outcome = "pending"
                                   /\ ~calls[i].running}
<1>1. /\ Len(calls') = n
      /\ \A i \in 1 .. n :
            calls'[i] = IF calls[i].generation = g THEN Settled(calls[i], kind)
                        ELSE calls[i]
  BY DrainedCalls DEF IInv
<1>2. /\ Len(Promises) = n
      /\ \A i \in 1 .. n :
            Promises[i] = [of |-> calls[i].generation,
                           running |-> calls[i].running,
                           state |-> StateOf(calls[i])]
  BY PromiseIs DEF IInv
<1>3. Promises' = [i \in 1 .. n |-> [of |-> calls'[i].generation,
                                     running |-> calls'[i].running,
                                     state |-> StateOf(calls'[i])]]
  BY <1>1 DEF Promises, StateOf
<1>4. ASSUME NEW i \in 1 .. n
      PROVE  /\ calls'[i].generation = calls[i].generation
             /\ calls'[i].running = calls[i].running
             /\ StateOf(calls'[i]) = IF i \in vain THEN "broken"
                                     ELSE StateOf(calls[i])
             /\ i \in vain => StateOf(calls[i]) = "pending"
  <2>1. calls[i] \in Calls
    BY CallIsTyped DEF IInv
  <2>2. CASE calls[i].generation = g
    <3>1. calls'[i] = Settled(calls[i], kind)
      BY <1>1, <2>2
    <3>2. CASE calls[i].outcome # "pending"
      <4>1. calls'[i].outcome = calls[i].outcome
        BY <2>1, <3>1, <3>2, SettledIs
      <4>2. i \notin vain
        BY <3>2
      <4>3. StateOf(calls'[i]) = StateOf(calls[i])
        BY <4>1 DEF StateOf
      <4> HIDE DEF vain
      <4> QED
        BY <2>1, <3>1, <4>2, <4>3, SettledIs
    <3>3. CASE calls[i].outcome = "pending"
      <4>1. i \in vain <=> ~calls[i].running
        BY <2>2, <3>3
      <4>2. calls'[i].outcome = "rejected" <=> ~calls[i].running
        BY <2>1, <3>1, <3>3, SettledIs
      <4>3. calls'[i].outcome \in {"pending", "timer", "rejected"}
        BY <2>1, <3>1, <3>3, SettledIs
      <4>4. StateOf(calls[i]) = "pending"
        BY <3>3 DEF StateOf
      <4>5. StateOf(calls'[i]) = IF calls'[i].outcome = "rejected" THEN "broken"
                                 ELSE "pending"
        BY <4>3 DEF StateOf
      <4> HIDE DEF vain
      <4> QED
        BY <2>1, <3>1, <4>1, <4>2, <4>4, <4>5, SettledIs
    <3> QED
      BY <3>2, <3>3
  <2>3. CASE calls[i].generation # g
    BY <1>1, <2>3
  <2> QED
    BY <2>2, <2>3
<1>5. Promises' = [i \in 1 .. n |-> IF i \in vain
                                    THEN [Promises[i] EXCEPT !.state = "broken"]
                                    ELSE Promises[i]]
  <2> HIDE DEF vain
  <2>1. ASSUME NEW i \in 1 .. n
        PROVE  [of |-> calls'[i].generation, running |-> calls'[i].running,
                state |-> StateOf(calls'[i])]
                  = IF i \in vain THEN [Promises[i] EXCEPT !.state = "broken"]
                    ELSE Promises[i]
    <3>1. Promises[i] = [of |-> calls[i].generation,
                         running |-> calls[i].running,
                         state |-> StateOf(calls[i])]
      BY <1>2
    <3> QED
      BY <1>4, <3>1
  <2> QED
    BY <1>3, <2>1
<1>6. vain \in SUBSET (1 .. n)
  OBVIOUS
<1>7. \A i \in vain : Promises[i].state = "pending" /\ ~Promises[i].running
  <2> SUFFICES ASSUME NEW i \in vain
               PROVE  Promises[i].state = "pending" /\ ~Promises[i].running
    OBVIOUS
  <2>1. i \in 1 .. n
    OBVIOUS
  <2>2. ~calls[i].running
    OBVIOUS
  <2> HIDE DEF vain
  <2>3. Promises[i] = [of |-> calls[i].generation, running |-> calls[i].running,
                       state |-> StateOf(calls[i])]
    BY <1>2, <2>1
  <2>4. StateOf(calls[i]) = "pending"
    BY <1>4, <2>1
  <2>5. Promises[i].running = calls[i].running
    BY <2>3
  <2>6. Promises[i].state = "pending"
    BY <2>3, <2>4
  <2> QED
    BY <2>2, <2>5, <2>6, Zenon
<1>8. UNCHANGED <<generation, listening, Served>>
  BY MapsStay DEF Drained, listenVars, connVars
<1> HIDE DEF vain
<1>9. Contract!Break(vain)
  BY <1>2, <1>5, <1>7, <1>8 DEF Contract!Break
<1> QED
  BY <1>2, <1>6, <1>9 DEF Contract!Next

\* A promise resolves when the start it was made of is over for everybody.
LEMMA TimeoutStep ==
    ASSUME IInv, ResolvedIsClosed, TimedRan, NEW j \in 1 .. Len(calls), Timeout(j)
    PROVE  [Contract!Next]_(Contract!vars)
<1> DEFINE n == Len(calls)
<1>1. /\ Len(calls') = n /\ calls[j].outcome = "timer"
      /\ \A i \in 1 .. n :
            /\ i # j => calls'[i] = calls[i]
            /\ calls'[j].generation = calls[j].generation
            /\ calls'[j].running = calls[j].running
            /\ calls'[j].outcome = "resolved"
  BY TimeoutCalls DEF IInv
<1>2. /\ Len(Promises) = n
      /\ Promises \in [1 .. n -> [of : Nat, running : BOOLEAN,
                                  state : {"pending", "kept", "broken"}]]
      /\ \A i \in 1 .. n :
            Promises[i] = [of |-> calls[i].generation,
                           running |-> calls[i].running,
                           state |-> StateOf(calls[i])]
  BY PromiseIs DEF IInv
<1>3. Promises' = [i \in 1 .. n |-> [of |-> calls'[i].generation,
                                     running |-> calls'[i].running,
                                     state |-> StateOf(calls'[i])]]
  BY <1>1 DEF Promises, StateOf
<1>4. /\ StateOf(calls[j]) = "pending"
      /\ StateOf(calls'[j]) = "kept"
      /\ \A i \in 1 .. n : i # j => StateOf(calls'[i]) = StateOf(calls[i])
  BY <1>1 DEF StateOf
<1>5. Promises' = [Promises EXCEPT ![j] = [Promises[j] EXCEPT !.state = "kept"]]
  <2>1. \A i \in 1 .. n :
           [of |-> calls'[i].generation, running |-> calls'[i].running,
            state |-> StateOf(calls'[i])]
              = IF i = j THEN [Promises[j] EXCEPT !.state = "kept"]
                ELSE Promises[i]
    BY <1>1, <1>2, <1>4
  <2> QED
    BY <1>2, <1>3, <2>1
<1>6. Promises[j].state = "pending" /\ Promises[j].running
  BY <1>1, <1>2, <1>4 DEF TimedRan
<1>7. Contract!Over(Promises[j].of)
  <2>1. /\ ~(listening /\ generation = calls[j].generation)
        /\ \A c \in Conns : conn[c].state = "open" =>
              conn[c].generation # calls[j].generation
    BY <1>1 DEF ResolvedIsClosed
  <2>2. Promises[j].of = calls[j].generation
    BY <1>2
  <2>3. \A c \in Conns : calls[j].generation \notin Served[c]
    BY <2>1 DEF Served
  <2> QED
    BY <2>1, <2>2, <2>3 DEF Contract!Over
<1>8. UNCHANGED <<generation, listening, Served>>
  BY MapsStay DEF Timeout, listenVars, connVars
<1>9. Contract!Keep(j)
  BY <1>5, <1>6, <1>7, <1>8 DEF Contract!Keep
<1> QED
  BY <1>2, <1>9 DEF Contract!Next

\* Boot, listeners, sets of sockets and close events together keep the contract
\* of the server with its owner, for any number of connections, starts and calls
\* of close.
THEOREM ServerKeepsContract == Spec => ImplementsContract
<1>1. IInv /\ IInv' /\ ResolvedIsClosed /\ TimedRan /\ [Next]_vars
         => [Contract!Next]_(Contract!vars)
  <2> SUFFICES ASSUME IInv, TypeOK', ResolvedIsClosed, TimedRan, [Next]_vars
               PROVE  [Contract!Next]_(Contract!vars)
    BY DEF IInv
  <2>1. CASE UNCHANGED vars
    BY <2>1, MapsStay DEF vars, serverVars, listenVars, connVars, Contract!vars
  <2>2. ASSUME NEW force \in BOOLEAN, Close(force) PROVE Contract!Next
    BY <2>2, CloseStep DEF Contract!Next
  <2> QED
    BY <2>1, <2>2, StartStep, ConnectionsStep, DrainedStep, TimeoutStep DEF Next
<1>2. Init => TimedRan
  BY DEF Init, TimedRan
<1>3. TypeOK /\ TimedRan /\ [Next]_vars => TimedRan'
  BY TimedStep
<1> QED
  BY <1>1, <1>2, <1>3, ContractInit, TypeInvariant, Invariance,
     ResolvedTellsTruth, PTL DEF Spec, ImplementsContract, Contract!Spec

=============================================================================
