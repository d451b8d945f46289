# CertAssert in TLA+

CertAssert is an OpenID Connect provider in which a user signs in with an x509
client certificate instead of a password.  This directory holds TLA+ models of
it, the TLC configurations that check them on small instances, and TLAPS proofs
of the results that matter most for every instance.

Paths below are relative to `src/src/` of the repository unless they start with
`src/`.

## The system

| Component | Source | State | Operations |
| --- | --- | --- | --- |
| TLS connections, middleware | `server/components/CasServer.ts`, `certassert/CertAssert.ts` | per socket: the presented chain and the `authorized` flag | handshake; adaptation and verification in front of every handler |
| Chain adaptation | `dataAdaptation/certificate/components/CasInputAdaptor.ts`, `dataAdaptation/handlers/CasDataAdaptionHandler.ts` | loop variables; result `req.cas` | walk the chain of `issuerCertificate`s |
| Chain verification | `dataAdaptation/handlers/CasCertChainVerifyHandler.ts`, `utils/CertificateUtils.ts` | loop variables; result `req.client.authorized` | walk the pairs of a certificate and its issuer |
| Interactions | `interactions/handlers/*`, `interactions/components/CasInteractionsRouter.ts` | requests in flight | `/:uid`, `/:uid/login`, `/confirm`, `/continue`, `/abort` |
| OIDC provider glue | `oidc/components/CasOidcMtlsProvider.ts` | interactions and sessions (inside `oidc-provider`) | `getInteractionDetails`, `finishInteraction`, `adaptTokenExpiry`, logout and error rendering |
| OIDC storage | `db/components/CasOidcCacheDb.ts` | one LRU cache per model | upsert, find, findByUid, findByUserCode, consume, destroy, revokeByGrantId |
| Certificate store | `db/components/CasDbInMem.ts` | client certificates by digest | putCert, getCert, knownCerts |
| API | `api/handlers/*` | none of its own | `/api/auth`, `/api/whoami`, `/api/list` |
| Token expiry | `oidc/components/CasOidcMtlsProvider.ts` | tokens out in the world | the lifetime of a token when it is issued |
| Server lifecycle, boot | `server/components/CasServer.ts`, `certassert/CertAssert.ts` | two listeners, the sets of their sockets, the mounted layers | constructor with `verifyConfig`, init, close |
| Trust anchors | `utils/CertificateUtils.ts`, `CasCommonAdaptor.ts`, `certassert/CertAssert.ts`, `server/components/CasServer.ts` | the anchors of the chain check and those of the listener | reading the files of `acceptedCAs`, at the boot and at each start |
| Certificate fields, claims | `dataAdaptation/certificate/common/CasCommonAdaptor.ts`, `findAccount` of `CasOidcMtlsProvider.ts` | the stored certificate | names, extensions, public key, claims per scope |
| Utilities | `utils/*` | none | paths, ranges, time |
| User interface | `interactions/static/**` | per tab: the page, what whoami said | login, consent, logout and error views |
| Example application | `src/example/app/src/components/OidcClient/ClientConnector.tsx` | per window: the server's state, who is signed in; shared: the requests that wait for a response | sign in, sign out, process a response, poll the server |

How they meet: `CertAssert` builds the express application, puts the adaptation
handler and the verification handler in front of every route, and mounts the API
and interaction routers and `oidc-provider`.  The verification handler writes its
verdict to `req.client`, which is the *socket*: all requests of a connection
share it, and the check is skipped where it is set already.  The interaction
handlers read it after they awaited the provider, store the client certificate
in the certificate store and the interaction result in the provider's storage;
the provider reads the result when the browser comes back.  Token expiry and the
claims look the certificate up by the account, which is its digest.  The views run
in the browser: they ask `/api/whoami` whether the user may go on, and their
buttons lead to the interaction endpoints, to which the transparent flows redirect
without asking.  The server owns every socket; `close` destroys or awaits them.  The
files of `acceptedCAs` are read twice, by `CertAssert` for the verification handler
and by the server for the TLS listener.  The example application is a client of the
provider: it sends the browser there and gets it back with a response.

What is hard in it: the flag that outlives the request, the certificate and, if a
socket were reused, the client; handlers cut by awaits while others write what
they read; two stores (certificates, interactions) written one after the other
and lost together in a crash; loops over a possibly cyclic structure that end by
a set of serial numbers; indexes in a cache that age on their own; lifetimes
that mix milliseconds, fractions and whole seconds; two listeners that drain at
different times while a second close or a restart comes in between; a user agent
whose interaction may end from elsewhere while it shows a view of it; two readings
of the same files, by different rules and at different times; a client whose polls
overtake each other and whose windows share what they wait for.

What makes each component correct:

- *Adaptation and verification*: they terminate; the client certificate is the
  one presented, with its issuers; a socket is authorized only by the TLS layer
  or by a link to a configured anchor.
- *Connections*: the flag of a socket stands for an acceptance of that very
  client.
- *Interactions*: a login is that of the requesting client; an account that is
  logged in is known to the certificate store; consent does not undo a login; one
  response per request, and one for every request.
- *Storage*: what was saved is found until it lapses, is destroyed or revoked, by
  every key alike; revocation is complete.
- *API and tokens*: nothing is answered to, or issued for, a client never
  accepted; tokens end with their certificate.
- *Trust anchors*: a file counts for itself; no anchor comes from nowhere; where the two
  layers trust different certificates there is a reason in the files.
- *Claims*: they depend on the certificate and the scopes, not on earlier calls; a
  certificate is stored as a whole or not at all.
- *Server*: nothing is served before the app is whole; a close that resolves is
  true, and a forced one resolves without help from the clients.
- *User interface*: only the user signs in, consents and signs out, every flow ends on a
  page that says so, and one that nothing disturbs ends with the user signed in.
- *Example application*: what a window shows is true of one response to its own
  browser, and of the server it becomes true.

## The modules

| Module | Models | Extends |
| --- | --- | --- |
| `CertChain` | what the middleware computes from a presented chain, as operators | |
| `CasChainHandlers` | the loops that compute it, one action per iteration and path | `CertChain` |
| `CasTrustAnchors` | the anchors of the chain check and of the listener, from files that may be damaged or replaced | |
| `CasConnection` | sockets, the clock and the middleware as one step | `CertChain` |
| `SignOn` | abstract: what CertAssert promises of sign-on flows | |
| `CasInteractions` | the five interaction endpoints with the provider, the stores, reconnects and crashes; implements `SignOn` | `CasConnection` |
| `CasApi` | the API endpoints beside the interactions | `CasInteractions` |
| `CasTokens` | token expiry beside the interactions and the API | `CasApi` |
| `CasBrowser` | tabs that follow the server's redirects, the default views, signing out | `CasInteractions` |
| `ServerContract` | abstract: what the owner of a server may expect of init and close | |
| `CasServer` | the boot of CertAssert, the listeners and their sockets, close; implements `ServerContract` | |
| `CasCommonAdaptor` | what is kept of a certificate: names, extensions, public key, and what makes it fail | |
| `CasCertFields` | the loop of `fromDer` over the extensions, storing the adapted certificate, claims | `CasCommonAdaptor` |
| `OidcAdapter` | abstract: what `oidc-provider` expects of the storage of a model | |
| `CasOidcCacheDb` | the storage as it is, over an LRU cache with ages; implements `OidcAdapter` | |
| `ClientConnector` | the example application in several windows, beside CertAssert as it sees it | |
| `CasChainHandlersProofs` | theorems on `CertChain` and on the loops | `CasChainHandlers` |
| `CasDataAdaptationProofs` | theorems on trusted files and on certificates | `CasTrustAnchors`, `CasCertFields` |
| `CasInteractionsProofs` | theorems on the interactions, and the refinement of `SignOn` | `CasInteractions` |
| `CasTokensProofs`, `CasBrowserProofs` | theorems beside the interactions | the module each is named after, `CasInteractionsProofs` |
| `CasOidcCacheDbProofs`, `CasServerProofs`, `ClientConnectorProofs` | theorems | the module each is named after |
| `MC*` | instances for TLC | the module each is named after |

### Correspondence with the code

**`CertChain`, `CasChainHandlers`.**  A certificate is a record of the fields the
handlers read; how it reads is one of four outcomes: `ok`; `failure`, `fromDer`
returned `failureDetails`; `throws`, the catch clause of `fromSocket` ran;
`unparsed`, it was adapted but `Certificate.fromPEM` of the verification handler
throws on it.  `CasChainHandlers` has the program counter and the local variables
of both handlers: `AdaptOk`, `AdaptFailure`, `AdaptThrows` are the three ends of
an iteration of the `do … while` loop (the failure branch returns, the catch
clause records and goes on), `WalkLink`, `WalkThrows`, `WalkNoIssuer` those of the
verification loop with its `cont` flag and its `continue`.  `CertChain` says the
same in closed form (`ClientChain`, `VerifyChain`, `VerifyThrows`).  All other modules
use the closed form, as the one step `Verify` or `VerifyFails` of `CasConnection`;
`HandlersAreOneStep` says that the loops are that step: nothing is written to the socket
before the last iteration, which leaves the verdict of the whole chain there or throws
where that step fails.

**`CasConnection`.**  `peer` and `authorized` are the socket's; `Verify` is the
verification handler up to `next()`, `VerifyFails` the case in which it throws and
express answers.  The end of one socket and the handshake of the next are one
step, `Handshake`.

**`CasInteractions`.**  A request takes a slot; `pc` is where its handler
stands: `lookup` (awaiting the interaction), `handle` (about to run its
synchronous part), `finish` (awaiting `finishInteraction`), `done`.  `ctx` is what
it keeps of `req`, `sub` the arguments of `finishInteraction`, `replies` what was
sent.  A handler is cut at its awaits, since every adapter method returns a
promise and the storage is meant to be replaced by a database
(`src/README.md:115`); what runs between two awaits is one step.  `interaction`
is what the provider has stored per uid, `stage` and `account` where its flow
stands; `certs` the keys of the certificate store.  The endpoint `/continue` and a
failing middleware do not await and answer in the step the request arrives in.

**`SignOn`.**  A flow at a stage holds at most one decision, the last one made: a login
as a known client, consent of the account, a refusal, or that it lapsed.  `Contract`
maps it: the accepted clients are those whose chain passes at some instant up to now,
the decision is what the interaction of the flow's stage holds.  Requests, sockets and
awaits are not in it; a submission counts at the moment it is saved.

**`CasTrustAnchors`.**  A file is a sequence of labels, encoded certificates and other
text.  `NormalisePem`, `PemToDer` and `FromRaw` are the adaptor's reading of one file,
with the exchange of the arguments of `substring`; `AddCACert` is Node's reading of
the joined text.  `InitApp` reads the files at the boot, `Listen` at each start,
`Replace` changes a file at any time.  `seen` remembers, for the properties, the files as
each layer read them.  What a missing file does to the rest of the boot is in `CasServer`
(`InitAppThrows`, `BootFails`).

**`CasApi`, `CasTokens`** add one variable each to `CasInteractions`: the last
answer, and the token issued last.  `CasTokens` counts `MsPerSec` milliseconds in a
second, because certificates expire at a millisecond and the provider stamps
tokens with whole seconds.

**`CasOidcCacheDb`.**  One adapter instance: `entry` the payloads, `index` the uid
and user-code entries, `grants` the lists of keys.  An entry is a value, the time
it was set and a maximal age, in which 0 stands for no limit as in `lru-cache`.
The actions carry the names of the methods.  `Adapter` maps it to `OidcAdapter`, where
`found` holds what looking up each uid and user code returns: it is mapped to what the
code's lookup returns, by way of an index entry that has an age of its own, and the
adapter asks that this is always what `find` returns for the id that was saved last.

**`CasBrowser`.**  A tab has a flow and a request slot of its own and is at a page, at
a path it is about to request (`Send`), or waiting for the response (`Receive`).
`Send` and `Resume` are the actions of `CasInteractions` that a user agent
triggers, now bound to where the tab is; everything else of that module happens
`Elsewhere`.  A view starts without a verdict and gets one from whoami (`Mounted`);
what it renders then is `Offered`, and `Press` leads to an endpoint.  The logout view
posts a form: `FormFields` are what it sends, which depends on whether a button was
pressed.

**`CasServer`.**  `Construct` to `ProviderReady` are the boot, with the layers that
express has mounted in order.  A start makes a new pair of listeners, numbered by
`generation`, while the sets of sockets belong to the server object and are shared
by all of them, as in the code.  `Close` adds a promise to `calls`; `Drained` is the
close event of a listener, which settles every promise that waits for it, and
`Timeout` the two seconds after both.

**`ServerContract`.**  An owner sees starts, connections served by one of them, and
promises of `close` that are pending, kept or broken.  `Contract` maps the server to it:
what is served is an open socket and the start its listener came from, and a promise is
kept when it is resolved.  Listeners, the sets of sockets and the timer are not in it, so
that a forced close leaves nobody although only the sets say whom to destroy.

**`CasCommonAdaptor`, `CasCertFields`.**  Key usage is computed as in the code from the
octets and the number of unused bits that DER gives a set of usages, hex text digit by
digit from bytes; attribute values are opaque.  `fromDer` is cut at the iterations of
the loop over the extensions: `next` is the extension to be read, `kept` what the loop has
filled in (`Keep`), and `AdaptNext`, `AdaptThrows`, `AdaptDone` are an iteration, the
error that leaves the loop for the `catch` of `fromDer`, and its end.  The library hands
over an extension with a value that its adapter can read something of, or without
(`Unreadable`): a malformed value of most kinds becomes the library's default for the
kind, which reads as one that grants nothing, and only a value that is no ASN.1 or an
authority key identifier without an identifier makes the adapter throw.  The other
variables are a client certificate, what the request has and the store holds of it, and
the last claims.

**`ClientConnector`.**  `shown` is `this.state` of each window and is lost with every load;
`stored` the requests in the local storage, which the windows share.  `Loaded` is the
constructor and `componentDidMount` up to its first await, `Exchanged` and
`ExchangeFails` its continuations, `Ask` the two buttons, `Redirect` the timer of three
seconds, which a load clears.  A call of `updateServerState` is counted in `polls` by
whether its response is still open, a success or a failure, so that responses arrive
in any order.

### External behaviour

Modelled from how the code uses it and marked external in the map:
`getPeerCertificate(true)` links a certificate to the issuer it names and a
self-issued one to itself; Node may authorize a chain only if all of it is valid
and it ends in a self-issued anchor, and may refuse any; `@fidm/x509` compares
the issuer's name; `interactionFinished` looks the interaction up again,
overlays the last submission when it is asked to merge and the result has no
error, and stores the result; the resume endpoint destroys the interaction and
acts on its result, with the login of the result as the last submission of the
consent prompt; `lru-cache` drops an entry when it is older than its age.  Each
flow has a session of its own, one uid per prompt.  A prompt other than login and
consent does not occur under the provider's default policy.  Node takes the blocks of a
text of certificates in order and stops at the first it cannot read.  `oidc-client`
takes a request out of the storage before it looks at the response, and the provider
redirects a sign-out back only if it came with a hint.

## What TLC checks

| Run | Shows | States |
| --- | --- | --- |
| `chain_handlers` | `AdaptsWholePrefix`: the adaptation loop computes its closed form; `HandlersAreOneStep`: both loops are one step of a connection; `Terminates` | 26 000 |
| `chain_leaf` | violation of `AuthorizedLeafInTime` | |
| `anchors` | `DamageIsLocal`, `ChainTrustsMore`, `ListenerTrustsMore` | 3 178 000 |
| `interactions` | `AuthorizedWasAccepted`, `AccountKnown`, `LoginIsOwn`, `OneReply`, `ConsentKeepsLogin`; `ImplementsSignOn` | 817 000 |
| `tokens` | `AnswersAccepted`, `ClampedTokensDieWithCert`, `TokenOwnerAccepted` | 2 100 000 |
| `tokens_refresh` | violation of `TokensDieWithCert` | |
| `cache` | `RevokeKills`, `ImplementsAdapter` | 176 000 |
| `server` | `ServesWhole`, `ResolvedIsClosed`, `ForcedCloseSettles`; `ImplementsContract` | 413 000 |
| `browser` | `ByTheUser`, `SignedOutIsLoggedOut`, `FlowEnds`, `GetsThrough` | 71 000 |
| `browser_logout` | violation of `SignedOutIsLoggedOut` | |
| `fields` | `OneOctetRead`, `StoredWhole`, `IdentifiersTold`, `ClaimsFollowScope` | 26 800 |
| `client` | `ShownIsTrue`, `ServerStateShown` | 920 000 |

Every passing run also checks the type invariant of its module.

**Bounds and why they are enough.**

- `chain_handlers` enumerates every chain of at most three certificates over a
  pool with repeating serial numbers, two expiry times per level, every way to
  read a certificate and anchors in the middle and at the top.  Each loop looks at
  one certificate and the next, so three give a first, a middle and a last
  iteration and every failure in each of them.
- `interactions` has two requests on two sockets in one flow, and five kinds of
  client: accepted by the chain check alone and only for a while, accepted by the
  TLS layer, accepted by neither, one on which the chain check throws, and one
  without a certificate.  Two requests are what it takes to interfere within a
  flow (one waiting while another writes); two sockets let them come from
  different clients.  Flows share nothing but the certificate store, and the
  proofs hold for any number.  Sockets and request slots are interchangeable and
  reduced by symmetry; no run with a liveness property uses it.  `MaxTime` = 1 suffices
  because only "before" and "after" the expiry of a certificate differ.
- `tokens` has seconds of two milliseconds, certificates that expire in the middle
  and at the turn of a second, one client whom no anchor vouches for, and times to
  live shorter and longer than what the certificates have left.
- `cache` has two artifacts that share a uid (as before and after the rotation of a
  session id), one of them with a user code, each saved under either of two grants or
  none, with or without a limit; `MaxKeys` bounds only how often an id may be pushed to
  one list.
- `anchors` has two files, in order, and every kind of text: canonical, commented, bare,
  a bundle, without a label, with an end label before the first begin label (so that
  `substring` exchanges its arguments), cut before or behind another certificate;
  certificates whose text is padded or cannot be adapted; and two replacements, before,
  between and after the two readings.
- `browser` has one tab, two sockets and the five kinds of client, so that what a
  request finds on its socket may differ from what the one before left, and the
  interaction of the view may lapse at any time.  Sign-on may follow sign-out any number
  of times.  Several tabs are beyond a run with liveness (every tab multiplies the states
  by its own); that they cannot make each other log in or consent is proved for any
  number (`OnlyByTheUser`), and so is what they share with the contract of sign-on
  (`SignOnBehindViews`).  That `FlowEnds` and `GetsThrough` hold with several is not
  checked.
- `server` has two starts, since what a socket of an old listener may spoil is the next
  start; three closes, so that two may wait for one listener and a third for the
  next; and two connections, one for each kind or both of one.
- `fields` has all sets of the nine usages under a plain name; names that are empty, lack
  an address or repeat attributes, with every kind of key and with lists of up to three
  extensions, which are repeated, unknown or unreadable at the first, a middle or the last
  place, so that the loop has kept nothing, something or all but one when it fails; and
  pairs of key identifiers with bytes on both sides of 16.
- `client` has two windows and two users.  A window is loaded three times, which is what
  signing in and out takes and what it takes to be loaded with the other's response in
  between; two requests, one for each purpose or two of one; and in one window two polls
  at a time, which is what it takes to overtake.

Counters are bounded by `MaxTime`, `MaxKeys`, `MaxStarts`, `MaxCloses`, `MaxReplaced`,
`MaxRequests`, `MaxLoads` and `MaxPolls` alone.

**Fairness.**  `FlowEnds` and `GetsThrough` assume weak fairness of `Handle` for every
request slot: the event loop runs every continuation whose promise settled, and promises
of the storage settle.  The browser follows redirects and requests the path it was sent
to, which is weak fairness of `Send`, `Receive` and `Resume`; it mounts the view it shows,
which asks whoami (`Mounted`: a question that fails is not asked again in the code, but
under the premise of `GetsThrough` the chain check does not throw, and `FlowEnds` holds
without this assumption); and a user in front of a view with a button presses one in the
end, which button is open.  No fairness is assumed of the clock, of reconnects or of
crashes.  `GetsThrough` says that a user whom the chain check accepts is signed in, as
long as the sockets stay authorized, the interaction does not lapse, and the user aborts
only where the view has called them unauthorised (`Undisturbed`): none of that is assumed
of the system by fairness, it is the premise.  `ForcedCloseSettles` assumes that the event
loop delivers the close events of sockets and listeners and the timer, and nothing of
clients.  `Terminates` assumes weak fairness of the next step of a synchronous handler,
which nothing can preempt.  `ServerStateShown` assumes that the browser runs its
interval and that every request a page makes ends in a response or an error; nothing is
assumed of the user, of the provider or of the server's coming back.  Deadlock checking is off for the two handlers of
`CasChainHandlers`, which end, and for `CasServer`, whose process may exit.

### Where code and documents disagree

Shown by a run:

- `chain_leaf`: a link that fails is passed over, so a client whose own certificate
  has run out is authorized by a valid link above it
  (`CasCertChainVerifyHandler.ts:43`, `src/README.md:122`).
- `tokens_refresh`: refresh tokens outlive the client certificate; only access and
  id tokens are clamped (`src/README.md:141`).
- `browser_logout`: the transparent logout submits its form by script, which sends no
  button; without the field `logout` the provider keeps the session, and the user
  who was told nothing is still logged in (`CasLogoutView.tsx:60`,
  `src/README.md:150`).

Part of the models, without a run of their own:

- A chain in which an issuer repeats the serial number of a certificate below it is
  cut there (`DistinctSerials` of `CertChain`), and a client below a trusted intermediate
  is refused, although serial numbers are unique per issuer only
  (`CasInputAdaptor.ts:48`).
- The verdict is kept on the socket, so `/api/auth` goes on saying yes on an open
  connection after the certificate has run out; only a refusal is fresh
  (`RefusalFresh`, a theorem; `CasCertChainVerifyHandler.ts:48`).
- `/api/list` returns digests of client certificates where the documentation speaks
  of names of the trusted CAs (`CasApiListHandler.ts:15`, `src/README.md:123`).
- A key usage of two octets is read as none, since the reduction ends in a comma
  operator (`ShiftedBits`; `CasCommonAdaptor.ts:204`), and the flag `critical` is
  written to `cRLSign` (`AdaptKeyUsage`; `CasCommonAdaptor.ts:184`).
- With toggles for transparent flows but none for logout, `logout` calls `toString` on
  `undefined`, and signing out ends on the error page (`SignOut`;
  `CasOidcMtlsProvider.ts:147`).
- A file of `acceptedCAs` becomes at most one anchor of the chain check, its first
  certificate at best, while the listener takes all certificates of all files up to
  the first one it cannot read (`AddCACert`, `FromRaw`; `CasServer.ts:58`).
- A byte of a key identifier below 16 is written with one digit, so that different
  identifiers may have one text (`HexDigits`; `CasCommonAdaptor.ts:434`).
- The redirect keeps the port of the `Host` header, which is the insecure listener's
  unless that is 80 (`CasServer.ts:96`); it carries no state and is not modelled.

The positive properties state what does hold in spite of these: for example
`AuthorizedWasAccepted` says *accepted at some instant up to now* by the check the
code performs.

## What TLAPS proves

All theorems hold for every value of the constants that satisfies the named
assumptions: `PeersAssumption` (presented chains are finite sequences of
certificates linked by issuer), `ConnectionAssumption` (a client may present
none; the clock's bound is a number), `InteractionsAssumption` (no digest is the
absence of an account), `ServerAssumption` (the bounds on starts and closes are
numbers), `CacheAssumption` (the uid and user code of an id are
fixed, `undefined` is no id, times to live are naturals), `AnchorsAssumption` (files hold
sequences of labels, certificates and text, and their paths are a sequence),
`CertFieldsAssumption` (names, extensions and identifiers are sequences, attributes have
values, octets are octets), `TokensAssumption` (seconds and times to
live are naturals), `TimesAssumption` (instants are integers), `BrowserAssumption` (a tab
is a flow with one request), `ClientAssumption` (the bounds on requests, loads and calls
are numbers).

**`CasChainHandlersProofs`.**  On the operators of `CertChain`: the number that `Visited`
chooses exists (least-number principle by `WFMin`), so `ClientChain` is a prefix of the
presented chain (`ClientChainIsPrefix`), and an accepted peer presented a trust anchor
(`AcceptedIsAnchored`).  On the loops: `HandlersTypeCorrect`, `LoopAdaptsPrefix` and
`LoopVerdictIsAnchored`: both loops compute their closed forms for every set of chains,
of every length (`VerdictIsAnchored`, which has no run of its own, says that the verdict is that of
`VerifyChain`).  The invariant says of a loop that runs how far it has come: what is
read are the certificates up to the position, none of whose serial numbers repeats, and
no link below the position was accepted or threw.  Each action has a lemma of its own.
From it follow

- `LoopsAreOneStep`: the loops are the one step of `CasConnection` (`HandlersAreOneStep`),
  so that whatever is proved of the modules above it holds of the handlers as they run.
- `LoopsCountDown`: a measure of what is left of both loops (`Left`) is at most twice the
  number of certificates presented, and two, and falls with every iteration, also where a
  root is its own issuer.  It is the safety part of `Terminates`, with a bound.
- `LeafInTimeBelowAnchors`: the disagreement that the run `chain_leaf` shows takes an
  anchor at the third place of a chain or above; without one, nobody is authorized outside
  the validity of the client's own certificate.

**`CasDataAdaptationProofs`, on `CasTrustAnchors`.**  `TypeCorrect`, `DamageStaysLocal`,
`TrustComesFromFiles`, `LayersDiffer` and `ListenerDiffers`, for every list of files and
every text.
`DamageStaysLocal` needs what `NormalisePem` does to a text with one labelled
certificate: it is cut to those labels or keeps nothing else that decodes.  The others
speak of the joined text of all files.  Its parts are followed to their places in it
(`JoinedText`) by a least-number argument over the number of files, with the function
that `FlattenSeq` chooses as a witness, so no induction theorem is needed; a certificate
of the joined text is then one of a part.  The invariant is `AnchorsAreRead`: each
layer's anchors are the function of the files, as that layer has seen them, that reading
computes, whatever is replaced, closed and started again since.  `LayersDiffer` and
`ListenerDiffers` name every reason for the two layers to trust different certificates:
a replaced file; for the chain check a certificate without labels around it (`BareOrLabelled`,
where the exchange in `substring` is followed) or a block that Node cannot read; for the
listener a further block of a bundle, or the label of a cut file beside the certificate
of the next.  `AcceptedByFiles` ties the files to the verdicts: it takes `CertChain`
twice, with the anchors of either layer for its constant `Anchors`, and shows that
whoever is accepted presented a certificate that is in a file as that layer read it, and
that the other layer trusts it too except for those reasons.  A certificate goes by its
digest in
`CertChain` and by itself in `CasTrustAnchors`; the theorem takes the two as one.

**`CasDataAdaptationProofs`, on `CasCertFields`.**  `FieldsTypeCorrect`, `ClaimsByScope`,
`StoredAsAWhole`, `IdentifiersDiffer` and `KeyUsageRead`, for certificates with any names, any list of
extensions and identifiers of any length.  The invariant `FieldsInv` follows the loop:
what is kept when the extension `next` is to be read is, of every known kind among those
before it, the last, and all of them could be read (`KeptOf`, kept by each iteration:
`KeptOneMore`); what the request has and the store holds is what the loop leaves at its
end; and the last claims were made from it.  `StoredAsAWhole` is what `KeptOf` says there.
The rest is what the operators compute: the first value of an attribute exists
(`Extremes`), and hex text of bytes from 16 on has its digits
in pairs that give the bytes back (`JoinedPairs`, `HexDecodes`).  `KeyUsageRead` states
`OneOctetRead`: an octet with given bits exists (`OctetExists`), its shifts add up
(`Shifting`, over the nine powers of two that occur), and so each usage is read where DER
has put it, whatever the number of unused bits (`UsageRead`).  `IdentifiersTold` speaks
of certificates with one identifier of each kind, as X.509 has them: of several only the
last is kept.

**`CasInteractionsProofs`.**  `TypeInvariant`, and by one inductive invariant
`IInv` every safety invariant of the run `interactions`, and one more: `AuthorizedIsAccepted`,
`LoginsAreOwn`, `AccountsAreKnown`, `CertsAreAccepted`, `ConsentNeverLogsOut`,
`RepliesOnce`.  The invariants are not inductive on their own; the strengthening
adds

- `OpenMatchesStage`: an open interaction is the one its flow waits for and a
  closed one holds nothing.  Without it the provider could open or finish a prompt
  of a flow that is elsewhere.
- `ConsentFollowsLogin`: the consent prompt's last submission names the account.
  Without it a merge would not carry the login over.
- `SubmissionShape`: what waits in `finish` is a refusal, a login on a login prompt
  or a merged consent on a consent prompt.  Without it a submission could be
  anything by the time it is stored.

The steps are first reduced to what they do to sockets (`SocketEffects`), to
waiting submissions (`SubmissionEffects`), to the certificate store
(`CertsEffects`) and to interactions (`OpEffects`, `SaveEffects` and one lemma per
step of the provider); each invariant then follows from the effects that can
disturb it.  The four invariants on interactions are proved together, flow by flow
(`SafeFlow`).

In the same module, `SignOnIsKept`: `CasInteractions` implements `SignOn` under the
mapping of `Contract`.  It rests on `IInv` and on `SavedShape` (no consent is saved on a
login prompt and no refusal is carried over to the consent prompt), without which a
result could not be told from the decision it stands for.  Each step is a step of the
contract or a stutter: handshakes and time may accept more clients, `Login` makes one
known, `FinishSaves` decides, and what the provider does with a result is one move of
the flow.

`SignedOnIsVouched` joins the parts: a flow past the login is of a client whose chain
has a configured anchor that was in its validity at some instant up to now (`Vouched`).
It takes `AccountKnown`, `CertsAccepted` and what an acceptance is
(`AcceptedIsVouched`); the flag on the socket, the certificate store and the stored
result, which the handshake's verdict passes on its way, no longer occur in it.

**`CasTokensProofs`.**  `TypesCorrect`, `AnswersAreForAccepted`, `RefusalsAreFresh`,
`ListsAccepted`, `ClampedTokensDie`, `OwnersAreAccepted` and
`TokensAreVouched` (`SignedOnIsVouched` carried on to tokens and to what `/api/list`
names).  Every step is first shown to
be, for the interaction endpoints, one of their own or a check of one socket
(`BaseStep`), so that `IInv` carries over.  `ClampedTokensDieWithCert` is not inductive,
because it says nothing of a token that is dead; `TokenLifetime` adds that a token's end
is not after its certificate's or has passed already.  `SignOnBesideApi`: the contract of
`SignOn` is kept beside the API and the tokens too, by the same reduction to `BaseStep`.

**`CasBrowserProofs`.**  `TabsAreSomewhere`, `OnlyByTheUser`, `SigningOutWorks`,
`ViewsOfferToGoOn`, `SignOnBehindViews` and `SignedOnBehindViews`, for any number of tabs,
sockets and certificates, with other requests, expiry and crashes in between.  `IInv` carries over to every step of a tab;
`BInv` adds how a press of a button gets to what is stored:

- `RequestIsUsers`: a tab's request asks for a login or a consent only after the button
  (or where that step is transparent), the tab waits for it and for nothing else, and
  what it may be told cannot send it to an endpoint the user did not ask for (`Told`).
- `FlowIsUsers`: the same of what is saved in either interaction of the flow, of what was
  last submitted, and of what came of it.

Without the first, `ByTheUser` could be broken by a submission already under way; without
the second, by one already stored.  `SigningOutWorks` is proved for a logout toggle that
is not `true`; for `true` the run `browser_logout` shows it to be wrong.
`ViewsOfferToGoOn` is one step of what `GetsThrough` promises, under every configuration.

`SignOnBehindViews` states what becomes of the contract of `SignOn` (`SignOnAndOut`): every
step of the browser is a step of the contract, a stutter, or a granted flow that is signed
out of, which is the one move the contract does not have; without that move it would be
false.

**`CasOidcCacheDbProofs`.**  `IInv` adds to the types `IndexInSync` (an index entry
has the age of the payload it leads to) and `GrantListed` (the list of a grant has
every entry under it, stale or not); neither `LookupsAgree` nor `GrantComplete` is
inductive, because they speak of what is found now and an entry that is stale is
not.  From it follow `GrantsComplete`, `LookupsNeverDisagree` (whatever is under a grant is
listed, and all lookups agree; the runs check both as parts of the refinement),
`RevocationKills`, and
`Refinement`: the cache implements `OidcAdapter` under the mapping of `Adapter`, each
method to the operation of the same meaning and the passing of time to `Lapse`.  That
`found`, which is mapped to the code's lookups, stays what the adapter says is
`LookupsNeverDisagree`.  The
adapter has the clock and, per artifact, the time it is due: that nothing lapses
early or late, whatever is pushed to the same cache in between, is part of what the
refinement says.

**`CasServerProofs`.**  `TypeInvariant`, `WholeIsServed`, `OpenStaysTracked` and
`ResolvedTellsTruth`, for any number of sockets, starts and calls of `close`, by an
inductive invariant that adds to the types and to `OpenIsTracked`

- `BootOrder`: what is mounted at each stage of the boot, and that a process listens,
  or has an open socket, only when it is up.  `ServesWhole` speaks of open sockets
  only and says nothing of the steps by which the layers come to be mounted.
- `CallsAreOld`: a promise of `close` waits for listeners that have stopped for good.
  Without it a socket could be accepted on a listener whose close event was counted.
- `DrainedIsClosed`: a listener whose close event a promise has counted has no open
  socket.
- `SettledIsDrained`: a promise with its timer running, or resolved, has counted both
  close events.  With the one before, this is `ResolvedIsClosed`.

`ServerKeepsContract`: the server implements `ServerContract` under the mapping of
`Contract`.  It needs one more invariant, `TimedRan`: a promise whose timer runs, or
that is resolved, was made of listeners that ran; without it a promise could be kept that
no start belongs to.  A forced close is the step of the contract that
leaves nobody because of `OpenIsTracked`: the sockets it destroys are all that are open,
those of older starts included.  The close event of a listener is a stutter, or breaks at
once every promise that waits for it in vain.

**`ClientConnectorProofs`.**  `TypeCorrect` and `ShownStaysTrue`, for any number of
windows, users and requests.  `ShownIsTrue` follows what becomes of a request:

- `OutstandingOnce`: it leaves in one window at most, and while it is on its way it has
  neither a code nor a response.  Without it two windows could get responses to one
  request.
- `ResponsesAreEarned`: a response says what the provider decided.
- `PagesComeFrom`: a window with the application is at the location of a response, and
  one at the provider shows nothing.
- `TakenOnce`: one window at most has taken a request out of the storage to redeem its
  code.  `ShownIsTrue` says so of windows that have finished, not of two that wait for
  the exchange.

**Only model-checked**: the liveness properties `Terminates`, `ForcedCloseSettles`,
`FlowEnds`, `GetsThrough` and `ServerStateShown`, since fairness is out of the prover's reach.  Of
`Terminates`, the measure and its bound are proved (`LoopsCountDown`).

## Not modelled

- `CasDbDDB` is a stub.  Routing (`CasRouter`, `CasHandler`) and logging carry no
  state; the routes are in the guards of the endpoints.
- The DOM and the text of forms: what `getFormValue` finds in the provider's logout form is
  its token (`PathUtils.ts:26` takes the first `value` anywhere in the text).
- The utilities on paths and queries are text functions; where they matter, their
  results are members of a small set (`Target`, `WhoamiPath`).
- Of the certificate fields, serial numbers and digests, which are opaque, and the
  decoding of ASN.1.
- The layout of the views, what the example application renders and logs, its launcher
  (`src/example/src/app.ts`, a configuration), and the key set and the error page of the
  provider.
- TLS and the OIDC protocol messages are libraries.
- Memory: the storage is unbounded, and no document bounds it.

## Plan

Built so far, in this order: `CertChain` and `CasChainHandlers`; `CasConnection`,
`CasInteractions`; `CasApi`, `CasTokens`; `OidcAdapter`, `CasOidcCacheDb`; the
proofs of the chain, the interactions and the storage; `CasServer`, `CasBrowser`,
`CasCertFields`; the proofs of the server's boot and close; `SignOn` with its refinement;
`CasTrustAnchors`; `CasCommonAdaptor`; the proofs of the tokens, the API and the loops;
`ClientConnector`; the proofs of the trusted files, of what is kept of a certificate, of
the views and of the example application; `ServerContract`, and the proofs that join the
parts: the loops to the one step, the files to the verdicts, and a token to the anchor
that vouches for its owner.

Next:

1. Two tabs in one browser under `FlowEnds` and `GetsThrough`, and the API beside them.
2. The measure of a flow between a press of a button and its end, which would leave of
   `FlowEnds` only the fairness to TLC.
