--------------------------- MODULE CasBrowserProofs ---------------------------
(***************************************************************************)
(* The user's side of the interactions, for every set of tabs, sockets and *)
(* peers and every configuration of the transparent flows.  Nothing here   *)
(* depends on fairness.                                                    *)
(***************************************************************************)
EXTENDS CasBrowser, CasInteractionsProofs

\* The two steps that are the user's, unless they are transparent.
SignsIn(t) == TransparentSignin \/ "signin" \in pressed[t]
Consents(t) == TransparentConsent \/ "consent" \in pressed[t]

\* What a tab may be told: the endpoint continue is nowhere linked to, and only
\* a transparent flow sends a tab on to the endpoint that ends it.
Told == Replies \ ({"ok"}
                   \cup (IF TransparentSignin THEN {} ELSE {"loginStep"})
                   \cup (IF TransparentConsent THEN {} ELSE {"confirmStep"}))

\* A tab has one request under way, which it waits for, and which asks for a
\* login or a consent only if the user did.
RequestIsUsers(t) ==
    /\ pc[t] \in InFlight =>
          /\ at[t] = "waiting"
          /\ ctx[t].uid \in {<<t, "login">>, <<t, "consent">>}
          /\ ctx[t].endpoint = "login" => SignsIn(t)
          /\ ctx[t].endpoint = "confirm" => Consents(t)
    /\ pc[t] = "finish" =>
          /\ sub[t].result.login # NoAccount => SignsIn(t)
          /\ sub[t].result.consent => Consents(t)
    /\ replies[t] \in Seq(Told)
    /\ at[t] = "login" => SignsIn(t)
    /\ at[t] = "confirm" => Consents(t)

\* What was saved for a flow, and what became of it, is what the user asked for.
ResultIsUsers(t, result) ==
    /\ result.login # NoAccount => SignsIn(t)
    /\ result.consent => Consents(t)
FlowIsUsers(t) ==
    /\ \A step \in Prompts :
          /\ ResultIsUsers(t, interaction[<<t, step>>].result)
          /\ ResultIsUsers(t, interaction[<<t, step>>].lastSubmission)
    /\ account[t] # NoAccount => SignsIn(t)
    /\ stage[t] = "granted" => Consents(t)

\* The inductive invariant: that of the endpoints, and what links the buttons of
\* a tab to its request, and its request to its flow.
BInv == /\ TypeOK
        /\ IInv
        /\ BrowserTypeOK
        /\ \A t \in Tabs : RequestIsUsers(t) /\ FlowIsUsers(t)

-----------------------------------------------------------------------------
\* The endpoints below the browser.

\* The form that ends a session leaves the endpoints as they were: the flow is
\* granted, and has no interaction open.
LEMMA SubmitKeeps ==
    ASSUME TypeOK, IInv, NEW t \in Tabs, SubmitForm(t)
    PROVE  TypeOK' /\ IInv'
<1> USE BrowserAssumption
<1>1. /\ UNCHANGED <<now, peer, authorized, pc, ctx, sub, replies, interaction, certs>>
  BY DEF SubmitForm, connVars, sockets, reqVars
<1>2. /\ stage' = stage \/ (stage[t] = "granted"
                            /\ stage' = [stage EXCEPT ![t] = "none"])
      /\ account' = account \/ account' = [account EXCEPT ![t] = NoAccount]
      /\ stage' = stage => account' = account
  <2>1. CASE stage[t] = "granted"
    <3>1. /\ stage' = [stage EXCEPT ![t] = "none"]
          /\ account' = account \/ account' = [account EXCEPT ![t] = NoAccount]
      BY <2>1 DEF SubmitForm, TypeOK
    <3>2. stage' # stage
      BY <2>1, <3>1 DEF TypeOK
    <3> QED
      BY <2>1, <3>1, <3>2
  <2>2. CASE stage[t] # "granted"
    BY <2>2 DEF SubmitForm
  <2> QED
    BY <2>1, <2>2
<1>3. TypeOK'
  BY <1>1, <1>2 DEF TypeOK, ConnTypeOK, Accounts
<1>4. \A step \in Prompts : stage[t] = "granted" =>
          interaction[<<t, step>>] = NoInteraction
  BY DEF IInv, OpenMatchesStage, Prompts
<1>5. ~NoInteraction.open /\ ~NoInteraction.result.consent
  BY ResultParts
<1>6. OpenMatchesStage'
  BY <1>1, <1>2, <1>4, <1>5 DEF IInv, OpenMatchesStage, TypeOK, Prompts
<1>7. ConsentFollowsLogin' /\ ConsentKeepsLogin'
  <2>1. \A f \in Flows : \/ account'[f] = account[f]
                         \/ interaction[<<f, "consent">>] = NoInteraction
    BY <1>2, <1>4 DEF TypeOK, Prompts
  <2> QED
    BY <1>1, <1>5, <2>1 DEF IInv, ConsentFollowsLogin, ConsentKeepsLogin
<1>8. AccountKnown'
  BY <1>1, <1>2 DEF IInv, AccountKnown, TypeOK
<1>9. SubmissionShape' /\ LoginIsOwn' /\ OneReply'
  BY <1>1 DEF IInv, SubmissionShape, LoginIsOwn, OneReply
<1>10. AuthorizedWasAccepted' /\ CertsAccepted'
  BY <1>1 DEF IInv, AuthorizedWasAccepted, CertsAccepted, WasAccepted
<1> QED
  BY <1>3, <1>6, <1>7, <1>8, <1>9, <1>10 DEF IInv

\* Every other step is one of the endpoints or of their environment, or a view
\* that asks whoami.
LEMMA BrowserSteps ==
    ASSUME BrowserTypeOK, [BrowserNext]_browserVars
    PROVE  BaseStep \/ \E t \in Tabs : SubmitForm(t)
<1> USE BrowserAssumption
<1>1. ASSUME UNCHANGED vars PROVE BaseStep
  BY <1>1 DEF BaseStep
<1>2. CASE UNCHANGED browserVars
  BY <1>1, <1>2 DEF browserVars
<1>3. CASE Crash
  BY <1>3 DEF Crash, BaseStep, Next, Environment
<1>4. CASE Elsewhere
  BY <1>4 DEF Elsewhere, BaseStep, Next, Environment, Provider
<1>5. ASSUME NEW t \in Tabs, Tab(t)
      PROVE  BaseStep \/ SubmitForm(t)
  <2>1. t \in Reqs /\ t \in Flows /\ prompt[t] \in Prompts /\ <<t, prompt[t]>> \in Uids
    BY FlowUids DEF BrowserTypeOK
  <2>2. CASE SignOn(t)
    BY <2>1, <2>2 DEF SignOn, BaseStep, Next, Provider
  <2>3. CASE Send(t)
    <3>1. Arrive(t)
      BY <2>1, <2>3 DEF Send, Arrive
    <3> QED
      BY <2>1, <3>1 DEF BaseStep, Next
  <2>4. CASE Receive(t) \/ SignOut(t) \/ CancelLogout(t)
    BY <1>1, <2>4 DEF Receive, SignOut, CancelLogout
  <2>5. CASE Resume(t)
    <3>1. \/ ResumeLogin(t) \/ ResumeConsent(t) \/ ResumeDenied(t, prompt[t])
          \/ UNCHANGED vars
      BY <2>5 DEF Resume
    <3> QED
      BY <1>1, <2>1, <3>1 DEF BaseStep, Next, Provider
  <2>6. CASE Mounted(t)
    BY <2>6 DEF Mounted, BaseStep, Checked
  <2>7. ASSUME NEW button \in Buttons, Press(t, button) PROVE BaseStep
    BY <1>1, <2>7 DEF Press
  <2>8. CASE SubmitForm(t)
    BY <2>8
  <2> QED
    BY <1>5, <2>2, <2>3, <2>4, <2>5, <2>6, <2>7, <2>8 DEF Tab
<1> QED
  BY <1>2, <1>3, <1>4, <1>5 DEF BrowserNext

\* The endpoints keep their invariant behind a browser.
LEMMA BelowStep ==
    ASSUME TypeOK, IInv, BrowserTypeOK, [BrowserNext]_browserVars
    PROVE  TypeOK' /\ IInv'
BY BrowserSteps, BaseInv, SubmitKeeps

-----------------------------------------------------------------------------
\* One tab.

\* Nothing of a tab's request changes.
SameRequest(t) == /\ pc'[t] = pc[t] /\ ctx'[t] = ctx[t]
                  /\ sub'[t] = sub[t] /\ replies'[t] = replies[t]
SamePage(t) == at'[t] = at[t] /\ pressed'[t] = pressed[t]
\* Nothing of its flow changes, or an interaction of it runs out.
SameFlow(t) == /\ \A step \in Prompts :
                     \/ interaction'[<<t, step>>] = interaction[<<t, step>>]
                     \/ interaction'[<<t, step>>] = NoInteraction
               /\ stage'[t] = stage[t] /\ account'[t] = account[t]

\* A tab that is left alone keeps its part of the invariant.
LEMMA TabKept ==
    ASSUME NEW t \in Tabs, RequestIsUsers(t), SameRequest(t), SamePage(t)
    PROVE  RequestIsUsers(t)'
BY DEF RequestIsUsers, SameRequest, SamePage, SignsIn, Consents

\* A button that was pressed stays pressed.
LEMMA FlowKept ==
    ASSUME NEW t \in Tabs, FlowIsUsers(t), SameFlow(t),
           pressed[t] \subseteq pressed'[t]
    PROVE  FlowIsUsers(t)'
<1>1. ResultIsUsers(t, NoInteraction.result)'
      /\ ResultIsUsers(t, NoInteraction.lastSubmission)'
  BY ResultParts DEF ResultIsUsers
<1>2. ASSUME NEW result, ResultIsUsers(t, result)
      PROVE  ResultIsUsers(t, result)'
  BY <1>2 DEF ResultIsUsers, SignsIn, Consents
<1> QED
  BY <1>1, <1>2 DEF FlowIsUsers, SameFlow, ResultIsUsers, SignsIn, Consents

\* A tab whose request is not under way may go where its buttons allow.
LEMMA TabMoves ==
    ASSUME NEW t \in Tabs, RequestIsUsers(t), SameRequest(t),
           pc[t] \notin InFlight,
           at'[t] = "login" => SignsIn(t)', at'[t] = "confirm" => Consents(t)'
    PROVE  RequestIsUsers(t)'
BY DEF RequestIsUsers, SameRequest, InFlight

\* The tab hears one more answer, and its request is through.
LEMMA TabHears ==
    ASSUME TypeOK, BrowserAssumption, NEW t \in Tabs, RequestIsUsers(t),
           NEW what \in Told, Reply(t, what), UNCHANGED tabVars
    PROVE  RequestIsUsers(t)'
<1>1. replies'[t] = Append(replies[t], what) /\ pc'[t] = "done"
  BY DEF Reply, TypeOK
<1>2. Append(replies[t], what) \in Seq(Told)
  <2>1. replies[t] \in Seq(Told)
    BY DEF RequestIsUsers
  <2> QED
    BY <2>1
<1> QED
  BY <1>1, <1>2 DEF RequestIsUsers, InFlight, tabVars, SignsIn, Consents

\* What may be told in any configuration.
LEMMA Tellable ==
    /\ {"loginPage", "consentPage", "returnTo", "forbidden", "errorPage",
        "serverError"} \subseteq Told
    /\ TransparentSignin => "loginStep" \in Told
    /\ TransparentConsent => "confirmStep" \in Told
    /\ Told \subseteq Replies
    /\ "ok" \notin Told
    /\ "loginStep" \in Told => TransparentSignin
    /\ "confirmStep" \in Told => TransparentConsent
BY DEF Told, Replies

\* A handler that decides on a result: what it decides the user asked for.
LEMMA TabSubmits ==
    ASSUME TypeOK, BrowserAssumption, NEW t \in Tabs, RequestIsUsers(t),
           pc[t] \in InFlight,
           NEW result, ResultIsUsers(t, result), NEW merge,
           Submit(t, result, merge), UNCHANGED tabVars
    PROVE  RequestIsUsers(t)'
<1>1. /\ pc'[t] = "finish" /\ ctx'[t] = ctx[t] /\ replies'[t] = replies[t]
      /\ sub'[t] = [result |-> result, merge |-> merge]
  BY DEF Submit, TypeOK
<1>2. sub'[t].result = result
  BY <1>1
<1> QED
  BY <1>1, <1>2 DEF RequestIsUsers, ResultIsUsers, InFlight, tabVars, SignsIn, Consents

\* The handler of a tab's request, step by step.
LEMMA HandleOwn ==
    ASSUME TypeOK, BrowserAssumption, NEW t \in Tabs,
           RequestIsUsers(t), FlowIsUsers(t), Handle(t), UNCHANGED tabVars
    PROVE  RequestIsUsers(t)' /\ FlowIsUsers(t)'
<1>0. t \in Reqs /\ t \in Flows
  BY BrowserAssumption
<1>1. pc[t] \in InFlight
  BY DEF Handle, LookupFinds, LookupFails, View, Login, LoginRefused, Confirm,
         ConfirmRefused, FinishSaves, FinishFails, Handling, InFlight
<1>2. ASSUME UNCHANGED opVars PROVE FlowIsUsers(t)'
  BY <1>2, FlowKept DEF opVars, SameFlow, tabVars
<1>3. CASE LookupFinds(t)
  <2>1. RequestIsUsers(t)'
    BY <1>0, <1>3 DEF LookupFinds, RequestIsUsers, InFlight, tabVars, SignsIn,
                      Consents, TypeOK
  <2> QED
    BY <1>2, <1>3, <2>1 DEF LookupFinds
<1>4. CASE LookupFails(t) \/ FinishFails(t)
  BY <1>2, <1>4, Tellable, TabHears DEF LookupFails, FinishFails
<1>5. CASE View(t)
  <2>1. PICK what \in Told : Reply(t, what)
    BY <1>5, Tellable DEF View
  <2> QED
    BY <1>2, <1>5, <2>1, TabHears DEF View
<1>6. CASE ConfirmRefused(t)
  BY <1>2, <1>6, Tellable, TabHears DEF ConfirmRefused
<1>7. CASE Login(t)
  <2>1. SignsIn(t)
    BY <1>1, <1>7 DEF Login, Handling, RequestIsUsers
  <2>2. \A sha : ResultIsUsers(t, LoginResult(sha))
    BY <2>1, ResultParts DEF ResultIsUsers
  <2>3. UNCHANGED opVars /\ \E sha : Submit(t, LoginResult(sha), FALSE)
    BY <1>7 DEF Login
  <2> QED
    BY <1>1, <1>2, <2>2, <2>3, TabSubmits
<1>8. CASE LoginRefused(t)
  <2>1. ResultIsUsers(t, AccessDenied)
    BY DEF ResultIsUsers, AccessDenied
  <2>2. UNCHANGED opVars /\ Submit(t, AccessDenied, FALSE)
    BY <1>8 DEF LoginRefused
  <2> QED
    BY <1>1, <1>2, <2>1, <2>2, TabSubmits
<1>9. CASE Confirm(t)
  <2>1. Consents(t)
    BY <1>1, <1>9 DEF Confirm, Handling, RequestIsUsers
  <2>2. ResultIsUsers(t, ConsentResult)
    BY <2>1 DEF ResultIsUsers, ConsentResult
  <2>3. UNCHANGED opVars /\ Submit(t, ConsentResult, TRUE)
    BY <1>9 DEF Confirm
  <2> QED
    BY <1>1, <1>2, <2>2, <2>3, TabSubmits
<1>10. CASE FinishSaves(t)
  <2>1. RequestIsUsers(t)'
    BY <1>10, Tellable, TabHears DEF FinishSaves
  <2>2. pc[t] = "finish" /\ UNCHANGED <<stage, account>>
    BY <1>10 DEF FinishSaves
  <2>3. PICK step \in Prompts : ctx[t].uid = <<t, step>>
    BY <1>1 DEF RequestIsUsers, Prompts
  <2>4. Finished(t) \in Results
    BY <1>0, <2>2, FinishedType
  <2>5. /\ \A uid \in Uids \ {<<t, step>>} : interaction'[uid] = interaction[uid]
        /\ interaction'[<<t, step>>].result = Finished(t)
        /\ interaction'[<<t, step>>].lastSubmission =
              interaction[<<t, step>>].lastSubmission
    <3> DEFINE i == interaction[<<t, step>>]
    <3>1. interaction' = [interaction EXCEPT ![Uid(t)].result = Finished(t)]
          /\ Uid(t) = <<t, step>>
      BY <1>10, <2>3 DEF FinishSaves, Uid
    <3>2. /\ \A uid \in Uids \ {<<t, step>>} :
                interaction'[uid] = interaction[uid]
          /\ interaction'[<<t, step>>] = [open |-> i.open,
                                            result |-> Finished(t),
                                            lastSubmission |-> i.lastSubmission]
      BY <1>0, <2>2, <2>3, <2>4, <3>1, SavedType
    <3> HIDE DEF i
    <3>3. /\ interaction'[<<t, step>>].result = Finished(t)
          /\ interaction'[<<t, step>>].lastSubmission = i.lastSubmission
      BY <3>2
    <3> QED
      BY <3>2, <3>3 DEF i
  <2>6. ResultIsUsers(t, Finished(t))
    <3>1. ResultIsUsers(t, sub[t].result)
      BY <2>2 DEF RequestIsUsers, ResultIsUsers
    <3>2. ResultIsUsers(t, Details(t).lastSubmission)
      BY <2>3 DEF FlowIsUsers, Details
    <3>3. \A last, new : ResultIsUsers(t, last) /\ ResultIsUsers(t, new) =>
                             ResultIsUsers(t, Overlay(last, new))
      BY DEF ResultIsUsers, Overlay
    <3> QED
      BY <3>1, <3>2, <3>3 DEF Finished
  <2>7. ASSUME NEW other \in Prompts
        PROVE  /\ ResultIsUsers(t, interaction'[<<t, other>>].result)
               /\ ResultIsUsers(t, interaction'[<<t, other>>].lastSubmission)
    <3>1. CASE other = step
      BY <2>5, <2>6, <3>1 DEF FlowIsUsers
    <3>2. CASE other # step
      <4>1. <<t, other>> \in Uids \ {<<t, step>>}
        BY <1>0, <3>2, FlowUids
      <4> QED
        BY <2>5, <4>1 DEF FlowIsUsers
    <3> QED
      BY <3>1, <3>2
  <2>8. FlowIsUsers(t)'
    BY <2>2, <2>7 DEF FlowIsUsers, ResultIsUsers, SignsIn, Consents, tabVars
  <2> QED
    BY <2>1, <2>8
<1> QED
  BY <1>3, <1>4, <1>5, <1>6, <1>7, <1>8, <1>9, <1>10 DEF Handle

-----------------------------------------------------------------------------
\* Two tabs.

\* Where a step changes the request, the page and the flow of one tab only.
OnlyOf(s) == \A t \in Tabs \ {s} : SameRequest(t) /\ SamePage(t) /\ SameFlow(t)

\* A slot is that of its tab.
LEMMA SlotSteps ==
    ASSUME TypeOK, NEW s \in Tabs, NEW t \in Tabs, t # s, RequestIsUsers(s),
           Reqs = Tabs, Flows = Tabs, Handle(s)
    PROVE  SameRequest(t) /\ SameFlow(t)
<1>1. SameRequest(t)
  BY DEF Handle, LookupFinds, LookupFails, View, Login, LoginRefused, Confirm,
         ConfirmRefused, FinishSaves, FinishFails, Reply, Submit, SameRequest,
         TypeOK
<1>2. CASE ~FinishSaves(s)
  <2>1. UNCHANGED opVars
    BY <1>2 DEF Handle, LookupFinds, LookupFails, View, Login, LoginRefused,
                Confirm, ConfirmRefused, FinishFails
  <2> QED
    BY <1>1, <2>1 DEF opVars, SameFlow
<1>3. CASE FinishSaves(s)
  <2>1. Uid(s) \in {<<s, "login">>, <<s, "consent">>}
    BY <1>3 DEF FinishSaves, RequestIsUsers, InFlight, Uid
  <2>2. /\ interaction' = [interaction EXCEPT ![Uid(s)].result = Finished(s)]
        /\ UNCHANGED <<stage, account>>
    BY <1>3 DEF FinishSaves
  <2>3. \A step \in Prompts : <<t, step>> \in Uids /\ <<t, step>> # Uid(s)
    BY <2>1, FlowUids
  <2>4. \A step \in Prompts :
            interaction'[<<t, step>>] = interaction[<<t, step>>]
    BY <2>2, <2>3 DEF TypeOK
  <2> QED
    BY <1>1, <2>2, <2>4 DEF SameFlow
<1> QED
  BY <1>2, <1>3

\* A flow is that of its tab.
LEMMA FlowSteps ==
    ASSUME TypeOK, NEW s \in Tabs, NEW t \in Tabs, t # s,
           Reqs = Tabs, Flows = Tabs, NEW step \in Prompts,
           \/ Authorize(s) \/ ResumeLogin(s) \/ ResumeConsent(s)
           \/ ResumeDenied(s, step)
    PROVE  SameRequest(t) /\ SameFlow(t)
<1>1. SameRequest(t)
  BY DEF Authorize, ResumeLogin, ResumeConsent, ResumeDenied, reqVars, SameRequest
<1>2. stage'[t] = stage[t] /\ account'[t] = account[t]
  BY DEF Authorize, ResumeLogin, ResumeConsent, ResumeDenied, TypeOK
<1>3. \A uid \in Uids \ {<<s, "login">>, <<s, "consent">>} :
          interaction'[uid] = interaction[uid]
  <2>1. CASE Authorize(s)
    BY <2>1, AuthorizeEffects
  <2>2. CASE ResumeLogin(s)
    BY <2>2, LoginEffects
  <2>3. CASE ResumeConsent(s)
    BY <2>3, ConsentEffects
  <2>4. CASE ResumeDenied(s, step)
    <3>1. \A uid \in Uids \ {<<s, step>>} : interaction'[uid] = interaction[uid]
      BY <2>4, DeniedEffects
    <3>2. <<s, step>> \in {<<s, "login">>, <<s, "consent">>}
      BY DEF Prompts
    <3> QED
      BY <3>1, <3>2
  <2> QED
    BY <2>1, <2>2, <2>3, <2>4
<1>4. \A other \in Prompts :
          interaction'[<<t, other>>] = interaction[<<t, other>>]
  BY <1>3, OtherUids DEF Prompts
<1> QED
  BY <1>1, <1>2, <1>4 DEF SameFlow

\* What a tab does is its own.
LEMMA TabIsLocal ==
    ASSUME TypeOK, BrowserTypeOK, NEW s \in Tabs, Tab(s)
    PROVE  OnlyOf(s)
<1> USE BrowserAssumption
<1> SUFFICES ASSUME NEW t \in Tabs, t # s
             PROVE  SameRequest(t) /\ SamePage(t) /\ SameFlow(t)
  BY DEF OnlyOf
<1>1. SamePage(t)
  BY DEF Tab, SignOn, Send, Receive, Resume, Mounted, Press, SignOut, SubmitForm,
         CancelLogout, Goto, SamePage, BrowserTypeOK
<1>2. ASSUME UNCHANGED vars PROVE SameRequest(t) /\ SameFlow(t)
  BY <1>2 DEF vars, reqVars, opVars, SameRequest, SameFlow
<1>3. prompt[s] \in Prompts /\ "login" \in Prompts
  BY DEF BrowserTypeOK, Prompts
<1>4. CASE SignOn(s)
  BY <1>1, <1>3, <1>4, FlowSteps DEF SignOn
<1>5. CASE Send(s)
  BY <1>1, <1>5 DEF Send, ArriveFails, ArriveLookup, ArriveAbort, Answer, Enter,
                    opVars, SameRequest, SameFlow, TypeOK
<1>6. CASE Resume(s)
  BY <1>1, <1>2, <1>3, <1>6, FlowSteps DEF Resume
<1>7. CASE Mounted(s)
  BY <1>1, <1>7 DEF Mounted, reqVars, opVars, SameRequest, SameFlow
<1>8. CASE SubmitForm(s)
  BY <1>1, <1>8 DEF SubmitForm, reqVars, SameRequest, SameFlow, TypeOK
<1>9. CASE UNCHANGED vars
  BY <1>1, <1>2, <1>9
<1> QED
  BY <1>4, <1>5, <1>6, <1>7, <1>8, <1>9
     DEF Tab, Receive, Press, SignOut, CancelLogout

-----------------------------------------------------------------------------
\* The steps of a tab.

\* A flow begins with nothing that was asked for before.
LEMMA SignOnStep ==
    ASSUME TypeOK, IInv, BrowserTypeOK, NEW t \in Tabs,
           RequestIsUsers(t), FlowIsUsers(t), SignOn(t)
    PROVE  RequestIsUsers(t)' /\ FlowIsUsers(t)'
<1> USE BrowserAssumption
<1>1. /\ at[t] # "waiting" /\ account[t] = NoAccount
      /\ at'[t] = "view" /\ SameRequest(t) /\ Authorize(t)
  BY DEF SignOn, Goto, BrowserTypeOK, Authorize, reqVars, SameRequest
<1>2. RequestIsUsers(t)'
  <2>1. pc[t] \notin InFlight
    BY <1>1 DEF RequestIsUsers
  <2> QED
    BY <1>1, <2>1, TabMoves
<1>3. /\ stage[t] = "none" /\ stage'[t] = "login" /\ account'[t] = NoAccount
      /\ interaction'[<<t, "login">>] = OpenInteraction(NoResult)
      /\ interaction'[<<t, "consent">>] = interaction[<<t, "consent">>]
  <2>1. <<t, "consent">> \in Uids \ {<<t, "login">>}
    BY FlowUids
  <2> QED
    BY <1>1, <2>1, AuthorizeEffects DEF TypeOK
<1>4. interaction[<<t, "consent">>] = NoInteraction
  BY <1>3 DEF IInv, OpenMatchesStage, Prompts
<1>5. /\ OpenInteraction(NoResult).result = NoResult
      /\ OpenInteraction(NoResult).lastSubmission = NoResult
      /\ NoInteraction.result = NoResult /\ NoInteraction.lastSubmission = NoResult
      /\ NoResult.login = NoAccount /\ ~NoResult.consent
  BY ResultParts
<1> QED
  BY <1>2, <1>3, <1>4, <1>5 DEF FlowIsUsers, ResultIsUsers, Prompts

\* A request asks for what the tab was sent to.
LEMMA SendStep ==
    ASSUME TypeOK, BrowserTypeOK, NEW t \in Tabs,
           RequestIsUsers(t), FlowIsUsers(t), Send(t)
    PROVE  RequestIsUsers(t)' /\ FlowIsUsers(t)'
<1> USE BrowserAssumption
<1>1. /\ at'[t] = "waiting" /\ pressed' = pressed /\ UNCHANGED opVars
      /\ at[t] \in Endpoints
  BY DEF Send, Goto, BrowserTypeOK, ArriveFails, ArriveLookup, ArriveAbort,
         Answer, Enter
<1>2. FlowIsUsers(t)'
  BY <1>1, FlowKept DEF opVars, SameFlow
<1>3. pc[t] \notin InFlight
  BY <1>1 DEF RequestIsUsers, Endpoints
<1>4. SignsIn(t)' = SignsIn(t) /\ Consents(t)' = Consents(t)
  BY <1>1 DEF SignsIn, Consents
<1>5. ASSUME NEW c \in Conns, ArriveFails(t, c) PROVE RequestIsUsers(t)'
  <2>1. replies'[t] = <<"serverError">> /\ pc'[t] = "done"
    BY <1>5 DEF ArriveFails, Answer, TypeOK
  <2>2. <<"serverError">> \in Seq(Told)
    BY Tellable
  <2> QED
    BY <1>1, <2>1, <2>2 DEF RequestIsUsers, InFlight
<1>6. prompt[t] \in {"login", "consent"}
  BY DEF BrowserTypeOK, Prompts
<1>7. ASSUME NEW c \in Conns, ArriveLookup(t, c, <<t, prompt[t]>>),
             ctx'[t].endpoint = at[t]
      PROVE  RequestIsUsers(t)'
  <2>1. /\ pc'[t] = "lookup" /\ replies'[t] = <<>>
        /\ ctx'[t].uid = <<t, prompt[t]>>
    BY <1>7 DEF ArriveLookup, Enter, TypeOK
  <2> QED
    BY <1>1, <1>4, <1>6, <1>7, <2>1 DEF RequestIsUsers
<1>8. ASSUME NEW c \in Conns, ArriveAbort(t, c, <<t, prompt[t]>>)
      PROVE  RequestIsUsers(t)'
  <2>1. /\ pc'[t] = "finish" /\ replies'[t] = <<>>
        /\ ctx'[t].uid = <<t, prompt[t]>> /\ ctx'[t].endpoint = "abort"
        /\ sub'[t] = [result |-> AccessDenied, merge |-> FALSE]
    BY <1>8 DEF ArriveAbort, Enter, TypeOK
  <2>2. sub'[t].result = AccessDenied
    BY <2>1
  <2>3. AccessDenied.login = NoAccount /\ ~AccessDenied.consent
    BY DEF AccessDenied
  <2> QED
    BY <1>1, <1>6, <2>1, <2>2, <2>3 DEF RequestIsUsers
<1> QED
  BY <1>2, <1>5, <1>7, <1>8 DEF Send

\* The answer of a tab that waits for one.
LEMMA AnswerHeard ==
    ASSUME TypeOK, IInv, NEW t \in Tabs, RequestIsUsers(t), Receive(t)
    PROVE  replies[t][1] \in Told
<1>1. pc[t] = "done" /\ t \in Reqs
  BY BrowserAssumption DEF Receive
<1>2. Len(replies[t]) = 1 /\ replies[t] \in Seq(Told)
  BY <1>1 DEF IInv, OneReply, RequestIsUsers
<1> QED
  BY <1>2

\* Only a transparent flow leads on to the endpoint that ends it.
LEMMA ReceiveStep ==
    ASSUME TypeOK, IInv, BrowserTypeOK, NEW t \in Tabs,
           RequestIsUsers(t), FlowIsUsers(t), Receive(t)
    PROVE  RequestIsUsers(t)' /\ FlowIsUsers(t)'
<1>1. /\ SameRequest(t) /\ UNCHANGED opVars /\ pressed' = pressed
      /\ pc[t] = "done" /\ at'[t] = Target(replies[t][1])
  BY DEF Receive, Goto, BrowserTypeOK, vars, reqVars, opVars, SameRequest
<1>2. FlowIsUsers(t)'
  BY <1>1, FlowKept DEF opVars, SameFlow
<1>3. /\ at'[t] = "login" => TransparentSignin
      /\ at'[t] = "confirm" => TransparentConsent
  BY <1>1, AnswerHeard, Tellable DEF Target, Replies
<1>4. RequestIsUsers(t)'
  BY <1>1, <1>3, TabMoves DEF InFlight, SignsIn, Consents
<1> QED
  BY <1>2, <1>4

\* The provider acts on what was saved.
LEMMA ResumeStep ==
    ASSUME TypeOK, BrowserTypeOK, NEW t \in Tabs,
           RequestIsUsers(t), FlowIsUsers(t), Resume(t)
    PROVE  RequestIsUsers(t)' /\ FlowIsUsers(t)'
<1> USE BrowserAssumption
<1>1. /\ at[t] = "resume" /\ pressed' = pressed /\ SameRequest(t)
      /\ at'[t] \in {"view", "signedIn", "refused", "errorPage"}
  BY DEF Resume, Goto, BrowserTypeOK, ResumeLogin, ResumeConsent, ResumeDenied,
         vars, reqVars, SameRequest
<1>2. RequestIsUsers(t)'
  <2>1. pc[t] \notin InFlight
    BY <1>1 DEF RequestIsUsers
  <2> QED
    BY <1>1, <2>1, TabMoves
<1>3. prompt[t] \in Prompts /\ <<t, "login">> \in Uids /\ <<t, "consent">> \in Uids
  BY FlowUids DEF BrowserTypeOK
<1>4. /\ SignsIn(t)' = SignsIn(t) /\ Consents(t)' = Consents(t)
      /\ \A result : ResultIsUsers(t, result)' <=> ResultIsUsers(t, result)
  BY <1>1 DEF ResultIsUsers, SignsIn, Consents
<1>5. CASE ResumeLogin(t)
  <2> DEFINE res == interaction[<<t, "login">>].result
  <2>1. /\ account'[t] = res.login /\ stage'[t] = "consent"
        /\ res.login # NoAccount
        /\ interaction'[<<t, "login">>] = NoInteraction
        /\ interaction'[<<t, "consent">>] = OpenInteraction(res)
    BY <1>5, LoginEffects DEF TypeOK
  <2>2. ResultIsUsers(t, res)
    BY DEF FlowIsUsers, Prompts
  <2> HIDE DEF res
  <2>3. /\ NoInteraction.result = NoResult /\ NoInteraction.lastSubmission = NoResult
        /\ OpenInteraction(res).result = NoResult
        /\ OpenInteraction(res).lastSubmission = res
        /\ ResultIsUsers(t, NoResult)
    BY ResultParts DEF ResultIsUsers
  <2> QED
    BY <1>2, <1>4, <2>1, <2>2, <2>3 DEF FlowIsUsers, ResultIsUsers, Prompts
<1>6. CASE ResumeConsent(t)
  <2> DEFINE res == interaction[<<t, "consent">>].result
  <2>1. /\ account'[t] = IF res.login = NoAccount THEN account[t] ELSE res.login
        /\ stage'[t] = "granted" /\ res.consent
        /\ interaction'[<<t, "consent">>] = NoInteraction
        /\ interaction'[<<t, "login">>] = interaction[<<t, "login">>]
    <3>1. res.consent
      BY <1>6 DEF ResumeConsent
    <3>2. <<t, "login">> \in Uids \ {<<t, "consent">>}
      BY <1>3, FlowUids
    <3> QED
      BY <1>6, <3>1, <3>2, ConsentEffects DEF TypeOK
  <2>2. ResultIsUsers(t, res)
    BY DEF FlowIsUsers, Prompts
  <2> HIDE DEF res
  <2>3. /\ NoInteraction.result = NoResult /\ NoInteraction.lastSubmission = NoResult
        /\ ResultIsUsers(t, NoResult)
    BY ResultParts DEF ResultIsUsers
  <2> QED
    BY <1>2, <1>4, <2>1, <2>2, <2>3 DEF FlowIsUsers, ResultIsUsers, Prompts
<1>7. CASE ResumeDenied(t, prompt[t])
  <2>1. /\ account'[t] = account[t] /\ stage'[t] = "denied"
        /\ \A p \in Prompts : \/ interaction'[<<t, p>>] = interaction[<<t, p>>]
                              \/ interaction'[<<t, p>>] = NoInteraction
    <3> DEFINE asked == prompt[t]
    <3>1. asked \in Prompts /\ ResumeDenied(t, asked)
      BY <1>3, <1>7
    <3> HIDE DEF asked
    <3>2. /\ stage' = [stage EXCEPT ![t] = "denied"] /\ UNCHANGED account
          /\ interaction'[<<t, asked>>] = NoInteraction
          /\ \A uid \in Uids \ {<<t, asked>>} : interaction'[uid] = interaction[uid]
      BY <3>1, DeniedEffects
    <3>3. \A p \in Prompts : p = asked \/ <<t, p>> \in Uids \ {<<t, asked>>}
      BY FlowUids
    <3> QED
      BY <3>2, <3>3 DEF TypeOK
  <2>2. NoInteraction.result = NoResult /\ NoInteraction.lastSubmission = NoResult
        /\ ResultIsUsers(t, NoResult)
    BY ResultParts DEF ResultIsUsers
  <2> QED
    BY <1>2, <1>4, <2>1, <2>2 DEF FlowIsUsers, ResultIsUsers
<1>8. CASE UNCHANGED vars
  BY <1>1, <1>2, <1>8, FlowKept DEF vars, opVars, SameFlow
<1> QED
  BY <1>5, <1>6, <1>7, <1>8 DEF Resume

\* A button leads to the endpoint of its name, and stays pressed.
LEMMA PressStep ==
    ASSUME BrowserTypeOK, NEW t \in Tabs, NEW button \in Buttons,
           RequestIsUsers(t), FlowIsUsers(t), Press(t, button)
    PROVE  RequestIsUsers(t)' /\ FlowIsUsers(t)'
<1>1. at[t] \in {"loginPage", "consentPage"}
  BY DEF Press, Offered
<1>2. /\ pressed'[t] = pressed[t] \cup {button}
      /\ at'[t] = EndpointOf(button)
      /\ SameRequest(t) /\ UNCHANGED opVars
  BY DEF Press, Goto, BrowserTypeOK, vars, reqVars, opVars, SameRequest
<1>3. /\ at'[t] = "login" => button = "signin"
      /\ at'[t] = "confirm" => button = "consent"
  BY <1>2 DEF EndpointOf, Buttons
<1>4. FlowIsUsers(t)'
  BY <1>2, FlowKept DEF opVars, SameFlow
<1>5. pc[t] \notin InFlight
  BY <1>1 DEF RequestIsUsers
<1>6. RequestIsUsers(t)'
  BY <1>2, <1>3, <1>5, TabMoves DEF SignsIn, Consents
<1> QED
  BY <1>4, <1>6

\* Every step of a tab keeps its own part of the invariant.
LEMMA TabStep ==
    ASSUME TypeOK, IInv, BrowserTypeOK, NEW t \in Tabs,
           RequestIsUsers(t), FlowIsUsers(t), Tab(t)
    PROVE  RequestIsUsers(t)' /\ FlowIsUsers(t)'
<1> USE BrowserAssumption
<1>1. CASE Mounted(t)
  <2>1. SameRequest(t) /\ SamePage(t) /\ SameFlow(t)
    BY <1>1 DEF Mounted, reqVars, opVars, SameRequest, SamePage, SameFlow
  <2> QED
    BY <2>1, TabKept, FlowKept DEF SamePage
<1>2. CASE SignOut(t) \/ CancelLogout(t)
  <2>1. /\ at[t] # "waiting" /\ at'[t] \notin {"login", "confirm"}
        /\ SameRequest(t) /\ SameFlow(t) /\ pressed' = pressed
    BY <1>2 DEF SignOut, CancelLogout, Goto, BrowserTypeOK, vars, reqVars, opVars,
                SameRequest, SameFlow
  <2>2. pc[t] \notin InFlight
    BY <2>1 DEF RequestIsUsers
  <2> QED
    BY <2>1, <2>2, TabMoves, FlowKept
<1>3. CASE SubmitForm(t)
  <2>1. /\ at[t] # "waiting" /\ at'[t] \notin {"login", "confirm"}
        /\ SameRequest(t) /\ pressed' = pressed /\ interaction' = interaction
        /\ stage'[t] = stage[t] \/ stage'[t] = "none"
        /\ account'[t] = account[t] \/ account'[t] = NoAccount
    BY <1>3 DEF SubmitForm, Goto, BrowserTypeOK, reqVars, SameRequest, TypeOK
  <2>2. pc[t] \notin InFlight
    BY <2>1 DEF RequestIsUsers
  <2>3. FlowIsUsers(t)'
    BY <2>1 DEF FlowIsUsers, ResultIsUsers, SignsIn, Consents
  <2> QED
    BY <2>1, <2>2, <2>3, TabMoves
<1> QED
  BY <1>1, <1>2, <1>3, SignOnStep, SendStep, ReceiveStep, ResumeStep, PressStep
     DEF Tab

-----------------------------------------------------------------------------
\* All tabs.

\* Whoever acts, every tab keeps its part of the invariant.
LEMMA TabsStep ==
    ASSUME BInv, [BrowserNext]_browserVars, NEW t \in Tabs
    PROVE  RequestIsUsers(t)' /\ FlowIsUsers(t)'
<1> USE BrowserAssumption
<1> SUFFICES ASSUME TypeOK, IInv, BrowserTypeOK,
                    \A s \in Tabs : RequestIsUsers(s) /\ FlowIsUsers(s)
             PROVE  RequestIsUsers(t)' /\ FlowIsUsers(t)'
  BY DEF BInv
<1>1. ASSUME SameRequest(t), SamePage(t), SameFlow(t)
      PROVE  RequestIsUsers(t)' /\ FlowIsUsers(t)'
  BY <1>1, TabKept, FlowKept DEF SamePage
<1>2. CASE UNCHANGED browserVars
  BY <1>1, <1>2 DEF browserVars, tabVars, vars, reqVars, opVars, SameRequest,
                    SamePage, SameFlow
<1>3. ASSUME NEW s \in Tabs, Tab(s)
      PROVE  RequestIsUsers(t)' /\ FlowIsUsers(t)'
  <2>1. CASE s = t
    BY <1>3, <2>1, TabStep
  <2>2. CASE s # t
    BY <1>1, <1>3, <2>2, TabIsLocal DEF OnlyOf
  <2> QED
    BY <2>1, <2>2
<1>4. CASE Crash
  <2>1. /\ pc'[t] = "free" /\ replies'[t] = <<>> /\ pressed' = pressed
        /\ at'[t] \in {"reset", at[t]}
        /\ stage'[t] = "none" /\ account'[t] = NoAccount
        /\ \A step \in Prompts : interaction'[<<t, step>>] = NoInteraction
    BY <1>4, FlowUids DEF Crash, Restart
  <2>2. RequestIsUsers(t)'
    BY <2>1 DEF RequestIsUsers, InFlight, SignsIn, Consents
  <2>3. ResultIsUsers(t, NoInteraction.result)'
        /\ ResultIsUsers(t, NoInteraction.lastSubmission)'
    BY ResultParts DEF ResultIsUsers
  <2> QED
    BY <2>1, <2>2, <2>3 DEF FlowIsUsers, ResultIsUsers, SignsIn, Consents
<1>5. CASE Elsewhere
  <2>1. SamePage(t) /\ UNCHANGED tabVars
    BY <1>5 DEF Elsewhere, tabVars, SamePage
  <2>2. ASSUME NEW s \in Tabs, Handle(s)
        PROVE  RequestIsUsers(t)' /\ FlowIsUsers(t)'
    <3>1. CASE s = t
      BY <2>1, <2>2, <3>1, HandleOwn
    <3>2. CASE s # t
      BY <1>1, <2>1, <2>2, <3>2, SlotSteps
    <3> QED
      BY <3>1, <3>2
  <2>3. ASSUME NEW uid \in Uids, ExpireInteraction(uid)
        PROVE  RequestIsUsers(t)' /\ FlowIsUsers(t)'
    <3>1. SameRequest(t)
      BY <2>3 DEF ExpireInteraction, reqVars, SameRequest
    <3>2. SameFlow(t)
      BY <2>3, FlowUids, ExpireEffects DEF SameFlow
    <3> QED
      BY <1>1, <2>1, <3>1, <3>2
  <2>4. CASE UNCHANGED <<reqVars, opVars>>
    BY <1>1, <2>1, <2>4 DEF reqVars, opVars, SameRequest, SameFlow
  <2> QED
    BY <1>5, <2>2, <2>3, <2>4 DEF Elsewhere, Connect
<1> QED
  BY <1>2, <1>3, <1>4, <1>5 DEF BrowserNext

\* A tab is always somewhere, and what it was told leads somewhere.
LEMMA BrowserTypeStep ==
    ASSUME BInv, [BrowserNext]_browserVars
    PROVE  BrowserTypeOK'
<1> DEFINE Places == Pages \cup Endpoints \cup Ends
                     \cup {"waiting", "resume", "signedOut"}
<1> SUFFICES ASSUME TypeOK, IInv, BrowserTypeOK,
                    \A s \in Tabs : RequestIsUsers(s) /\ FlowIsUsers(s)
             PROVE  BrowserTypeOK'
  BY DEF BInv
<1>1. ASSUME UNCHANGED tabVars PROVE BrowserTypeOK'
  BY <1>1 DEF tabVars, BrowserTypeOK
<1>2. CASE UNCHANGED browserVars
  BY <1>1, <1>2 DEF browserVars
<1>3. CASE Crash
  BY <1>3 DEF Crash, BrowserTypeOK, Ends
<1>4. CASE Elsewhere
  BY <1>1, <1>4 DEF Elsewhere
<1>5. ASSUME NEW t \in Tabs, Tab(t)
      PROVE  BrowserTypeOK'
  <2>0. ASSUME NEW where \in Places, Goto(t, where)
        PROVE  at' \in [Tabs -> Places]
    BY <2>0 DEF Goto, BrowserTypeOK
  <2>1. {"view", "waiting", "signedIn", "refused", "errorPage", "logoutPage",
         "signedOut", "login", "confirm", "abort", "resume", "loginPage",
         "consentPage", "forbidden", "serverError"} \subseteq Places
    BY DEF Pages, Endpoints, Ends
  <2> HIDE DEF Places
  <2>2. CASE SignOn(t)
    <3>1. at' \in [Tabs -> Places]
      BY <2>0, <2>1, <2>2 DEF SignOn
    <3> QED
      BY <2>2, <3>1 DEF SignOn, BrowserTypeOK, Places, Prompts
  <2>3. CASE Send(t)
    <3>1. at' \in [Tabs -> Places]
      BY <2>0, <2>1, <2>3 DEF Send
    <3> QED
      BY <2>3, <3>1 DEF Send, BrowserTypeOK, Places
  <2>4. CASE Receive(t)
    <3>1. replies[t][1] \in Told
      BY <2>4, AnswerHeard
    <3>2. Target(replies[t][1]) \in Places
      BY <2>1, <3>1, Tellable DEF Target, Replies
    <3>3. at' \in [Tabs -> Places]
      BY <2>0, <2>4, <3>2 DEF Receive
    <3> QED
      BY <2>4, <3>3 DEF Receive, BrowserTypeOK, Places
  <2>5. CASE Resume(t)
    <3>1. at' \in [Tabs -> Places]
      BY <2>0, <2>1, <2>5 DEF Resume
    <3> QED
      BY <2>5, <3>1 DEF Resume, BrowserTypeOK, Places, Prompts
  <2>6. CASE Mounted(t)
    BY <2>6 DEF Mounted, BrowserTypeOK
  <2>7. ASSUME NEW button \in Buttons, Press(t, button) PROVE BrowserTypeOK'
    <3>1. EndpointOf(button) \in Places
      BY <2>1 DEF EndpointOf, Buttons
    <3>2. at' \in [Tabs -> Places]
      BY <2>0, <2>7, <3>1 DEF Press
    <3> QED
      BY <2>7, <3>2 DEF Press, BrowserTypeOK, Places
  <2>8. CASE SignOut(t) \/ CancelLogout(t)
    <3>1. at' \in [Tabs -> Places]
      BY <2>0, <2>1, <2>8 DEF SignOut, CancelLogout
    <3> QED
      BY <2>8, <3>1 DEF SignOut, CancelLogout, BrowserTypeOK, Places
  <2>9. CASE SubmitForm(t)
    <3>1. at' \in [Tabs -> Places]
      BY <2>0, <2>1, <2>9 DEF SubmitForm
    <3> QED
      BY <2>9, <3>1 DEF SubmitForm, BrowserTypeOK, Places
  <2> QED
    BY <1>5, <2>2, <2>3, <2>4, <2>5, <2>6, <2>7, <2>8, <2>9 DEF Tab
<1> QED
  BY <1>2, <1>3, <1>4, <1>5 DEF BrowserNext

\* The invariant holds at the start, and every step keeps it.
LEMMA BrowserInvariant == BrowserSpec => []BInv
<1>1. BrowserInit => BInv
  <2> SUFFICES ASSUME BrowserInit PROVE BInv
    OBVIOUS
  <2> USE BrowserAssumption
  <2>1. TypeOK /\ IInv
    BY TypeInit, IInvInit DEF BrowserInit
  <2>2. BrowserTypeOK
    BY DEF BrowserInit, BrowserTypeOK, Pages, Prompts
  <2>3. ASSUME NEW t \in Tabs PROVE RequestIsUsers(t)
    BY DEF BrowserInit, Init, RequestIsUsers, InFlight
  <2>4. ASSUME NEW t \in Tabs PROVE FlowIsUsers(t)
    <3>1. \A step \in Prompts : interaction[<<t, step>>] = NoInteraction
      BY FlowUids DEF BrowserInit, Init
    <3>2. account[t] = NoAccount /\ stage[t] = "none"
      BY DEF BrowserInit, Init
    <3> QED
      BY <3>1, <3>2, ResultParts DEF FlowIsUsers, ResultIsUsers
  <2> QED
    BY <2>1, <2>2, <2>3, <2>4 DEF BInv
<1>2. BInv /\ [BrowserNext]_browserVars => BInv'
  <2> SUFFICES ASSUME BInv, [BrowserNext]_browserVars PROVE BInv'
    OBVIOUS
  <2>1. TypeOK' /\ IInv'
    BY BelowStep DEF BInv
  <2>2. BrowserTypeOK' /\ \A t \in Tabs : RequestIsUsers(t)' /\ FlowIsUsers(t)'
    BY BrowserTypeStep, TabsStep
  <2> QED
    BY <2>1, <2>2 DEF BInv
<1> QED
  BY <1>1, <1>2, PTL DEF BrowserSpec

-----------------------------------------------------------------------------

\* A tab is on a page, at an endpoint or at an end, whatever the server answers
\* and whenever it crashes: no answer leads nowhere.
THEOREM TabsAreSomewhere == BrowserSpec => []BrowserTypeOK
<1>1. BInv => BrowserTypeOK
  BY DEF BInv
<1> QED
  BY <1>1, BrowserInvariant, PTL

\* Nobody is logged in and nothing is granted without the user's button, unless
\* the configuration makes that step transparent.
THEOREM OnlyByTheUser == BrowserSpec => []ByTheUser
<1>1. BInv => ByTheUser
  BY DEF BInv, FlowIsUsers, SignsIn, Consents, ByTheUser
<1> QED
  BY <1>1, BrowserInvariant, PTL

\* Whoever has signed out is logged out, unless the form is posted without its
\* button, which the toggle of the transparent logout does.
THEOREM SigningOutWorks ==
    ASSUME LogoutToggle # "true"
    PROVE  BrowserSpec => []SignedOutIsLoggedOut
<1>1. BrowserInit => SignedOutIsLoggedOut
  BY DEF BrowserInit, SignedOutIsLoggedOut
<1>2. BInv /\ SignedOutIsLoggedOut /\ [BrowserNext]_browserVars
         => SignedOutIsLoggedOut'
  <2> SUFFICES ASSUME BInv, SignedOutIsLoggedOut, [BrowserNext]_browserVars,
                      NEW t \in Tabs, at'[t] = "signedOut"
               PROVE  account'[t] = NoAccount
    BY DEF SignedOutIsLoggedOut
  <2> USE BrowserAssumption
  <2>0. TypeOK /\ BrowserTypeOK /\ IInv
    BY DEF BInv
  <2>1. ASSUME at[t] = "signedOut", account'[t] = account[t]
        PROVE  account'[t] = NoAccount
    BY <2>1 DEF SignedOutIsLoggedOut
  <2>2. CASE UNCHANGED browserVars
    BY <2>1, <2>2 DEF browserVars, tabVars, vars, opVars
  <2>3. CASE Crash
    BY <2>3 DEF Crash, Restart
  <2>4. CASE Elsewhere
    <3>1. at' = at /\ account' = account
      BY <2>4 DEF Elsewhere, tabVars, Handle, LookupFinds, LookupFails, View,
                  Login, LoginRefused, Confirm, ConfirmRefused, FinishSaves,
                  FinishFails, ExpireInteraction, Connect, opVars
    <3> QED
      BY <2>1, <3>1
  <2>5. ASSUME NEW s \in Tabs, Tab(s)
        PROVE  account'[t] = NoAccount
    <3>1. CASE s # t
      BY <2>0, <2>1, <2>5, <3>1, TabIsLocal DEF OnlyOf, SamePage, SameFlow
    <3>2. CASE s = t /\ SubmitForm(t)
      <4>1. "logout" \in FormFields
        BY DEF FormFields
      <4>2. stage[t] = "granted"
        BY <2>0, <3>2 DEF SubmitForm, Goto, BrowserTypeOK
      <4> QED
        BY <2>0, <3>2, <4>1, <4>2 DEF SubmitForm, TypeOK
    <3>3. CASE s = t /\ Mounted(t)
      BY <2>1, <3>3 DEF Mounted, opVars
    <3>4. CASE s = t /\ Receive(t)
      <4>1. replies[t][1] \in Told
        BY <3>4, <2>0, AnswerHeard DEF BInv
      <4>2. Target(replies[t][1]) # "signedOut"
        BY <4>1, Tellable DEF Target, Replies
      <4> QED
        BY <2>0, <3>4, <4>2 DEF Receive, Goto, BrowserTypeOK
    <3>5. ASSUME s = t, NEW button \in Buttons, Press(t, button)
          PROVE  account'[t] = NoAccount
      <4>1. EndpointOf(button) # "signedOut"
        BY DEF EndpointOf, Buttons
      <4> QED
        BY <2>0, <3>5, <4>1 DEF Press, Goto, BrowserTypeOK
    <3>6. CASE s = t /\ (SignOn(t) \/ Send(t) \/ Resume(t) \/ SignOut(t)
                            \/ CancelLogout(t))
      BY <2>0, <3>6 DEF SignOn, Send, Resume, SignOut, CancelLogout, Goto,
                        BrowserTypeOK
    <3> QED
      BY <2>5, <3>1, <3>2, <3>3, <3>4, <3>5, <3>6 DEF Tab
  <2> QED
    BY <2>2, <2>3, <2>4, <2>5 DEF BrowserNext
<1> QED
  BY <1>1, <1>2, BrowserInvariant, PTL DEF BrowserSpec

\* Once every socket is authorized, a view that has its answer from whoami offers
\* to go on, and not only to abort.
GoingOnOffered ==
    [][\A t \in Tabs : (Mounted(t) /\ \A c \in Conns : authorized[c]) =>
          Offered(t)' # {"abort"}]_browserVars

\* The step that gets an authorised user through (GetsThrough) under every
\* configuration and any number of tabs: both views reach whoami, and what it says
\* of an authorized socket offers the button that goes on.
THEOREM ViewsOfferToGoOn == BrowserSpec => GoingOnOffered
<1>1. BInv /\ [BrowserNext]_browserVars =>
          [\A t \in Tabs : (Mounted(t) /\ \A c \in Conns : authorized[c]) =>
                Offered(t)' # {"abort"}]_browserVars
  <2> SUFFICES ASSUME BInv, NEW t \in Tabs, Mounted(t),
                      \A c \in Conns : authorized[c]
               PROVE  Offered(t)' # {"abort"}
    OBVIOUS
  <2>1. TypeOK /\ BrowserTypeOK
    BY DEF BInv
  <2>2. at' = at /\ at[t] \in {"loginPage", "consentPage"}
    BY DEF Mounted
  <2>3. PICK c \in Conns :
          /\ Verify(c)
          /\ verdict' = [verdict EXCEPT ![t] =
                IF RoutesToWhoami(WhoamiPath(at[t])) /\ authorized'[c]
                THEN "authorised" ELSE "unauthorised"]
    BY DEF Mounted
  <2>4. authorized'[c]
    BY <2>1, <2>3 DEF Verify, TypeOK, ConnTypeOK
  <2>5. RoutesToWhoami(WhoamiPath(at[t]))
    BY DEF RoutesToWhoami, WhoamiPath
  <2>6. verdict'[t] = "authorised"
    BY <2>1, <2>3, <2>4, <2>5 DEF BrowserTypeOK
  <2>7. CASE at[t] = "loginPage"
    <3>1. "signin" \in Offered(t)'
      BY <2>2, <2>6, <2>7 DEF Offered, Buttons
    <3> QED
      BY <3>1
  <2>8. CASE at[t] = "consentPage"
    <3>1. "consent" \in Offered(t)'
      BY <2>2, <2>6, <2>8 DEF Offered, Buttons
    <3> QED
      BY <3>1
  <2> QED
    BY <2>2, <2>7, <2>8
<1> QED
  BY <1>1, BrowserInvariant, PTL DEF BrowserSpec, GoingOnOffered

-----------------------------------------------------------------------------
(* The contract of sign-on, for users in front of a browser. *)

\* Signing out is the one move that the contract does not have: the granted flow
\* is over, and its user logged out if the form has the field for it (logout).
SignedOutOf(t) ==
    /\ Contract!Proceed(t, "granted", "none")
    /\ account' = [account EXCEPT ![t] =
                      IF "logout" \in FormFields THEN NoAccount ELSE @]

SignOnAndOut ==
    Contract!Init
    /\ [][Contract!Next \/ \E t \in Tabs : SignedOutOf(t)]_(Contract!contractVars)

\* The form ends the granted flow, and touches nothing else.
LEMMA SubmitSignsOut ==
    ASSUME TypeOK, SavedShape, NEW t \in Tabs, SubmitForm(t)
    PROVE  (SignedOutOf(t) \/ UNCHANGED Contract!contractVars) /\ SavedShape'
<1> USE BrowserAssumption
<1>1. /\ now' = now /\ interaction' = interaction /\ certs' = certs
  BY DEF SubmitForm, connVars
<1>2. SavedShape'
  BY <1>1 DEF SavedShape
<1>3. AcceptedClients' = AcceptedClients
  BY <1>1 DEF AcceptedClients, AcceptedAt
<1>4. CASE stage[t] = "granted"
  <2>1. /\ stage' = [stage EXCEPT ![t] = "none"]
        /\ account' = [account EXCEPT ![t] =
                          IF "logout" \in FormFields THEN NoAccount ELSE @]
    BY <1>4 DEF SubmitForm
  <2>2. stage'[t] = "none" /\ \A f \in Flows \ {t} : stage'[f] = stage[f]
    BY <2>1 DEF TypeOK
  <2>3. DecisionOf(t)' = Contract!Undecided
    BY <2>2, HeldCases DEF DecisionOf, Prompts
  <2>4. Decisions' = [Decisions EXCEPT ![t] = Contract!Undecided]
    BY <1>1, <2>2, <2>3, DecisionChanged
  <2>5. Contract!Proceed(t, "granted", "none")
    BY <1>1, <1>3, <1>4, <2>1, <2>4
       DEF Contract!Proceed, AcceptedClients, Decisions, DecisionOf
  <2> QED
    BY <1>2, <2>1, <2>5 DEF SignedOutOf
<1>5. CASE stage[t] # "granted"
  <2>1. stage' = stage /\ account' = account
    BY <1>5 DEF SubmitForm
  <2>2. Decisions' = Decisions
    BY <1>1, <2>1, DecisionKept DEF Decisions
  <2> QED
    BY <1>1, <1>2, <1>3, <2>1, <2>2
       DEF Contract!contractVars, AcceptedClients, Decisions, DecisionOf
<1> QED
  BY <1>4, <1>5

\* Behind a browser, with pages left and buttons pressed in any order, flows keep
\* the contract of sign-on, and are otherwise only signed out of.
THEOREM SignOnBehindViews == BrowserSpec => SignOnAndOut
<1>1. BrowserInit => Contract!Init /\ SavedShape
  BY ContractInit DEF BrowserInit
<1>2. /\ BInv /\ BInv' /\ SavedShape /\ [BrowserNext]_browserVars
      => /\ [Contract!Next \/ \E t \in Tabs : SignedOutOf(t)]_(Contract!contractVars)
         /\ SavedShape'
  BY BrowserSteps, ContractBaseStep, SubmitSignsOut DEF BInv
<1> QED
  BY <1>1, <1>2, BrowserInvariant, PTL DEF BrowserSpec, SignOnAndOut

\* The same through the views: whatever pages a user leaves, reloads or goes back
\* to, a flow past the login is of somebody whom a trust anchor vouched for.
THEOREM SignedOnBehindViews == BrowserSpec => []FlowsVouched
<1>1. BInv => FlowsVouched
  BY FlowsAreVouched DEF BInv
<1> QED
  BY <1>1, BrowserInvariant, PTL

=============================================================================
