----------------------------- MODULE CasBrowser -----------------------------
(***************************************************************************)
(* The user's side of the interactions: tabs of a browser that follow the  *)
(* server's redirects, the default views with their buttons, and signing   *)
(* out.  A tab has a request slot and a flow of its own, so the constants  *)
(* Reqs and Flows are both the set of tabs; tabs share the sockets.        *)
(***************************************************************************)
EXTENDS CasInteractions

CONSTANTS
    Tabs,
    LogoutToggle        \* transparentInteractionFlows[logoutPath], as text

ASSUME BrowserAssumption ==
    /\ Reqs = Tabs /\ Flows = Tabs
    /\ LogoutToggle \in {"true", "false", "undefined"}

VARIABLES
    at,         \* per tab: the page it shows, or where it is redirected to
    prompt,     \* per tab: of the uid in its path
    verdict,    \* per tab: what whoami told the view, or "none" so far
    pressed     \* per tab: the buttons pressed since it signed on

tabVars == <<at, prompt, verdict, pressed>>
browserVars == <<vars, tabVars>>

Buttons == {"signin", "consent", "abort"}
Pages == {"client", "loginPage", "consentPage", "logoutPage"}
Endpoints == {"view", "login", "confirm", "abort"}
Ends == {"signedIn", "refused", "errorPage", "forbidden", "serverError", "reset"}

BrowserTypeOK ==
    /\ at \in [Tabs -> Pages \cup Endpoints \cup Ends
                       \cup {"waiting", "resume", "signedOut"}]
    /\ prompt \in [Tabs -> Prompts]
    /\ verdict \in [Tabs -> {"none", "authorised", "unauthorised"}]
    /\ pressed \in [Tabs -> SUBSET Buttons]

BrowserInit ==
    /\ Init
    /\ at = [t \in Tabs |-> "client"]
    /\ prompt = [t \in Tabs |-> "login"]
    /\ verdict = [t \in Tabs |-> "none"]
    /\ pressed = [t \in Tabs |-> {}]

Goto(t, where) == at' = [at EXCEPT ![t] = where]

----------------------------------------------------------------------------
(* Signing on. *)

\* The client application sends the tab to the authorization endpoint, which
\* redirects to /interaction/:uid.
SignOn(t) ==
    /\ at[t] \in {"client", "signedOut"} /\ account[t] = NoAccount
    /\ Authorize(t)
    /\ Goto(t, "view")
    /\ prompt' = [prompt EXCEPT ![t] = "login"]
    /\ pressed' = [pressed EXCEPT ![t] = {}]
    /\ UNCHANGED verdict

\* The tab requests the path it was sent to.
Send(t) ==
    /\ at[t] \in Endpoints
    /\ \E c \in Conns :
          \/ ArriveFails(t, c)
          \/ /\ at[t] # "abort"
             /\ ArriveLookup(t, c, <<t, prompt[t]>>)
             /\ ctx'[t].endpoint = at[t]
          \/ at[t] = "abort" /\ ArriveAbort(t, c, <<t, prompt[t]>>)
    /\ Goto(t, "waiting")
    /\ UNCHANGED <<prompt, verdict, pressed>>

\* A fault of Target: the redirect to the provider is not followed.
TargetStays(reply) ==
    CASE reply = "loginStep"   -> "login"
      [] reply = "confirmStep" -> "confirm"
      [] OTHER                 -> reply

\* Where a response leads: a page, or the path of a redirect.
Target(reply) ==
    CASE reply = "loginStep"   -> "login"
      [] reply = "confirmStep" -> "confirm"
      [] reply = "returnTo"    -> "resume"
      [] OTHER                 -> reply

\* The response arrives; a view starts out unauthorised.
Receive(t) ==
    /\ at[t] = "waiting" /\ pc[t] = "done"
    /\ Goto(t, Target(replies[t][1]))
    /\ verdict' = [verdict EXCEPT ![t] = "none"]
    /\ UNCHANGED <<vars, prompt, pressed>>

\* The tab follows returnTo.
Resume(t) ==
    /\ at[t] = "resume"
    /\ \/ /\ ResumeLogin(t)
          /\ Goto(t, "view")
          /\ prompt' = [prompt EXCEPT ![t] = "consent"]
       \/ /\ \/ ResumeConsent(t) /\ Goto(t, "signedIn")
             \/ ResumeDenied(t, prompt[t]) /\ Goto(t, "refused")
          /\ UNCHANGED prompt
       \/ /\ ~interaction[<<t, prompt[t]>>].open
          /\ Goto(t, "errorPage")
          /\ UNCHANGED <<vars, prompt>>
    /\ UNCHANGED <<verdict, pressed>>

----------------------------------------------------------------------------
(* The views. *)

\* prefix + whoamiPath, and prefix + '/' + whoamiPath, where whoamiPath starts
\* with a separator.
WhoamiPath(page) ==
    IF page = "loginPage" THEN <<"api", "whoami">> ELSE <<"api", "", "whoami">>

\* A fault of RoutesToWhoami: the router takes only the path it was given; what
\* then answers is the page that catches all other paths.
RoutesToWhoamiStrict(path) == path = <<"api", "whoami">>

\* express takes one separator behind the prefix of a router as part of it.
RoutesToWhoami(path) == path \in {<<"api", "whoami">>, <<"api", "", "whoami">>}

\* componentDidMount: ask whoami, and show what it says.
Mounted(t) ==
    /\ at[t] \in {"loginPage", "consentPage"} /\ verdict[t] = "none"
    /\ \E c \in Conns :
          /\ ~VerifyFails(c)
          /\ Verify(c)
          /\ verdict' = [verdict EXCEPT ![t] =
                IF RoutesToWhoami(WhoamiPath(at[t])) /\ authorized'[c]
                THEN "authorised" ELSE "unauthorised"]
    /\ UNCHANGED <<now, peer, reqVars, opVars, certs, at, prompt, pressed>>

\* A fault of Offered: no button before whoami has authorised the user.
OfferedLate(t) ==
    CASE verdict[t] # "authorised" -> {}
      [] at[t] = "loginPage"       -> {"signin", "abort"}
      [] at[t] = "consentPage"     -> {"consent", "abort"}
      [] OTHER                     -> {}

\* The buttons a view renders.
Offered(t) ==
    {button \in Buttons :
        /\ at[t] \in {"loginPage", "consentPage"}
        /\ button # "abort" => verdict[t] = "authorised"
        /\ button = "signin" => at[t] = "loginPage"
        /\ button = "consent" => at[t] = "consentPage"}

\* A fault of EndpointOf: the buttons of the consent view are swapped.
EndpointOfSwapped(button) ==
    [signin |-> "login", consent |-> "abort", abort |-> "confirm"][button]
EndpointOf(button) ==
    [signin |-> "login", consent |-> "confirm", abort |-> "abort"][button]

Press(t, button) ==
    /\ button \in Offered(t)
    /\ Goto(t, EndpointOf(button))
    /\ pressed' = [pressed EXCEPT ![t] = @ \cup {button}]
    /\ UNCHANGED <<vars, prompt, verdict>>

----------------------------------------------------------------------------
(* Signing out. *)

\* A fault of FormFields: the view has no button of its own.
FormFieldsNone == {}

\* The fields of the form that is posted, besides xsrf: a button that is
\* pressed is one of them, and submit() presses none.
FormFields == IF LogoutToggle = "true" THEN {} ELSE {"logout"}

\* The end_session endpoint renders its form with logout, which finds the
\* value in it and redirects to the logout view; but a toggle that was left
\* out has no toString, and the provider renders the error.
SignOut(t) ==
    /\ at[t] = "signedIn"
    /\ Goto(t, IF LogoutToggle = "undefined" THEN "errorPage" ELSE "logoutPage")
    /\ UNCHANGED <<vars, prompt, verdict, pressed>>

\* The form is posted, by the button or, in a transparent flow, by itself.  The
\* provider ends the session if the field logout is there, and else only revokes
\* what the client was granted; without a session it renders an error.
SubmitForm(t) ==
    /\ at[t] = "logoutPage"
    /\ IF stage[t] = "granted"
       THEN /\ stage' = [stage EXCEPT ![t] = "none"]
            /\ account' = [account EXCEPT ![t] =
                  IF "logout" \in FormFields THEN NoAccount ELSE @]
            /\ Goto(t, "signedOut")
       ELSE Goto(t, "errorPage") /\ UNCHANGED <<stage, account>>
    /\ UNCHANGED <<connVars, reqVars, interaction, certs, prompt, verdict, pressed>>

\* Cancel: history.back().
CancelLogout(t) ==
    /\ at[t] = "logoutPage" /\ LogoutToggle = "false"
    /\ Goto(t, "signedIn")
    /\ UNCHANGED <<vars, prompt, verdict, pressed>>

----------------------------------------------------------------------------
Tab(t) ==
    \/ SignOn(t) \/ Send(t) \/ Receive(t) \/ Resume(t)
    \/ Mounted(t) \/ (\E button \in Buttons : Press(t, button))
    \/ SignOut(t) \/ SubmitForm(t) \/ CancelLogout(t)

\* A crash resets the connections of the tabs that wait.
Crash ==
    /\ Restart
    /\ at' = [t \in Tabs |-> IF at[t] = "waiting" THEN "reset" ELSE at[t]]
    /\ UNCHANGED <<prompt, verdict, pressed>>

Elsewhere ==
    /\ \/ \E t \in Tabs : Handle(t)
       \/ \E uid \in Uids : ExpireInteraction(uid)
       \/ Tick /\ UNCHANGED <<reqVars, opVars, certs>>
       \/ \E c \in Conns : Connect(c)
    /\ UNCHANGED tabVars

BrowserNext == (\E t \in Tabs : Tab(t)) \/ Crash \/ Elsewhere

\* The server runs its continuations, the browser follows redirects and mounts the
\* views it shows, which ask whoami, and a user in front of a view presses some
\* button in the end.
BrowserFairness ==
    \A t \in Tabs :
        /\ WF_browserVars(Handle(t) /\ UNCHANGED tabVars)
        /\ WF_browserVars(Send(t) \/ Receive(t) \/ Resume(t))
        /\ WF_browserVars(Mounted(t))
        /\ WF_browserVars(\E button \in Buttons : Press(t, button))

BrowserSpec == BrowserInit /\ [][BrowserNext]_browserVars /\ BrowserFairness

----------------------------------------------------------------------------
(* Properties *)

\* Only the user logs in and consents: a tab is logged in after its user has
\* pressed the sign-in button, and its client is granted something after the
\* consent button, unless the configuration makes that step transparent.
ByTheUser ==
    \A t \in Tabs :
        /\ account[t] # NoAccount => TransparentSignin \/ "signin" \in pressed[t]
        /\ stage[t] = "granted" => TransparentConsent \/ "consent" \in pressed[t]

\* Every flow comes to an end that the user sees: signed in, refused, or an
\* error, in whatever order interactions expire, sockets are replaced and the
\* server crashes.
FlowEnds == \A t \in Tabs : at[t] = "view" ~> at[t] \in Ends

\* Nothing comes in the way of a tab: its sockets stay authorized, its interaction
\* does not expire, the server does not crash, and its user aborts only in front of a
\* view that has called the user unauthorised.
Undisturbed(t) ==
    /\ \A c \in Conns : authorized[c]
    /\ stage[t] # "none" /\ (stage[t] \in Prompts => interaction[<<t, stage[t]>>].open)
    /\ at[t] = "abort" => verdict[t] = "unauthorised"

\* A user whom the chain check accepts, and who wants to, gets signed in: both views
\* reach whoami and offer to go on, and what their buttons lead to finds what the
\* steps before have left behind.
GetsThrough ==
    \A t \in Tabs :
        [](at[t] = "view" /\ []Undisturbed(t) => <>(at[t] = "signedIn"))

\* Whoever has signed out is logged out.
SignedOutIsLoggedOut ==
    \A t \in Tabs : at[t] = "signedOut" => account[t] = NoAccount

=============================================================================
