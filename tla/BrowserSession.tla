--------------------------- MODULE BrowserSession ---------------------------
(***************************************************************************)
(* One browser tab from a page of the application to the login form and    *)
(* back: the requests whose refusal ends the session there, the address    *)
(* remembered for the return, the login flow of Kratos with its expiry,    *)
(* and what survives of it when the tab is loaded anew.  A tab has a life: *)
(* redirectStarted and flowReturnTos are of one life, and every assignment *)
(* of window.location starts another one.                                  *)
(* Kratos is outside the repository and modelled as login-flow.ts and      *)
(* kratos.yaml use it: it makes a flow for a browser without a session and *)
(* sends one with a session back to where it came from.                    *)
(***************************************************************************)
EXTENDS Naturals

CONSTANTS
  Paths,       \* the protected pages, the login page not among them
  Home,        \* the page "/"
  MaxRequests, \* bound: requests of a page under way at a time
  OtherTabs,   \* a person may sign in in another tab
  MaxMishaps   \* bound: sessions and flows that end, reloads, lost answers

LoginPath == "login"

TabAssumption == Home \in Paths /\ LoginPath \notin Paths /\ MaxRequests \in Nat /\ MaxRequests >= 1

VARIABLES
  session,  \* Kratos has a session for the cookie of the browser
  on,       \* what the tab shows: a "page", "login" without a flow, a "flow",
            \*  "leaving" for Kratos, "entering" a page, the "error" page
  path,     \* the address of the page, or LoginPath
  returnTo, \* the return_to of the address, or of the flow at Kratos
  flow,     \* the flow at Kratos: "none", "alive" or "expired"
  form,     \* the login form: "none", "loading", "shown", "failed", "submitting"
  waiting,  \* requests of the page under way
  started,  \* redirectStarted
  redirects,\* calls of redirectToLogin between their two halves
  known,    \* flowReturnTos has the flow
  wanted,   \* the page the person was sent to the form from
  lost,     \* the tab was loaded anew or gone back in, or asked for another
            \*  flow without knowing the first one
  mishaps

lifeVars == <<waiting, started, redirects, known>>
vars == <<session, on, path, returnTo, flow, form, lifeVars, wanted, lost, mishaps>>

Init ==
  /\ session \in BOOLEAN
  /\ on = "page" /\ path \in Paths
  /\ returnTo = Home /\ flow = "none" /\ form = "none"
  /\ waiting = 1 /\ started = FALSE /\ redirects = 0 /\ known = FALSE
  /\ wanted = path /\ lost = FALSE /\ mishaps = 0

(* Mutant: the redirect is remembered from one life to the next.            *)
SameLife ==
  /\ waiting' = IF on' = "page" THEN 1 ELSE 0
  /\ redirects' = 0 /\ known' = FALSE /\ UNCHANGED started

(* A page asks for the profile before it is shown.                         *)
NewLife ==
  /\ waiting' = IF on' = "page" THEN 1 ELSE 0
  /\ started' = FALSE /\ redirects' = 0 /\ known' = FALSE

Mishap == mishaps < MaxMishaps /\ mishaps' = mishaps + 1

-----------------------------------------------------------------------------
(* session-lifecycle.ts and runtime.ts.                                    *)

(* A page asks for its profile, its lists, the saves of its dialogs; a     *)
(* focused window asks for the profile again.                              *)
Ask ==
  /\ on = "page"
  /\ waiting < MaxRequests
  /\ waiting' = waiting + 1
  /\ UNCHANGED <<session, on, path, returnTo, flow, form, started, redirects, known, wanted,
                 lost, mishaps>>

Authorized ==
  /\ waiting > 0
  /\ session
  /\ waiting' = waiting - 1
  /\ UNCHANGED <<session, on, path, returnTo, flow, form, started, redirects, known, wanted,
                 lost, mishaps>>

(* The first refused request of a life goes to the login page.             *)
First == ~started /\ path # LoginPath

(* The second half waits for the queries to be cancelled; a mutation under *)
(* way, or an answer already there, may still be refused.                  *)
Unauthorized ==
  /\ waiting > 0
  /\ ~session
  /\ First
  /\ started' = TRUE
  /\ redirects' = redirects + 1
  /\ waiting' \in 0..(waiting - 1)
  /\ UNCHANGED <<session, on, path, returnTo, flow, form, known, wanted, lost, mishaps>>

Redirect ==
  /\ redirects > 0
  /\ redirects' = redirects - 1
  /\ on' = "login"
  /\ path' = LoginPath
  /\ returnTo' = path
  /\ wanted' = IF path = LoginPath THEN wanted ELSE path
  /\ UNCHANGED <<session, flow, form, waiting, started, known, lost, mishaps>>

(* A refused request after the first: nothing more is done.                *)
UnauthorizedAgain ==
  /\ waiting > 0
  /\ ~session
  /\ ~First
  /\ waiting' = waiting - 1
  /\ UNCHANGED <<session, on, path, returnTo, flow, form, started, redirects, known, wanted,
                 lost, mishaps>>

(* A page that was gone back to asks for the profile before it is shown,   *)
(* and its layout sends the tab to the login page without an address.      *)
Enter ==
  /\ on = "entering"
  /\ IF session
       THEN on' = "page" /\ UNCHANGED <<path, returnTo>>
       ELSE on' = "login" /\ path' = LoginPath /\ returnTo' = Home
  /\ UNCHANGED <<session, flow, form, lifeVars, wanted, lost, mishaps>>

(* Another page by a link of the application; its layout asks for the      *)
(* profile, be it from the cache.                                          *)
Follow(p) ==
  /\ on = "page" /\ redirects = 0
  /\ p # path
  /\ path' = p
  /\ UNCHANGED <<session, on, returnTo, flow, form, lifeVars, wanted, lost, mishaps>>

-----------------------------------------------------------------------------
(* login-flow.ts and use-password-login-form.ts.                           *)

(* window.location is assigned: the address of Kratos, with return_to.     *)
ToKratos(address) ==
  /\ on' = "leaving"
  /\ returnTo' = address
  /\ flow' = "none"
  /\ form' = "none"

(* The login page without a flow asks Kratos for one at once.              *)
StartFlow ==
  /\ on = "login"
  /\ ToKratos(returnTo)
  /\ UNCHANGED <<session, path, lifeVars, wanted, lost, mishaps>>

(* Mutant: the address is asked of the location, not of what was loaded.   *)
ReturnOfLocation == Home

(* restartLoginFlow(flowId).                                               *)
ReturnOfFlow == IF known THEN returnTo ELSE Home

Restart ==
  /\ ToKratos(ReturnOfFlow)
  /\ lost' = (lost \/ ~known)
  /\ UNCHANGED <<session, path, lifeVars, wanted, mishaps>>

(* Kratos: the tab is loaded anew.                                         *)
KratosAnswers ==
  /\ on = "leaving"
  /\ IF session
       THEN /\ on' = "page" /\ path' = returnTo /\ lost' = FALSE
            /\ returnTo' = Home
            /\ UNCHANGED <<flow, form>>
       ELSE /\ on' = "flow" /\ path' = LoginPath
            /\ flow' = "alive" /\ form' = "loading"
            /\ UNCHANGED <<returnTo, lost>>
  /\ NewLife
  /\ UNCHANGED <<session, wanted, mishaps>>

FlowLoaded ==
  /\ form = "loading" /\ flow = "alive"
  /\ form' = "shown"
  /\ known' = TRUE
  /\ UNCHANGED <<session, on, path, returnTo, flow, waiting, started, redirects, wanted, lost,
                 mishaps>>

FlowGone ==
  /\ form \in {"loading", "submitting"} /\ flow = "expired"
  /\ Restart

FlowUnavailable ==
  /\ form = "loading"
  /\ Mishap
  /\ form' = "failed"
  /\ UNCHANGED <<session, on, path, returnTo, flow, lifeVars, wanted, lost>>

(* retryLoad: the address of the page names the flow only.                 *)
RetryLoad ==
  /\ form = "failed"
  /\ ToKratos(Home)
  /\ lost' = TRUE
  /\ UNCHANGED <<session, path, lifeVars, wanted, mishaps>>

(* A form made for something else than a password.                         *)
FlowUnsupported ==
  /\ form \in {"loading", "submitting"} /\ flow = "alive"
  /\ Mishap
  /\ on' = "error" /\ form' = "none" /\ flow' = "none" /\ lost' = TRUE
  /\ NewLife
  /\ UNCHANGED <<session, path, returnTo, wanted>>

Submit ==
  /\ form = "shown"
  /\ form' = "submitting"
  /\ UNCHANGED <<session, on, path, returnTo, flow, lifeVars, wanted, lost, mishaps>>

(* Wrong credentials, an invalid form, or no answer: the form stays.       *)
SubmitRefused ==
  /\ form = "submitting" /\ flow = "alive"
  /\ form' = "shown"
  /\ UNCHANGED <<session, on, path, returnTo, flow, lifeVars, wanted, lost, mishaps>>

(* Kratos sends the browser to the form again.                             *)
SubmitRedirected ==
  /\ form = "submitting" /\ flow = "alive"
  /\ Mishap
  /\ form' = "loading"
  /\ UNCHANGED on /\ NewLife
  /\ UNCHANGED <<session, path, returnTo, flow, wanted, lost>>

(* The flow is fetched once more before it is sent, and with it the        *)
(* address to return to.                                                   *)
SignedIn ==
  /\ form = "submitting" /\ flow = "alive" /\ ~session
  /\ session' = TRUE
  /\ on' = "page" /\ path' = returnTo
  /\ returnTo' = Home /\ flow' = "none" /\ form' = "none"
  /\ lost' = FALSE
  /\ NewLife
  /\ UNCHANGED <<wanted, mishaps>>

-----------------------------------------------------------------------------
(* logout-flow.ts, routes/auth/error.tsx and the browser.                  *)

(* The logout address of Kratos ends the session and leads to "/".         *)
Logout ==
  /\ on = "page" /\ session
  /\ Mishap
  /\ session' = FALSE
  /\ path' = Home
  /\ UNCHANGED on /\ NewLife
  /\ UNCHANGED <<returnTo, flow, form, wanted, lost>>

(* The error page sends a browser with a session to "/", and offers one    *)
(* without a new flow.                                                     *)
LeaveError ==
  /\ on = "error"
  /\ IF session
       THEN on' = "page" /\ path' = Home /\ UNCHANGED <<returnTo, flow, form>>
       ELSE ToKratos(Home) /\ UNCHANGED path
  /\ NewLife
  /\ UNCHANGED <<session, wanted, lost, mishaps>>

Reload ==
  /\ on \in {"page", "flow"}
  /\ Mishap
  /\ IF on = "flow" THEN form' = "loading" ELSE UNCHANGED form
  /\ UNCHANGED on /\ NewLife
  /\ UNCHANGED <<session, path, returnTo, flow, wanted, lost>>

(* Back, before Kratos has answered: the same life goes on.                *)
Back ==
  /\ on = "leaving" /\ started
  /\ Mishap
  /\ on' = "entering" /\ path' = wanted /\ lost' = TRUE
  /\ UNCHANGED <<session, returnTo, flow, form, lifeVars, wanted>>

SessionEnds ==
  /\ session
  /\ Mishap
  /\ session' = FALSE
  /\ UNCHANGED <<on, path, returnTo, flow, form, lifeVars, wanted, lost>>

SignedInElsewhere ==
  /\ OtherTabs /\ ~session
  /\ Mishap
  /\ session' = TRUE
  /\ UNCHANGED <<on, path, returnTo, flow, form, lifeVars, wanted, lost>>

FlowExpires ==
  /\ flow = "alive"
  /\ Mishap
  /\ flow' = "expired"
  /\ UNCHANGED <<session, on, path, returnTo, form, lifeVars, wanted, lost>>

Next ==
  \/ Ask \/ Authorized \/ Unauthorized \/ Redirect \/ UnauthorizedAgain \/ Enter
  \/ \E p \in Paths : Follow(p)
  \/ StartFlow \/ KratosAnswers
  \/ FlowLoaded \/ FlowGone \/ FlowUnavailable \/ RetryLoad \/ FlowUnsupported
  \/ Submit \/ SubmitRefused \/ SubmitRedirected \/ SignedIn
  \/ Logout \/ LeaveError \/ Reload \/ Back \/ SessionEnds \/ SignedInElsewhere \/ FlowExpires

Spec == Init /\ [][Next]_vars

(* Two answers, of which one comes in the end.                             *)
Answered == Authorized \/ Unauthorized \/ UnauthorizedAgain
FlowArrived == FlowLoaded \/ FlowGone \/ FlowUnavailable

-----------------------------------------------------------------------------
TypeOK ==
  /\ session \in BOOLEAN
  /\ on \in {"page", "login", "flow", "leaving", "entering", "error"}
  /\ path \in Paths \cup {LoginPath}
  /\ returnTo \in Paths \cup {LoginPath}
  /\ flow \in {"none", "alive", "expired"}
  /\ form \in {"none", "loading", "shown", "failed", "submitting"}
  /\ waiting \in 0..MaxRequests
  /\ redirects \in Nat
  /\ started \in BOOLEAN /\ known \in BOOLEAN /\ lost \in BOOLEAN

(* Signing in leads back to the page the person was sent away from,        *)
(* through flows that expire before, at or after their loading, unless the *)
(* tab lost the address: it was loaded anew and its flow had expired       *)
(* before it was loaded again, it asked for another flow without one, or   *)
(* it was gone back in.                                                    *)
SignInReturns == [][SignedIn => path' = wanted \/ lost]_vars

(* A person refused on a page comes to the login form or is told that it   *)
(* could not be loaded, also who goes back on the way.  It is so once in a *)
(* life of the tab: redirectStarted stays set, and a page gone back to, of *)
(* which the session was found again and lost again, sends nobody away.    *)
FormIsReached ==
  on = "page" /\ ~session /\ waiting > 0 /\ ~started ~>
    form \in {"shown", "failed"} \/ session \/ on = "error"
=============================================================================
