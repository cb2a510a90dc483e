---------------------------- MODULE PortalSession ----------------------------
(***************************************************************************)
(* Sign-in to the portal: the tabs of one browser running app.js, which      *)
(* share localStorage and the oidc_state cookie, and the gateway's login,     *)
(* SSO and authentication handlers (pkg/portal/api.go, pkg/auth).            *)
(*                                                                         *)
(* A token is its number in the order of issue; the gateway keeps none, and  *)
(* valid is what ValidateJWT would accept now.  A request carries the token   *)
(* STATE held when it was sent.                                              *)
(***************************************************************************)
EXTENDS Integers, FiniteSets, FiniteSetsExt

CONSTANTS
    Tabs,
    SSORoles,           \* OIDC_DEFAULT_ROLE, a subset of Roles
    MaxTokens,          \* bound: tokens issued
    Scopes,             \* what the behaviours cover, a subset of Scope
    NoToken

Roles == {"admin", "viewer"}

\* Whether METRICS_TOKEN is set, and the bounds of a behaviour: the tabs that are open,
\* SSO logins started, requests a tab has under way when it sends one, and reloads of
\* the app by its user.
Scope == [metricsToken : BOOLEAN, tabs : SUBSET Tabs, flows : Nat, requests : Nat, reloads : Nat]

ASSUME SessionAssumption ==
    /\ SSORoles \subseteq Roles
    /\ MaxTokens \in Nat /\ Scopes \subseteq Scope
    /\ NoToken \notin Nat

VARIABLES
    scope,
    stored,             \* localStorage mcp_gateway_token
    tab,                \* per tab, what it shows, STATE.token and its SSO flow
    requests,           \* fetches under way
    issued, valid,      \* tokens: how many were made, which the gateway accepts
    role,               \* the role in each token
    flows, cookie,      \* oidc_state: values made, value in the browser (0: none)
    offline,            \* history: some fetch was rejected
    reloads             \* how often the user reloaded the app

vars == <<scope, stored, tab, requests, issued, valid, role, flows, cookie, offline, reloads>>
gateway == <<scope, issued, valid, role>>
sso == <<flows, cookie>>

Token == 1 .. MaxTokens

\* The document is about to be replaced; its fetches may still come back.
Leave(t) == [tab EXCEPT ![t].at = "unloading"]

Requests(t) == {r \in requests : r.tab = t}

\* What bearer /metrics gets is left out: it is never METRICS_TOKEN.
Request(t, path, token, n) ==
    [tab |-> t, path |-> path, token |-> IF path = "/metrics" THEN NoToken ELSE token,
     n |-> n, res |-> "pending"]

\* Equal requests are told apart by the smallest number that is free.
Free(t) == Min((1 .. Cardinality(Requests(t)) + 1) \ {r.n : r \in Requests(t)})

Init ==
    /\ scope \in Scopes
    /\ stored = NoToken
    /\ tab = [t \in Tabs |-> [at |-> IF t \in scope.tabs THEN "login" ELSE "closed",
                              token |-> NoToken, flow |-> 0]]
    /\ requests = {}
    /\ issued = 0 /\ valid = {}
    /\ role = [k \in Token |-> "viewer"]
    /\ flows = 0 /\ cookie = 0 /\ offline = FALSE /\ reloads = 0

-----------------------------------------------------------------------------
(* The gateway.                                                             *)

\* GenerateJWT.
Issue(r) ==
    /\ issued < MaxTokens
    /\ issued' = issued + 1
    /\ valid' = valid \cup {issued + 1}
    /\ role' = [role EXCEPT ![issued + 1] = r]

\* The token's 24 hours are over ...
Expire(k) ==
    /\ k \in valid
    /\ valid' = valid \ {k}
    /\ UNCHANGED <<scope, stored, tab, requests, issued, role, sso, offline, reloads>>

\* ... or the gateway was restarted with another JWT_SECRET.
ChangeSecret ==
    /\ valid # {}
    /\ valid' = {}
    /\ UNCHANGED <<scope, stored, tab, requests, issued, role, sso, offline, reloads>>

\* metricsAuth compares with METRICS_TOKEN, which no portal token equals.
MetricsStatus == IF scope.metricsToken THEN "401" ELSE "200"

\* AdminAuthMiddleware.
Status(r) ==
    IF r.path = "/metrics" THEN MetricsStatus
    ELSE IF r.token \notin valid THEN "401"
    ELSE IF role[r.token] # "admin" THEN "403" ELSE "200"

Answered(r, res) == requests' = (requests \ {r}) \cup {[r EXCEPT !.res = res]}

Answer(r) ==
    /\ r.res = "pending" /\ r.path # "/api/auth/login"
    /\ Answered(r, Status(r))
    /\ UNCHANGED <<gateway, stored, tab, sso, offline, reloads>>

\* handleLogin.
AnswerLogin(r, good) ==
    /\ r.res = "pending" /\ r.path = "/api/auth/login"
    /\ IF good THEN /\ Issue("admin")
                    /\ requests' = (requests \ {r}) \cup {[r EXCEPT !.res = "200", !.token = issued + 1]}
               ELSE Answered(r, "401") /\ UNCHANGED <<issued, valid, role>>
    /\ UNCHANGED <<scope, stored, tab, sso, offline, reloads>>

-----------------------------------------------------------------------------
(* app.js.                                                                  *)

\* initAuth with a token: bootstrapApp's loads, as one request, and at
\* #telemetry the one for /metrics.
BootRequests(t, token, telemetry) ==
    {Request(t, "/api", token, 0)} \cup (IF telemetry THEN {Request(t, "/metrics", token, 0)} ELSE {})

\* window.onload: STATE.token is what localStorage holds.
Open(t, token, telemetry) ==
    /\ tab' = [tab EXCEPT ![t] = [at |-> IF token = NoToken THEN "login" ELSE "app",
                                  token |-> token, flow |-> 0]]
    /\ requests' = (requests \ Requests(t))
                   \cup (IF token = NoToken THEN {} ELSE BootRequests(t, token, telemetry))

\* location.reload() after a 401 or a logout takes effect, or the user reloads the
\* login page or the error of an SSO callback ...
Reload(t, telemetry) ==
    /\ tab[t].at \in {"unloading", "login", "error"}
    /\ Open(t, stored, telemetry)
    /\ UNCHANGED <<gateway, stored, sso, offline, reloads>>

\* ... or the app, whatever it has under way.
UserReload(t, telemetry) ==
    /\ tab[t].at = "app"
    /\ reloads < scope.reloads
    /\ reloads' = reloads + 1
    /\ Open(t, stored, telemetry)
    /\ UNCHANGED <<gateway, stored, sso, offline>>

\* A load function or a write sends a request.
Fetch(t, path) ==
    /\ tab[t].at = "app"
    /\ Cardinality(Requests(t)) < scope.requests
    /\ requests' = requests \cup {Request(t, path, tab[t].token, Free(t))}
    /\ UNCHANGED <<gateway, stored, tab, sso, offline, reloads>>

\* login-form: it may be submitted again before the answer is there.
SubmitLogin(t) ==
    /\ tab[t].at = "login"
    /\ Cardinality(Requests(t)) < scope.requests
    /\ requests' = requests \cup {Request(t, "/api/auth/login", NoToken, Free(t))}
    /\ UNCHANGED <<gateway, stored, tab, sso, offline, reloads>>

\* Mutation: the interceptor takes a wrong password for an expired session.
InterceptsLogin(r) == r.res = "401"

\* Mutation: the interceptor takes a missing role for an expired session.
InterceptsForbidden(r) == r.res \in {"401", "403"} /\ r.path # "/api/auth/login"

\* The global fetch interceptor's condition.
Intercepts(r) == r.res = "401" /\ r.path # "/api/auth/login"

\* Mutation: the interceptor reloads the page and leaves the token where it is.
ArriveKeepsToken(r) ==
    /\ r.res # "pending"
    /\ r.path = "/api/auth/login" => r.res # "200"
    /\ requests' = requests \ {r}
    /\ tab' = IF Intercepts(r) THEN Leave(r.tab) ELSE tab
    /\ UNCHANGED <<gateway, stored, sso, offline, reloads>>

\* The answer to a fetch reaches its document.
Arrive(r) ==
    /\ r.res # "pending"
    /\ r.path = "/api/auth/login" => r.res # "200"
    /\ requests' = requests \ {r}
    /\ IF Intercepts(r) THEN stored' = NoToken /\ tab' = Leave(r.tab)
                        ELSE UNCHANGED <<stored, tab>>
    /\ UNCHANGED <<gateway, sso, offline, reloads>>

\* The login form's success: the token is stored and initAuth starts the app,
\* once more if it is running.
ArriveLogin(r, telemetry) ==
    /\ r.res = "200" /\ r.path = "/api/auth/login"
    /\ stored' = r.token
    /\ tab' = [tab EXCEPT ![r.tab].token = r.token,
                          ![r.tab].at = IF @ = "unloading" THEN @ ELSE "app"]
    /\ requests' = (requests \ {r}) \cup BootRequests(r.tab, r.token, telemetry)
    /\ UNCHANGED <<gateway, sso, offline, reloads>>

\* A fetch is rejected: the page shows an error and stays.
FetchFails(r) ==
    /\ r.res = "pending"
    /\ requests' = requests \ {r}
    /\ offline' = TRUE
    /\ UNCHANGED <<gateway, stored, tab, sso, reloads>>

\* logout-btn.
Logout(t) ==
    /\ tab[t].at = "app"
    /\ stored' = NoToken
    /\ tab' = Leave(t)
    /\ UNCHANGED <<gateway, requests, sso, offline, reloads>>

-----------------------------------------------------------------------------
(* SSO.                                                                     *)

\* sso-btn and handleSSOLogin: the tab goes to the identity provider with a fresh
\* state, which the browser also keeps as its one oidc_state cookie.
SSOLogin(t) ==
    /\ tab[t].at = "login"
    /\ flows < scope.flows
    /\ flows' = flows + 1
    /\ cookie' = flows + 1
    /\ tab' = [tab EXCEPT ![t].at = "idp", ![t].flow = flows + 1]
    /\ requests' = requests \ Requests(t)
    /\ UNCHANGED <<gateway, stored, offline, reloads>>

\* handleSSOCallback: the provider sent the tab back without a code (the login was
\* called off); or another tab's login has replaced or used up the cookie, or its five
\* minutes are over.  The tab shows the error until it is reloaded.
CallbackRefused(t, code) ==
    /\ tab[t].at = "idp"
    /\ ~ code \/ cookie # tab[t].flow
    /\ tab' = [tab EXCEPT ![t].at = "error"]
    /\ UNCHANGED <<gateway, stored, requests, sso, offline, reloads>>

\* The exchange or the ID token fails: a redirect to /login, which is the page.
CallbackFails(t, telemetry) ==
    /\ tab[t].at = "idp"
    /\ cookie = tab[t].flow
    /\ cookie' = 0
    /\ Open(t, stored, telemetry)
    /\ UNCHANGED <<gateway, stored, flows, offline, reloads>>

\* A redirect to /#token=..., which initAuth stores.
CallbackSucceeds(t, r) ==
    /\ tab[t].at = "idp"
    /\ cookie = tab[t].flow
    /\ cookie' = 0
    /\ Issue(r)
    /\ stored' = issued + 1
    /\ Open(t, issued + 1, FALSE)
    /\ UNCHANGED <<scope, flows, offline, reloads>>

CookieExpires ==
    /\ cookie # 0
    /\ cookie' = 0
    /\ UNCHANGED <<gateway, stored, tab, requests, flows, offline, reloads>>

-----------------------------------------------------------------------------
RequestStep(r) ==
    \/ Answer(r)
    \/ \E good \in BOOLEAN : AnswerLogin(r, good)
    \/ Arrive(r)
    \/ \E telemetry \in BOOLEAN : ArriveLogin(r, telemetry)

Next ==
    \/ \E k \in Token : Expire(k)
    \/ ChangeSecret
    \/ \E t \in Tabs, telemetry \in BOOLEAN : Reload(t, telemetry) \/ UserReload(t, telemetry)
    \/ \E t \in Tabs, path \in {"/api", "/metrics"} : Fetch(t, path)
    \/ \E t \in Tabs : SubmitLogin(t) \/ Logout(t) \/ SSOLogin(t)
    \/ \E t \in Tabs, code \in BOOLEAN : CallbackRefused(t, code)
    \/ \E t \in Tabs, telemetry \in BOOLEAN : CallbackFails(t, telemetry)
    \/ \E t \in Tabs, r \in SSORoles : CallbackSucceeds(t, r)
    \/ \E r \in requests : RequestStep(r) \/ FetchFails(r)
    \/ CookieExpires

Spec == Init /\ [][Next]_vars

\* The numbers of requests under these bounds.
Numbers == 0 .. Max({s.requests : s \in Scopes})

\* Every fetch of a document comes back, however many others there are, and a
\* document that is to be replaced is.
Fairness ==
    \A t \in Tabs :
        /\ \A n \in Numbers :
              WF_vars(\E r \in Requests(t) : r.n = n /\ (RequestStep(r) \/ FetchFails(r)))
        /\ WF_vars(tab[t].at = "unloading" /\ \E telemetry \in BOOLEAN : Reload(t, telemetry))

FairSpec == Spec /\ Fairness

-----------------------------------------------------------------------------
TypeOK ==
    /\ scope \in Scopes
    /\ stored \in Token \cup {NoToken}
    /\ tab \in [Tabs -> [at : {"closed", "login", "app", "unloading", "idp", "error"},
                         token : Token \cup {NoToken}, flow : Nat]]
    /\ offline \in BOOLEAN /\ reloads \in Nat
    /\ \A r \in requests : /\ r.tab \in Tabs /\ r.path \in {"/api", "/metrics", "/api/auth/login"}
                           /\ r.token \in Token \cup {NoToken}
                           /\ r.res \in {"pending", "200", "401", "403"}
    /\ issued \in 0 .. MaxTokens /\ valid \subseteq 1 .. issued
    /\ role \in [Token -> Roles]
    /\ flows \in Nat /\ cookie \in 0 .. flows

\* A step that ends the session of tab t is its user's logout, or the page met a
\* refusal that stands for one of the causes.
Leaves(t) == tab[t].at = "app" /\ tab'[t].at = "unloading"
Refused(r) == r.path = "/api" /\ r.token \notin valid
MetricsRefused(r) == r.path = "/metrics" /\ scope.metricsToken

LeavesForCause ==
    \A t \in Tabs : Leaves(t) =>
        Logout(t) \/ \E r \in Requests(t) : Refused(r) \/ MetricsRefused(r)

\* "handle expired sessions": the page ends a session only when its user logs out,
\* or the gateway has refused a token this document used that is no longer valid,
\* or /metrics, protected by METRICS_TOKEN, has refused a portal token.  A failed
\* request, a wrong password or a missing role does not sign anyone out.
SignedOutForCause == [][LeavesForCause]_vars

LossForCause ==
    stored \in valid /\ stored' = NoToken =>
        \/ \E t \in Tabs : Logout(t)
        \/ \E r \in requests : (Refused(r) /\ r.token # stored) \/ MetricsRefused(r)

\* The token in localStorage, which all tabs share, is dropped while it is still
\* valid only by a logout, by a tab that was still using another, refused token,
\* or by a protected /metrics.
StoredTokenLossHasACause == [][LossForCause]_vars

LeavesExpired ==
    \A t \in Tabs : Leaves(t) => Logout(t) \/ \E r \in Requests(t) : Refused(r)

\* "handle expired sessions (e.g. on server restart)", with no exception.
OnlyExpiredSessionsEnd == [][LeavesExpired]_vars

\* A document that sends a request with a token the gateway no longer accepts stops
\* using the token, unless its connection fails.
RefusedTokenDropped ==
    \A t \in Tabs, k \in Token :
        (k \notin valid /\ \E r \in Requests(t) : r.path = "/api" /\ r.token = k /\ r.res = "pending")
            ~> (tab[t].token # k \/ offline)
=============================================================================
