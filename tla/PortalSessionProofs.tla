------------------------ MODULE PortalSessionProofs ------------------------
(***************************************************************************)
(* PortalSession, for any number of tabs, tokens, SSO logins and requests:   *)
(* what may end a session, and what may take the shared token away.          *)
(***************************************************************************)
EXTENDS PortalSession, TLAPS

Paths == {"/api", "/metrics", "/api/auth/login"}
Held(n) == (1 .. n) \cup {NoToken}

\* A request is a record; its token was issued (n were); a login that succeeded carries
\* its token; and a refusal still on its way stands for a cause that has not gone
\* away: a token the gateway does not accept (V are), or METRICS_TOKEN (m).
Sound(r, n, V, m) ==
    /\ DOMAIN r = {"tab", "path", "token", "n", "res"}
    /\ r.tab \in Tabs /\ r.path \in Paths
    /\ r.token \in Held(n)
    /\ r.res \in {"pending", "200", "401", "403"}
    /\ r.path = "/api/auth/login" /\ r.res = "200" => r.token # NoToken
    /\ r.path = "/api" /\ r.res = "401" => r.token \notin V
    /\ r.path = "/metrics" /\ r.res = "401" => m

RequestsSound == \A r \in requests : Sound(r, issued, valid, scope.metricsToken)

\* The parts of TypeOK that are not about requests, with the browser's tokens issued.
StateOK ==
    /\ scope \in Scopes
    /\ stored \in Held(issued)
    /\ tab \in [Tabs -> [at : {"closed", "login", "app", "unloading", "idp", "error"},
                         token : Held(issued), flow : Nat]]
    /\ offline \in BOOLEAN /\ reloads \in Nat
    /\ issued \in Nat /\ issued <= MaxTokens /\ valid \subseteq 1 .. issued
    /\ role \in [Token -> Roles]
    /\ flows \in Nat /\ cookie \in 0 .. flows

IInv == StateOK /\ RequestsSound

-----------------------------------------------------------------------------
\* Tokens that were issued stay issued.
LEMMA HeldGrows ==
    ASSUME NEW n \in Nat, NEW k \in Nat, n <= k
    PROVE  Held(n) \subseteq Held(k)
  BY DEF Held

\* A sound request stays sound: no token becomes valid again.
LEMMA SoundStays ==
    ASSUME NEW n \in Nat, NEW k \in Nat, n <= k, NEW V, NEW W, W \subseteq V \cup {n + 1},
           NEW m, NEW r, Sound(r, n, V, m)
    PROVE  Sound(r, k, W, m)
<1>1. r.token \in Held(k)
  BY HeldGrows DEF Sound
<1>2. r.token # n + 1
  BY SessionAssumption DEF Sound, Held
<1>3. r.token \notin V => r.token \notin W
  BY <1>2
<1> QED
  BY <1>1, <1>3 DEF Sound

\* A request is sound when it is sent, and when it is answered as Status says.
LEMMA RequestSound ==
    ASSUME NEW t \in Tabs, NEW path \in Paths, NEW n \in Nat, NEW token \in Held(n), NEW i,
           NEW V, NEW m
    PROVE  Sound(Request(t, path, token, i), n, V, m)
  BY DEF Request, Sound, Held, Paths

LEMMA AnswerSound ==
    ASSUME NEW r \in requests, IInv, r.path # "/api/auth/login"
    PROVE  Sound([r EXCEPT !.res = Status(r)], issued, valid, scope.metricsToken)
<1> DEFINE s == [r EXCEPT !.res = Status(r)]
<1>1. Sound(r, issued, valid, scope.metricsToken)
  BY DEF IInv, RequestsSound
<1>2. /\ DOMAIN s = {"tab", "path", "token", "n", "res"}
      /\ s.tab = r.tab /\ s.path = r.path /\ s.token = r.token /\ s.res = Status(r)
  BY <1>1 DEF Sound
<1>3. /\ Status(r) \in {"200", "401", "403"}
      /\ r.path = "/api" /\ Status(r) = "401" => r.token \notin valid
      /\ r.path = "/metrics" /\ Status(r) = "401" => scope.metricsToken
  BY <1>1 DEF Status, MetricsStatus, Sound, Paths
<1> HIDE DEF s
<1>4. Sound(s, issued, valid, scope.metricsToken)
  BY <1>1, <1>2, <1>3 DEF Sound
<1> QED
  BY <1>4 DEF s

\* The login form's answer.
LEMMA LoginSound ==
    ASSUME NEW r, NEW n \in Nat, NEW V, NEW m, Sound(r, n, V, m), r.path = "/api/auth/login"
    PROVE  /\ Sound([r EXCEPT !.res = "401"], n, V, m)
           /\ Sound([r EXCEPT !.res = "200", !.token = n + 1], n + 1, V \cup {n + 1}, m)
<1> DEFINE s == [r EXCEPT !.res = "401"]
           u == [r EXCEPT !.res = "200", !.token = n + 1]
<1>1. /\ DOMAIN s = {"tab", "path", "token", "n", "res"}
      /\ s.tab = r.tab /\ s.path = r.path /\ s.token = r.token /\ s.res = "401"
  BY DEF Sound
<1>2. /\ DOMAIN u = {"tab", "path", "token", "n", "res"}
      /\ u.tab = r.tab /\ u.path = r.path /\ u.token = n + 1 /\ u.res = "200"
  BY DEF Sound
<1>3. n + 1 \in Held(n + 1) /\ n + 1 # NoToken
  BY SessionAssumption DEF Held
<1> HIDE DEF s, u
<1>4. Sound(s, n, V, m)
  BY <1>1 DEF Sound
<1>5. Sound(u, n + 1, V \cup {n + 1}, m)
  BY <1>2, <1>3 DEF Sound
<1> QED
  BY <1>4, <1>5 DEF s, u

-----------------------------------------------------------------------------
\* No step makes a request that is under way unsound.
LEMMA Grown ==
    ASSUME IInv, scope' = scope, issued' \in Nat, issued <= issued',
           valid' \subseteq valid \cup {issued + 1}
    PROVE  \A r \in requests : Sound(r, issued', valid', scope'.metricsToken)
  BY SoundStays DEF IInv, StateOK, RequestsSound

\* The same for a step that issues no token.
LEMMA Kept ==
    ASSUME IInv, scope' = scope, issued' = issued, valid' \subseteq valid
    PROVE  \A r \in requests : Sound(r, issued', valid', scope'.metricsToken)
  BY Grown DEF IInv, StateOK

\* A token is issued.
LEMMA Issued ==
    ASSUME IInv, NEW q \in Roles, Issue(q)
    PROVE  /\ issued' = issued + 1 /\ issued' \in Nat /\ issued' <= MaxTokens /\ issued <= issued'
           /\ valid' = valid \cup {issued + 1} /\ valid' \subseteq 1 .. issued'
           /\ role' \in [Token -> Roles] /\ issued + 1 \in Held(issued')
           /\ Held(issued) \subseteq Held(issued')
<1>1. issued' = issued + 1 /\ issued < MaxTokens /\ valid' = valid \cup {issued + 1}
      /\ issued \in Nat /\ valid \subseteq 1 .. issued
  BY DEF Issue, IInv, StateOK
<1>2. issued' \in Nat /\ issued' <= MaxTokens /\ issued <= issued'
  BY <1>1, SessionAssumption
<1>3. valid' \subseteq 1 .. issued'
  BY <1>1
<1>4. role' \in [Token -> Roles]
  BY DEF Issue, IInv, StateOK
<1>5. issued + 1 \in Held(issued') /\ Held(issued) \subseteq Held(issued')
  BY <1>1 DEF Held
<1> QED
  BY <1>1, <1>2, <1>3, <1>4, <1>5

\* A document is opened.
LEMMA OpenOK ==
    ASSUME NEW t \in Tabs, NEW telemetry \in BOOLEAN, NEW token \in Held(issued'),
           issued' \in Nat, tab \in [Tabs -> [at : {"closed", "login", "app", "unloading", "idp", "error"},
                                            token : Held(issued'), flow : Nat]],
           \A r \in requests : Sound(r, issued', valid', scope'.metricsToken),
           Open(t, token, telemetry)
    PROVE  /\ tab' \in [Tabs -> [at : {"closed", "login", "app", "unloading", "idp", "error"},
                                 token : Held(issued'), flow : Nat]]
           /\ RequestsSound'
           /\ tab'[t].at # "unloading" /\ \A u \in Tabs \ {t} : tab'[u] = tab[u]
<1>1. \A path \in Paths : Sound(Request(t, path, token, 0), issued', valid', scope'.metricsToken)
  BY RequestSound
<1>2. \A r \in BootRequests(t, token, telemetry) : Sound(r, issued', valid', scope'.metricsToken)
  BY <1>1 DEF BootRequests, Paths
<1>3. requests' \subseteq requests \cup BootRequests(t, token, telemetry)
  BY DEF Open
<1>4. RequestsSound'
  BY <1>2, <1>3 DEF RequestsSound
<1> QED
  BY <1>4 DEF Open

LEMMA InitInv == Init => IInv
<1> SUFFICES ASSUME Init PROVE IInv
  OBVIOUS
<1>1. RequestsSound /\ scope \in Scopes /\ offline \in BOOLEAN /\ role \in [Token -> Roles]
  BY DEF Init, RequestsSound, Roles
<1>2. /\ stored \in Held(issued) /\ issued \in Nat /\ issued <= MaxTokens
      /\ valid \subseteq 1 .. issued /\ reloads \in Nat
      /\ flows \in Nat /\ cookie \in 0 .. flows
  BY SessionAssumption DEF Init, Held
<1>3. tab \in [Tabs -> [at : {"closed", "login", "app", "unloading", "idp", "error"},
                       token : Held(issued), flow : Nat]]
  BY DEF Init, Held
<1> QED
  BY <1>1, <1>2, <1>3 DEF IInv, StateOK

LEMMA StepInv == IInv /\ [Next]_vars => IInv'
<1> SUFFICES ASSUME IInv, [Next]_vars PROVE IInv'
  OBVIOUS
<1>1. ASSUME NEW k \in Token, Expire(k) PROVE IInv'
  BY <1>1, Kept DEF Expire, sso, IInv, StateOK, RequestsSound
<1>2. CASE ChangeSecret
  BY <1>2, Kept DEF ChangeSecret, sso, IInv, StateOK, RequestsSound
<1>3. ASSUME NEW t \in Tabs, NEW telemetry \in BOOLEAN, Reload(t, telemetry) PROVE IInv'
  <2>1. UNCHANGED <<gateway, stored, sso, offline, reloads>> /\ Open(t, stored, telemetry)
    BY <1>3 DEF Reload
  <2>2. tab' \in [Tabs -> [at : {"closed", "login", "app", "unloading", "idp", "error"},
                           token : Held(issued'), flow : Nat]] /\ RequestsSound'
    BY <2>1, OpenOK, Kept DEF gateway, IInv, StateOK
  <2> QED
    BY <2>1, <2>2 DEF gateway, sso, IInv, StateOK
<1>4. ASSUME NEW t \in Tabs, NEW telemetry \in BOOLEAN, UserReload(t, telemetry) PROVE IInv'
  <2>1. UNCHANGED <<gateway, stored, sso, offline>> /\ Open(t, stored, telemetry)
        /\ reloads' = reloads + 1
    BY <1>4 DEF UserReload
  <2>2. tab' \in [Tabs -> [at : {"closed", "login", "app", "unloading", "idp", "error"},
                           token : Held(issued'), flow : Nat]] /\ RequestsSound'
    BY <2>1, OpenOK, Kept DEF gateway, IInv, StateOK
  <2> QED
    BY <2>1, <2>2 DEF gateway, sso, IInv, StateOK
<1>5. ASSUME NEW t \in Tabs, NEW path \in {"/api", "/metrics"}, Fetch(t, path) PROVE IInv'
  <2>1. Sound(Request(t, path, tab[t].token, Free(t)), issued, valid, scope.metricsToken)
    BY RequestSound DEF IInv, StateOK, Paths
  <2> QED
    BY <1>5, <2>1, Kept DEF Fetch, gateway, sso, IInv, StateOK, RequestsSound
<1>6. ASSUME NEW t \in Tabs, SubmitLogin(t) PROVE IInv'
  <2>1. Sound(Request(t, "/api/auth/login", NoToken, Free(t)), issued, valid, scope.metricsToken)
    BY RequestSound DEF IInv, StateOK, Paths, Held
  <2> QED
    BY <1>6, <2>1, Kept DEF SubmitLogin, gateway, sso, IInv, StateOK, RequestsSound
<1>7. ASSUME NEW t \in Tabs, Logout(t) PROVE IInv'
  <2>1. NoToken \in Held(issued)
    BY DEF Held
  <2> QED
    BY <1>7, <2>1, Kept DEF Logout, Leave, gateway, sso, IInv, StateOK, RequestsSound
<1>8. ASSUME NEW t \in Tabs, SSOLogin(t) PROVE IInv'
  <2>1. tab' \in [Tabs -> [at : {"closed", "login", "app", "unloading", "idp", "error"},
                           token : Held(issued), flow : Nat]]
    <3>1. flows' \in Nat /\ tab' = [tab EXCEPT ![t].at = "idp", ![t].flow = flows']
      BY <1>8 DEF SSOLogin, IInv, StateOK
    <3>2. tab \in [Tabs -> [at : {"closed", "login", "app", "unloading", "idp", "error"},
                           token : Held(issued), flow : Nat]]
      BY DEF IInv, StateOK
    <3> QED
      BY <3>1, <3>2
  <2>2. flows' \in Nat /\ cookie' \in 0 .. flows' /\ requests' \subseteq requests
    BY <1>8 DEF SSOLogin, IInv, StateOK
  <2> QED
    BY <1>8, <2>1, <2>2, Kept DEF SSOLogin, gateway, IInv, StateOK, RequestsSound
<1>9. ASSUME NEW t \in Tabs, NEW code, CallbackRefused(t, code) PROVE IInv'
  BY <1>9, Kept DEF CallbackRefused, gateway, sso, IInv, StateOK, RequestsSound
<1>10. ASSUME NEW t \in Tabs, NEW telemetry \in BOOLEAN, CallbackFails(t, telemetry) PROVE IInv'
  <2>1. UNCHANGED <<gateway, stored, flows, offline, reloads>> /\ Open(t, stored, telemetry)
        /\ cookie' = 0
    BY <1>10 DEF CallbackFails
  <2>2. tab' \in [Tabs -> [at : {"closed", "login", "app", "unloading", "idp", "error"},
                           token : Held(issued'), flow : Nat]] /\ RequestsSound'
    BY <2>1, OpenOK, Kept DEF gateway, IInv, StateOK
  <2> QED
    BY <2>1, <2>2 DEF gateway, IInv, StateOK
<1>11. ASSUME NEW t \in Tabs, NEW r \in SSORoles, CallbackSucceeds(t, r) PROVE IInv'
  <2> r \in Roles
    BY SessionAssumption
  <2>1. /\ UNCHANGED <<scope, flows, offline, reloads>> /\ Open(t, issued + 1, FALSE)
        /\ cookie' = 0 /\ stored' = issued + 1 /\ Issue(r)
    BY <1>11 DEF CallbackSucceeds
  <2>2. /\ issued' \in Nat /\ issued' <= MaxTokens /\ issued <= issued'
        /\ valid' \subseteq 1 .. issued' /\ valid' \subseteq valid \cup {issued + 1}
        /\ role' \in [Token -> Roles] /\ issued + 1 \in Held(issued')
    BY <2>1, Issued
  <2>3. tab \in [Tabs -> [at : {"closed", "login", "app", "unloading", "idp", "error"},
                           token : Held(issued'), flow : Nat]]
    BY <2>2, HeldGrows DEF IInv, StateOK
  <2>4. tab' \in [Tabs -> [at : {"closed", "login", "app", "unloading", "idp", "error"},
                           token : Held(issued'), flow : Nat]] /\ RequestsSound'
    BY <2>1, <2>2, <2>3, OpenOK, Grown
  <2> QED
    BY <2>1, <2>2, <2>4 DEF IInv, StateOK
<1>12. ASSUME NEW r \in requests, Answer(r) PROVE IInv'
  BY <1>12, AnswerSound, Kept DEF Answer, Answered, gateway, sso, IInv, StateOK, RequestsSound
<1>13. ASSUME NEW r \in requests, NEW good \in BOOLEAN, AnswerLogin(r, good) PROVE IInv'
  <2>1. Sound(r, issued, valid, scope.metricsToken)
    BY DEF IInv, RequestsSound
  <2>2. CASE good
    <3>1. /\ issued' \in Nat /\ issued' <= MaxTokens /\ issued' = issued + 1 /\ issued <= issued'
          /\ valid' \subseteq 1 .. issued' /\ valid' = valid \cup {issued + 1}
          /\ role' \in [Token -> Roles] /\ scope' = scope
          /\ Held(issued) \subseteq Held(issued')
      BY <1>13, <2>2, Issued DEF AnswerLogin, Roles
    <3> DEFINE u == [r EXCEPT !.res = "200", !.token = issued + 1]
    <3>2. Sound(u, issued', valid', scope'.metricsToken)
      <4>1. issued \in Nat /\ r.path = "/api/auth/login"
        BY <1>13 DEF AnswerLogin, IInv, StateOK
      <4>2. Sound(u, issued + 1, valid \cup {issued + 1}, scope.metricsToken)
        BY <2>1, <4>1, LoginSound
      <4> QED
        BY <3>1, <4>2
    <3>3. \A q \in requests : Sound(q, issued', valid', scope'.metricsToken)
      BY <3>1, Grown
    <3>4. requests' \subseteq requests \cup {u}
      BY <1>13, <2>2 DEF AnswerLogin
    <3>5. RequestsSound'
      BY <3>2, <3>3, <3>4 DEF RequestsSound
    <3> QED
      BY <1>13, <3>1, <3>5 DEF AnswerLogin, sso, IInv, StateOK
  <2>3. CASE ~ good
    <3> DEFINE u == [r EXCEPT !.res = "401"]
    <3>1. Sound(u, issued, valid, scope.metricsToken)
      BY <1>13, <2>1, LoginSound DEF AnswerLogin, IInv, StateOK
    <3>2. requests' \subseteq requests \cup {u} /\ UNCHANGED <<gateway, stored, tab, sso, offline, reloads>>
      BY <1>13, <2>3 DEF AnswerLogin, Answered, gateway
    <3> HIDE DEF u
    <3>3. RequestsSound'
      BY <3>1, <3>2 DEF RequestsSound, IInv, gateway
    <3> QED
      BY <3>2, <3>3 DEF gateway, sso, IInv, StateOK
  <2> QED
    BY <2>2, <2>3
<1>14. ASSUME NEW r \in requests, Arrive(r) PROVE IInv'
  <2>1. requests' \subseteq requests /\ UNCHANGED <<gateway, sso, offline, reloads>>
    BY <1>14 DEF Arrive
  <2>2. tab' \in [Tabs -> [at : {"closed", "login", "app", "unloading", "idp", "error"},
                           token : Held(issued), flow : Nat]] /\ stored' \in Held(issued)
    BY <1>14 DEF Arrive, Leave, IInv, StateOK, Held
  <2> QED
    BY <2>1, <2>2, Kept DEF gateway, sso, IInv, StateOK, RequestsSound
<1>15. ASSUME NEW r \in requests, NEW telemetry \in BOOLEAN, ArriveLogin(r, telemetry) PROVE IInv'
  <2>1. Sound(r, issued, valid, scope.metricsToken)
    BY DEF IInv, RequestsSound
  <2>2. \A path \in Paths : Sound(Request(r.tab, path, r.token, 0), issued, valid, scope.metricsToken)
    <3>1. r.tab \in Tabs /\ r.token \in Held(issued) /\ issued \in Nat
      BY <2>1 DEF Sound, IInv, StateOK
    <3> QED
      BY <3>1, RequestSound
  <2>3. requests' \subseteq requests \cup BootRequests(r.tab, r.token, telemetry)
        /\ UNCHANGED <<gateway, sso, offline, reloads>>
    BY <1>15 DEF ArriveLogin
  <2>4. RequestsSound'
    BY <2>2, <2>3, Kept DEF BootRequests, Paths, RequestsSound, gateway
  <2>5. tab' \in [Tabs -> [at : {"closed", "login", "app", "unloading", "idp", "error"},
                           token : Held(issued), flow : Nat]] /\ stored' \in Held(issued)
    <3>1. r.tab \in Tabs /\ r.token \in Held(issued)
      BY <2>1 DEF Sound
    <3> DEFINE at == IF tab[r.tab].at = "unloading" THEN "unloading" ELSE "app"
    <3>2. tab' = [tab EXCEPT ![r.tab].token = r.token, ![r.tab].at = at]
      BY <1>15, <3>1 DEF ArriveLogin, IInv, StateOK
    <3>3. at \in {"unloading", "app"}
      OBVIOUS
    <3> HIDE DEF at
    <3> QED
      BY <1>15, <3>1, <3>2, <3>3 DEF ArriveLogin, IInv, StateOK
  <2> QED
    BY <2>3, <2>4, <2>5 DEF gateway, sso, IInv, StateOK
<1>16. ASSUME NEW r \in requests, FetchFails(r) PROVE IInv'
  BY <1>16, Kept DEF FetchFails, gateway, sso, IInv, StateOK, RequestsSound
<1>17. CASE CookieExpires
  BY <1>17, Kept DEF CookieExpires, gateway, IInv, StateOK, RequestsSound
<1>18. CASE UNCHANGED vars
  BY <1>18, Kept DEF vars, IInv, StateOK, RequestsSound
<1> QED
  BY <1>1, <1>2, <1>3, <1>4, <1>5, <1>6, <1>7, <1>8, <1>9, <1>10, <1>11, <1>12, <1>13, <1>14,
     <1>15, <1>16, <1>17, <1>18 DEF Next, RequestStep

\* Tokens, tabs and requests keep their types, and every refusal under way is founded.
THEOREM Invariant == Spec => []IInv
  BY InitInv, StepInv, PTL DEF Spec

-----------------------------------------------------------------------------
\* An answer the fetch interceptor acts on has a cause (fetch interceptor,
\* AdminAuthMiddleware, metricsAuth).
LEMMA Founded ==
    ASSUME IInv, NEW r \in requests, Intercepts(r)
    PROVE  r.tab \in Tabs /\ (Refused(r) \/ MetricsRefused(r))
  BY DEF IInv, RequestsSound, Sound, Paths, Intercepts, Refused, MetricsRefused

\* Steps that open or re-open a document do not end one.
LEMMA OpenLeavesNone ==
    ASSUME IInv, NEW t \in Tabs, NEW token, NEW telemetry, Open(t, token, telemetry)
    PROVE  \A u \in Tabs : ~ Leaves(u)
  BY DEF IInv, StateOK, Open, Leaves

LEMMA StepLeaves == IInv /\ [Next]_vars => LeavesForCause
<1> SUFFICES ASSUME IInv, [Next]_vars, NEW t \in Tabs, Leaves(t)
             PROVE  Logout(t) \/ \E r \in Requests(t) : Refused(r) \/ MetricsRefused(r)
  BY DEF LeavesForCause
<1>1. tab # tab' /\ \A u \in Tabs : \A token, telemetry : ~ Open(u, token, telemetry)
  BY OpenLeavesNone DEF Leaves
<1>2. ASSUME NEW r \in requests, Arrive(r)
      PROVE  \E q \in Requests(t) : Refused(q) \/ MetricsRefused(q)
  <2>1. Intercepts(r) /\ tab' = [tab EXCEPT ![r.tab].at = "unloading"]
    BY <1>1, <1>2 DEF Arrive, Leave
  <2>2. r.tab = t
    BY <2>1, Founded DEF IInv, StateOK, Leaves
  <2> QED
    BY <2>1, <2>2, Founded DEF Requests
<1>3. ASSUME NEW u \in Tabs, Logout(u) PROVE Logout(t)
  <2>1. u = t
    BY <1>3 DEF Logout, Leave, IInv, StateOK, Leaves
  <2> QED
    BY <1>3, <2>1
<1>4. ASSUME NEW u \in Tabs, NEW code, SSOLogin(u) \/ CallbackRefused(u, code) PROVE FALSE
  BY <1>4 DEF SSOLogin, CallbackRefused, IInv, StateOK, Leaves
<1>5. ASSUME NEW r \in requests, NEW telemetry \in BOOLEAN, ArriveLogin(r, telemetry) PROVE FALSE
  <2>1. r.tab \in Tabs
    BY DEF IInv, RequestsSound, Sound
  <2>2. tab'[t].at \in {tab[t].at, "app"}
    BY <1>5, <2>1 DEF ArriveLogin, IInv, StateOK
  <2> QED
    BY <2>2 DEF Leaves
<1> QED
  BY <1>1, <1>2, <1>3, <1>4, <1>5
  DEF Next, RequestStep, vars, Expire, ChangeSecret, Reload, UserReload, Fetch, SubmitLogin,
      CallbackFails, CallbackSucceeds, Answer, AnswerLogin, FetchFails, CookieExpires

\* A session of the portal ends only by its user's logout, by the refusal of a token
\* that is not valid, or by a protected /metrics (fetch interceptor of app.js).
THEOREM SessionsEndForCause == Spec => SignedOutForCause
  BY Invariant, StepLeaves, PTL DEF Spec, SignedOutForCause

LEMMA StepLoss == IInv /\ [Next]_vars => LossForCause
<1> SUFFICES ASSUME IInv, [Next]_vars, stored \in valid, stored' = NoToken
             PROVE  \/ \E t \in Tabs : Logout(t)
                    \/ \E r \in requests : (Refused(r) /\ r.token # stored) \/ MetricsRefused(r)
  BY DEF LossForCause
<1>1. stored # NoToken /\ stored' # stored /\ issued + 1 # NoToken
  BY SessionAssumption DEF IInv, StateOK
<1>2. ASSUME NEW r \in requests, Arrive(r)
      PROVE  \E q \in requests : (Refused(q) /\ q.token # stored) \/ MetricsRefused(q)
  <2>1. Intercepts(r)
    BY <1>1, <1>2 DEF Arrive
  <2> QED
    BY <2>1, Founded DEF Refused
<1>3. ASSUME NEW r \in requests, NEW telemetry \in BOOLEAN, ArriveLogin(r, telemetry) PROVE FALSE
  BY <1>3 DEF ArriveLogin, IInv, RequestsSound, Sound
<1> QED
  BY <1>1, <1>2, <1>3
  DEF Next, RequestStep, vars, Expire, ChangeSecret, Reload, UserReload, Fetch, SubmitLogin, SSOLogin,
      CallbackRefused, CallbackFails, CallbackSucceeds, Answer, AnswerLogin, FetchFails, CookieExpires

\* The token all tabs share is lost while it is valid only by a logout, by the late
\* refusal of another token, or by a protected /metrics (localStorage.removeItem).
THEOREM TokenLossHasACause == Spec => StoredTokenLossHasACause
  BY Invariant, StepLoss, PTL DEF Spec, StoredTokenLossHasACause

\* Where METRICS_TOKEN is not set, only expired sessions end: the documented claim holds,
\* and a protected /metrics is the one way it fails (fetch interceptor, metricsAuth).
THEOREM OnlyMetricsSignOutTheValid ==
    ASSUME \A s \in Scopes : ~ s.metricsToken PROVE Spec => OnlyExpiredSessionsEnd
<1>1. IInv /\ LeavesForCause => LeavesExpired
  BY DEF IInv, StateOK, LeavesForCause, LeavesExpired, MetricsRefused
<1> QED
  BY <1>1, Invariant, StepLeaves, PTL DEF Spec, OnlyExpiredSessionsEnd

-----------------------------------------------------------------------------
(* The way of a refused token out of the browser.                            *)

\* The document of tab t is replaced.
Replaced(t) == SSOLogin(t) \/ \E token, telemetry : Open(t, token, telemetry)

RefusalAdvances(r) ==
    \/ r \in requests'
    \/ r.res = "pending" /\ ([r EXCEPT !.res = "401"] \in requests' \/ offline')
    \/ r.res = "401" /\ stored' = NoToken /\ tab'[r.tab].at = "unloading"
    \/ r.res \in {"200", "403"}
    \/ Replaced(r.tab)

\* A token that is not valid never is again, and a request with it stays under way, is
\* refused or fails, and on the refusal the token is dropped and the document reloaded,
\* unless the gateway answered while the token was valid or the document is replaced first.
RefusalsTakeEffect ==
    [][/\ valid' \cap (1 .. issued) \subseteq valid
       /\ \A r \in requests : r.path = "/api" /\ r.token \notin valid => RefusalAdvances(r)]_vars

LEMMA OpenAdvances ==
    ASSUME IInv, NEW t, NEW token, NEW telemetry, Open(t, token, telemetry), NEW r \in requests
    PROVE  RefusalAdvances(r)
<1>1. CASE r.tab = t
  BY <1>1 DEF RefusalAdvances, Replaced
<1>2. CASE r.tab # t
  BY <1>2 DEF RefusalAdvances, Open, Requests
<1> QED
  BY <1>1, <1>2

LEMMA StepRefuses ==
    ASSUME IInv, [Next]_vars, NEW r \in requests, r.path = "/api", r.token \notin valid
    PROVE  RefusalAdvances(r)
<1>1. DOMAIN r = {"tab", "path", "token", "n", "res"} /\ r.tab \in Tabs
      /\ r.res \in {"pending", "200", "401", "403"}
  BY DEF IInv, RequestsSound, Sound
<1>2. ASSUME NEW q \in requests, Answer(q) PROVE RefusalAdvances(r)
  <2>1. CASE q = r
    <3>1. Status(r) = "401"
      BY DEF Status
    <3> QED
      BY <1>2, <2>1, <3>1 DEF Answer, Answered, RefusalAdvances
  <2>2. CASE q # r
    BY <1>2, <2>2 DEF Answer, Answered, RefusalAdvances
  <2> QED
    BY <2>1, <2>2
<1>3. ASSUME NEW q \in requests, NEW good, AnswerLogin(q, good) PROVE RefusalAdvances(r)
  BY <1>3 DEF AnswerLogin, Answered, RefusalAdvances
<1>4. ASSUME NEW q \in requests, Arrive(q) PROVE RefusalAdvances(r)
  <2>1. CASE q = r /\ r.res = "401"
    <3>1. stored' = NoToken /\ tab' = [tab EXCEPT ![r.tab].at = "unloading"]
      BY <1>4, <2>1 DEF Arrive, Intercepts, Leave
    <3>2. tab'[r.tab].at = "unloading"
      BY <1>1, <3>1 DEF IInv, StateOK
    <3> QED
      BY <2>1, <3>1, <3>2 DEF RefusalAdvances
  <2>2. CASE ~ (q = r /\ r.res = "401")
    BY <1>1, <1>4, <2>2 DEF Arrive, RefusalAdvances
  <2> QED
    BY <2>1, <2>2
<1>5. ASSUME NEW q \in requests, NEW telemetry, ArriveLogin(q, telemetry) PROVE RefusalAdvances(r)
  BY <1>5 DEF ArriveLogin, RefusalAdvances
<1>6. ASSUME NEW q \in requests, FetchFails(q) PROVE RefusalAdvances(r)
  BY <1>6 DEF FetchFails, RefusalAdvances
<1>7. ASSUME NEW t, SSOLogin(t) PROVE RefusalAdvances(r)
  <2>1. CASE r.tab = t
    BY <1>7, <2>1 DEF RefusalAdvances, Replaced
  <2>2. CASE r.tab # t
    BY <1>7, <2>2 DEF RefusalAdvances, SSOLogin, Requests
  <2> QED
    BY <2>1, <2>2
<1>8. ASSUME requests \subseteq requests' PROVE RefusalAdvances(r)
  BY <1>8 DEF RefusalAdvances
<1>9. ASSUME NEW t, NEW path, Fetch(t, path) \/ SubmitLogin(t) PROVE requests \subseteq requests'
  BY <1>9 DEF Fetch, SubmitLogin
<1>10. ASSUME NEW t, NEW code,
              \/ Logout(t) \/ CallbackRefused(t, code) \/ CookieExpires
              \/ ChangeSecret \/ Expire(t) \/ UNCHANGED vars
       PROVE  requests' = requests
  BY <1>10 DEF Logout, CallbackRefused, CookieExpires, ChangeSecret, Expire, vars
<1>11. ASSUME NEW t, NEW x, Reload(t, x) \/ UserReload(t, x) \/ CallbackFails(t, x) \/ CallbackSucceeds(t, x)
       PROVE  RefusalAdvances(r)
  BY <1>11, OpenAdvances DEF Reload, UserReload, CallbackFails, CallbackSucceeds
<1> HIDE DEF RefusalAdvances
<1> QED
  BY <1>2, <1>3, <1>4, <1>5, <1>6, <1>7, <1>8, <1>9, <1>10, <1>11 DEF Next, RequestStep

\* Whoever issues, expires, logs in, logs out or reloads meanwhile, a token that the
\* gateway no longer accepts is on its way out of a document that uses it (fetch
\* interceptor): with the browser's fairness this is why it is dropped
\* (RefusedTokenDropped).
THEOREM RefusedTokensGo == Spec => RefusalsTakeEffect
<1>1. ASSUME IInv, [Next]_vars PROVE valid' \cap (1 .. issued) \subseteq valid
  <2>1. ASSUME NEW ro, Issue(ro) PROVE valid' \cap (1 .. issued) \subseteq valid
    BY <1>1, <2>1 DEF Issue, IInv, StateOK
  <2>2. CASE valid' \subseteq valid
    BY <2>2
  <2>3. \/ valid' \subseteq valid
        \/ \E ro : Issue(ro)
    BY <1>1 DEF Next, RequestStep, vars, gateway, Expire, ChangeSecret, Reload, UserReload, Fetch,
       SubmitLogin, Logout, SSOLogin, CallbackRefused, CallbackFails, CallbackSucceeds, Answer,
       AnswerLogin, Arrive, ArriveLogin, FetchFails, CookieExpires
  <2> QED
    BY <2>1, <2>2, <2>3
<1>2. IInv /\ [Next]_vars =>
        [/\ valid' \cap (1 .. issued) \subseteq valid
         /\ \A r \in requests : r.path = "/api" /\ r.token \notin valid => RefusalAdvances(r)]_vars
  BY <1>1, StepRefuses
<1> QED
  BY <1>2, Invariant, PTL DEF Spec, RefusalsTakeEffect

-----------------------------------------------------------------------------
\* The types of the browser's and the gateway's state (STATE, localStorage, JWTs).
THEOREM TypeCorrect == Spec => []TypeOK
<1>1. IInv => TypeOK
  <2> SUFFICES ASSUME IInv PROVE TypeOK
    OBVIOUS
  <2>1. Held(issued) \subseteq Token \cup {NoToken} /\ issued \in 0 .. MaxTokens
    BY SessionAssumption DEF IInv, StateOK, Held, Token
  <2>2. \A r \in requests : /\ r.tab \in Tabs /\ r.path \in {"/api", "/metrics", "/api/auth/login"}
                            /\ r.token \in Token \cup {NoToken}
                            /\ r.res \in {"pending", "200", "401", "403"}
    BY <2>1 DEF IInv, RequestsSound, Sound, Paths
  <2>3. tab \in [Tabs -> [at : {"closed", "login", "app", "unloading", "idp", "error"},
                         token : Token \cup {NoToken}, flow : Nat]]
    BY <2>1 DEF IInv, StateOK
  <2> QED
    BY <2>1, <2>2, <2>3 DEF IInv, StateOK, TypeOK
<1> QED
  BY <1>1, Invariant, PTL
=============================================================================
