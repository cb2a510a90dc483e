-------------------------- MODULE PortalPageProofs --------------------------
(***************************************************************************)
(* PortalPage, for any set of rows, any number of calls under way and any     *)
(* bounds: saves reach their row, tool names are resolved, badges tell the    *)
(* truth, no view waits for nobody, a view shows the page's own writes, and    *)
(* every call comes to its end.                                               *)
(***************************************************************************)
EXTENDS PortalPage, FiniteSetTheorems, WellFoundedInduction, TLAPS

Pos == Nat \ {0}
TaskFields == {"op", "what", "n", "stage", "id", "opened", "res", "blind", "other",
               "list", "settings"}
ViewFields == {"status", "list", "via", "blind"}
FormFields == {"open", "id", "opened", "options"}

\* An answer of /api/settings is what handleSettings makes of some settings.
SettingsOK(s) == s.of \in Config /\ s.data = Settings(s.of)

\* A call under way: settings are an answer, and what the call has read was read from
\* the gateway.  c is the version of STATE.connections: a call
\* of loadEndpoints past its first request has seen them loaded, or seen that fail.
TaskOK(t, c) ==
    /\ DOMAIN t = TaskFields
    /\ t.what \in Parts /\ (t.op # "load" => t.what \in Tables)
    /\ SettingsOK(t.settings)
    /\ t.stage \in {"asked2", "both"} => t.what = "dashboard"
    /\ t.stage = "preloaded" /\ t.res = "ok" => t.other.at \in Pos
    /\ t.op = "load" /\ t.what = "dashboard" /\ t.stage \in {"asked2", "both"} /\ t.res = "ok"
          => t.other.at \in Pos
    /\ t.stage \in {"asked", "asked2", "both"} => t.res = "ok"
    /\ t.op = "load" /\ t.what = "connections" /\ t.stage = "answered" /\ t.res = "ok"
          => t.list.at \in Pos
    /\ t.op = "load" /\ t.what = "endpoints" /\ t.stage \in {"asked", "answered"} /\ ~ t.blind
          => c \in Pos

ViewsOK ==
    /\ DOMAIN views = Views
    /\ \A v \in Views : DOMAIN views[v] = ViewFields
    /\ NamesResolved

FormOK(f) == DOMAIN f = FormFields

FormsOK == DOMAIN forms = Forms /\ \A r \in Forms : FormOK(forms[r])

\* STATE.connections: its version is 0 as long as it is the initial [].
ListsOK ==
    /\ DOMAIN lists = Forms
    /\ lists["connections"].at \in Nat
    /\ lists["connections"].at = 0 => lists["connections"].ids = {}

TasksOK == \A t \in tasks : TaskOK(t, lists["connections"].at)

GatewayOK == scope \in Scopes /\ version \in [Tables -> Pos] /\ config \in Config

\* A document that is not open has nothing under way.
LoginOK == page = "login" => tasks = {}

IInv ==
    /\ GatewayOK /\ SettingsOK(badges) /\ ListsOK /\ ViewsOK /\ FormsOK
    /\ TasksOK /\ LoadingHasALoad /\ LoginOK

-----------------------------------------------------------------------------
(* Calls.                                                                   *)

LEMMA PlainIsConfig == PlainConfig \in Config /\ SettingsOK(NoSettings)
  BY DEF PlainConfig, Config, NoSettings, SettingsOK

\* STATE.connections, once loaded, stays loaded: a call keeps what it knew.
LEMMA TaskStays ==
    ASSUME NEW t, NEW c, NEW d, c \in Pos => d \in Pos, TaskOK(t, c)
    PROVE  TaskOK(t, d)
  BY DEF TaskOK

\* The number that tells equal calls apart matters to nothing.
LEMMA NumberedOK ==
    ASSUME NEW t, NEW c, TaskOK(t, c)
    PROVE  TaskOK(Numbered(t), c) /\ Numbered(t).op = t.op /\ Numbered(t).what = t.what
<1> DEFINE k == Min((1 .. Cardinality({u \in tasks : u.op = t.op /\ u.what = t.what}) + 1)
                     \ {u.n : u \in {v \in tasks : v.op = t.op /\ v.what = t.what}})
           s == [t EXCEPT !.n = k]
<1>1. Numbered(t) = s
  BY DEF Numbered
<1> HIDE DEF k
<1>2. /\ DOMAIN s = TaskFields /\ s.op = t.op /\ s.what = t.what /\ s.id = t.id
      /\ s.opened = t.opened /\ s.settings = t.settings /\ s.stage = t.stage /\ s.res = t.res
      /\ s.other = t.other /\ s.list = t.list /\ s.blind = t.blind
  BY DEF TaskOK, TaskFields
<1> HIDE DEF s
<1>3. TaskOK(s, c)
  BY <1>2 DEF TaskOK
<1> QED
  BY <1>1, <1>2, <1>3

\* A call that starts.
LEMMA LoadOK ==
    ASSUME NEW w \in Parts, NEW n, ListsOK
    PROVE  /\ TaskOK(Load(w, n, FirstStage(w)), lists["connections"].at)
           /\ Load(w, n, FirstStage(w)).op = "load" /\ Load(w, n, FirstStage(w)).what = w
<1> DEFINE s == Load(w, n, FirstStage(w))
<1>1. /\ DOMAIN s = TaskFields /\ s.op = "load" /\ s.what = w /\ s.stage = FirstStage(w)
      /\ s.settings = NoSettings /\ s.res = "ok"
  BY DEF Load, TaskFields
<1>2. FirstStage(w) \in {"preload", "asked"}
  BY DEF FirstStage
<1>3. w = "endpoints" /\ FirstStage(w) = "asked" => lists["connections"].at \in Pos
  BY DEF FirstStage, ListsOK, Pos
<1> HIDE DEF s
<1>4. TaskOK(s, lists["connections"].at)
  BY <1>1, <1>2, <1>3, PlainIsConfig DEF TaskOK
<1> QED
  BY <1>1, <1>4 DEF s

LEMMA StartLoadsOK ==
    ASSUME NEW W, ListsOK, scope.parts \subseteq Parts
    PROVE  /\ \A s \in StartLoads(W) : TaskOK(s, lists["connections"].at)
           /\ \A w \in W \cap scope.parts : \E s \in StartLoads(W) : s.op = "load" /\ s.what = w
<1>1. \A w \in W \cap scope.parts :
         LET s == Numbered(Load(w, 0, FirstStage(w)))
         IN  TaskOK(s, lists["connections"].at) /\ s.op = "load" /\ s.what = w
  BY LoadOK, NumberedOK
<1> QED
  BY <1>1 DEF StartLoads

LEMMA WriteOK ==
    ASSUME NEW op \in {"save", "delete"}, NEW r \in Tables, NEW id, NEW opened, NEW c
    PROVE  TaskOK(Write(op, r, id, opened), c)
<1> DEFINE s == Write(op, r, id, opened)
<1>1. /\ DOMAIN s = TaskFields /\ s.op = op /\ s.what = r /\ s.stage = "asked"
      /\ s.settings = NoSettings /\ s.id = id /\ s.opened = opened /\ s.res = "ok"
  BY DEF Write, Load, TaskFields
<1> HIDE DEF s
<1>2. TaskOK(s, c)
  BY <1>1, PlainIsConfig DEF TaskOK, Parts, Views
<1> QED
  BY <1>2 DEF s

-----------------------------------------------------------------------------
(* Parts of the page.                                                       *)

\* A view that shows its placeholder has a call: what the calls become.
LEMMA LoadingStays ==
    ASSUME LoadingHasALoad,
           \A v \in Views : views'[v].status = "loading" =>
               \/ views[v].status = "loading"
               \/ \E s \in tasks' : s.op = "load" /\ s.what = v,
           \A t \in tasks : t.op = "load" /\ t.what \in Views =>
               \/ \E s \in tasks' : s.op = "load" /\ s.what = t.what
               \/ views'[t.what].status # "loading"
    PROVE  LoadingHasALoad'
  BY DEF LoadingHasALoad, Loading

\* Placeholders change nothing but the status.
LEMMA PlaceholdersOK ==
    ASSUME ViewsOK, NEW W, views' = Placeholders(W)
    PROVE  ViewsOK' /\ \A v \in Views : v \notin W => views'[v] = views[v]
<1>1. DOMAIN views' = Views
  BY DEF Placeholders
<1>2. \A v \in Views : views'[v] = IF v \in W THEN [views[v] EXCEPT !.status = "loading"] ELSE views[v]
  BY DEF Placeholders
<1>3. \A v \in Views : DOMAIN views'[v] = ViewFields
  BY <1>2 DEF ViewsOK
<1>4. "endpoints" \in Views
  BY DEF Views, Tables
<1>5. "endpoints" \in W => views'["endpoints"].status = "loading"
  BY <1>2, <1>4 DEF ViewsOK, ViewFields
<1> QED
  BY <1>1, <1>2, <1>3, <1>4, <1>5 DEF ViewsOK, NamesResolved

\* A call goes on as another one.
LEMMA BecomesOK ==
    ASSUME IInv, NEW t \in tasks, NEW u, Becomes(t, u), u.op = t.op, u.what = t.what,
           lists["connections"].at \in Pos => lists'["connections"].at \in Pos,
           TaskOK(u, lists'["connections"].at), views' = views
    PROVE  TasksOK' /\ LoadingHasALoad'
<1>1. TasksOK'
  BY TaskStays DEF IInv, TasksOK, Becomes
<1>2. \A s \in tasks : \E q \in tasks' : q.op = s.op /\ q.what = s.what
  BY DEF Becomes
<1> QED
  BY <1>1, <1>2, LoadingStays DEF IInv

\* A call ends that no view waits for.
LEMMA EndsOK ==
    ASSUME IInv, NEW t \in tasks, tasks' = tasks \ {t}, t.op = "load" => t.what \notin Views,
           lists["connections"].at \in Pos => lists'["connections"].at \in Pos, views' = views
    PROVE  TasksOK' /\ LoadingHasALoad'
<1>1. TasksOK'
  BY TaskStays DEF IInv, TasksOK
<1> QED
  BY <1>1, LoadingStays DEF IInv

\* Calls start.
LEMMA StartOK ==
    ASSUME IInv, NEW T, NEW W, T \subseteq tasks,
           \A s \in tasks : s.op = "load" => s \in T,
           tasks' = T \cup StartLoads(W), views' = Placeholders(W \cap scope.parts),
           lists' = lists, scope.parts \subseteq Parts
    PROVE  TasksOK' /\ ViewsOK' /\ LoadingHasALoad'
<1>1. TasksOK'
  BY StartLoadsOK DEF IInv, TasksOK
<1>2. ViewsOK' /\ \A v \in Views : v \notin W \cap scope.parts => views'[v] = views[v]
  BY PlaceholdersOK DEF IInv
<1>3. \A v \in W \cap scope.parts : \E s \in tasks' : s.op = "load" /\ s.what = v
  BY StartLoadsOK DEF IInv
<1>4. \A s \in tasks : s.op = "load" => s \in tasks'
  OBVIOUS
<1>5. LoadingHasALoad'
  BY <1>2, <1>3, <1>4, LoadingStays DEF IInv
<1> QED
  BY <1>1, <1>2, <1>5

\* The gateway's tables change.
LEMMA RowsOK ==
    ASSUME GatewayOK, NEW r \in Tables, NEW id, NEW S,
           SaveRow(r, id) \/ DeleteRow(r, id, S), scope' = scope, config' = config
    PROVE  GatewayOK'
<1>1. CASE SaveRow(r, id)
  BY <1>1 DEF GatewayOK, SaveRow, Pos
<1>2. CASE DeleteRow(r, id, S)
  BY <1>2 DEF GatewayOK, DeleteRow, Pos
<1> QED
  BY <1>1, <1>2

LEMMA SnapshotOK ==
    ASSUME GatewayOK, NEW r \in Tables
    PROVE  Snapshot(r).at \in Pos
  BY DEF Snapshot, GatewayOK

LEMMA PartsOK == GatewayOK => scope.parts \subseteq Parts
  BY PageAssumption DEF GatewayOK, Scope

-----------------------------------------------------------------------------
(* The invariant.                                                           *)

LEMMA InitInv == Init => IInv
<1> SUFFICES ASSUME Init PROVE IInv
  OBVIOUS
<1>1. GatewayOK /\ SettingsOK(badges)
  BY PlainIsConfig DEF Init, GatewayOK, Pos
<1>2. ListsOK
  BY DEF Init, ListsOK, NoSnapshot, Forms
<1>3. ViewsOK /\ LoadingHasALoad
  BY DEF Init, ViewsOK, LoadingHasALoad, BlankView, NamesResolved, ViewFields, Views, Tables
<1>4. FormsOK /\ TasksOK /\ LoginOK
  BY DEF Init, FormsOK, FormOK, FormFields, ClosedForm, TasksOK, LoginOK
<1> QED
  BY <1>1, <1>2, <1>3, <1>4 DEF IInv

LEMMA BootInv == ASSUME IInv, NEW hash, Boot(hash) PROVE IInv'
<1> DEFINE all == Parts \cap scope.parts
           twice == RouteLoads(Redirect(hash)) \cap scope.parts
<1>1. /\ UNCHANGED <<scope, version, config, lists, badges, forms>> /\ views' = Placeholders(all)
      /\ tasks' = {Load(w, 1, FirstStage(w)) : w \in all} \cup {Load(w, 2, FirstStage(w)) : w \in twice}
      /\ page' = "app" /\ tasks = {}
  BY DEF Boot, IInv, LoginOK
<1>2. all \subseteq Parts /\ twice \subseteq Parts /\ ListsOK
  BY PartsOK DEF IInv
<1> HIDE DEF all, twice
<1>3. \A s \in tasks' : TaskOK(s, lists["connections"].at)
  BY <1>1, <1>2, LoadOK
<1>4. \A w \in all : \E s \in tasks' : s.op = "load" /\ s.what = w
  BY <1>1, <1>2, LoadOK
<1>5. ViewsOK' /\ \A v \in Views : v \notin all => views'[v] = views[v]
  BY <1>1, PlaceholdersOK DEF IInv
<1>6. LoadingHasALoad'
  BY <1>1, <1>4, <1>5, LoadingStays DEF IInv
<1> QED
  BY <1>1, <1>3, <1>5, <1>6 DEF IInv, gateway, GatewayOK, ListsOK, FormsOK, TasksOK, LoginOK

LEMMA NavigateInv == ASSUME IInv, NEW hash, Navigate(hash) PROVE IInv'
<1>1. TasksOK' /\ ViewsOK' /\ LoadingHasALoad'
  BY StartOK, PartsOK DEF Navigate, IInv
<1> QED
  BY <1>1 DEF Navigate, IInv, gateway, GatewayOK, ListsOK, FormsOK, LoginOK

LEMMA UnloadInv == ASSUME IInv, Unload PROVE IInv'
<1>1. GatewayOK' /\ SettingsOK(badges')
  BY PlainIsConfig DEF Unload, IInv, gateway, GatewayOK
<1>2. ListsOK'
  BY DEF Unload, ListsOK, NoSnapshot, Forms
<1>3. ViewsOK' /\ LoadingHasALoad'
  BY DEF Unload, ViewsOK, LoadingHasALoad, BlankView, NamesResolved, ViewFields, Views, Tables
<1>4. FormsOK' /\ TasksOK' /\ LoginOK'
  BY DEF Unload, FormsOK, FormOK, FormFields, ClosedForm, TasksOK, LoginOK
<1> QED
  BY <1>1, <1>2, <1>3, <1>4 DEF IInv

LEMMA OpenModalInv == ASSUME IInv, NEW r \in Forms, NEW id, OpenModal(r, id) PROVE IInv'
<1>1. FormsOK'
  BY DEF OpenModal, HiddenId, IInv, FormsOK, FormOK, FormFields
<1> QED
  BY <1>1 DEF OpenModal, IInv, gateway, GatewayOK, ListsOK, ViewsOK, NamesResolved, TasksOK,
              LoadingHasALoad, Loading, LoginOK

LEMMA CloseModalInv == ASSUME IInv, NEW r \in Forms, CloseModal(r) PROVE IInv'
<1>1. FormsOK'
  BY DEF CloseModal, IInv, FormsOK, FormOK, FormFields
<1> QED
  BY <1>1 DEF CloseModal, IInv, gateway, GatewayOK, ListsOK, ViewsOK, NamesResolved, TasksOK,
              LoadingHasALoad, Loading, LoginOK

\* A write is sent.
LEMMA SendInv ==
    ASSUME IInv, NEW t, TaskOK(t, lists["connections"].at), page = "app", Send(t)
    PROVE  IInv'
<1>1. TasksOK'
  BY NumberedOK DEF Send, IInv, TasksOK
<1>2. LoadingHasALoad'
  BY LoadingStays DEF Send, IInv
<1> QED
  BY <1>1, <1>2 DEF Send, IInv, gateway, GatewayOK, ListsOK, ViewsOK, NamesResolved, FormsOK, LoginOK

LEMMA SubmitInv == ASSUME IInv, NEW r \in Forms, Submit(r) PROVE IInv'
<1>1. TaskOK(Write("save", r, forms[r].id, forms[r].opened), lists["connections"].at)
  BY WriteOK DEF Forms, Tables
<1> QED
  BY <1>1, SendInv DEF Submit

LEMMA SubmitNamedInv == ASSUME IInv, NEW r \in {"vault", "tokens"}, NEW id, SubmitNamed(r, id) PROVE IInv'
<1>1. TaskOK(Write("save", r, id, id), lists["connections"].at)
  BY WriteOK DEF Tables
<1> QED
  BY <1>1, SendInv DEF SubmitNamed

LEMMA DeleteInv == ASSUME IInv, NEW r \in Tables, NEW id, Delete(r, id) PROVE IInv'
<1>1. TaskOK(Write("delete", r, DeleteKey(r, id), id), lists["connections"].at)
  BY WriteOK
<1> QED
  BY <1>1, SendInv DEF Delete

\* The gateway answers.
LEMMA AnswerLoadInv == ASSUME IInv, NEW t \in tasks, AnswerLoad(t) PROVE IInv'
<1> DEFINE c == lists["connections"].at
<1>1. TaskOK(t, c) /\ GatewayOK
  BY DEF IInv, TasksOK
<1>2. UNCHANGED <<scope, gateway, page, lists, badges, views, forms>> /\ t.op = "load"
  BY DEF AnswerLoad
<1>3. ASSUME NEW u, Becomes(t, u), TaskOK(u, c), u.op = t.op, u.what = t.what PROVE IInv'
  <2>1. TasksOK' /\ LoadingHasALoad'
    BY <1>2, <1>3, BecomesOK
  <2> QED
    BY <1>2, <2>1 DEF IInv, gateway, GatewayOK, ListsOK, ViewsOK, NamesResolved, FormsOK, LoginOK
<1>4. CASE t.stage = "preload" /\ Becomes(t, [t EXCEPT !.stage = "preloaded", !.other = Snapshot("connections")])
  <2> DEFINE u == [t EXCEPT !.stage = "preloaded", !.other = Snapshot("connections")]
  <2>1. /\ DOMAIN u = TaskFields /\ u.op = t.op /\ u.what = t.what /\ u.id = t.id
        /\ u.opened = t.opened /\ u.settings = t.settings /\ u.stage = "preloaded"
        /\ u.other = Snapshot("connections")
    BY <1>1 DEF TaskOK, TaskFields
  <2> HIDE DEF u
  <2>2. TaskOK(u, c)
    BY <1>1, <2>1, SnapshotOK DEF TaskOK, Tables
  <2> QED
    BY <1>3, <1>4, <2>1, <2>2 DEF u
<1>5. CASE /\ t.stage = "asked" /\ t.what = "dashboard"
           /\ Becomes(t, [t EXCEPT !.stage = "asked2", !.other = Snapshot("connections")])
  <2> DEFINE u == [t EXCEPT !.stage = "asked2", !.other = Snapshot("connections")]
  <2>1. /\ DOMAIN u = TaskFields /\ u.op = t.op /\ u.what = t.what /\ u.id = t.id
        /\ u.opened = t.opened /\ u.settings = t.settings /\ u.stage = "asked2" /\ u.res = t.res
        /\ u.other = Snapshot("connections")
    BY <1>1 DEF TaskOK, TaskFields
  <2> HIDE DEF u
  <2>2. TaskOK(u, c)
    BY <1>1, <1>5, <2>1, SnapshotOK DEF TaskOK, Tables
  <2> QED
    BY <1>3, <1>5, <2>1, <2>2 DEF u
<1>6. CASE t.stage = "asked2" /\ Becomes(t, [t EXCEPT !.stage = "both", !.list = Snapshot("endpoints")])
  <2> DEFINE u == [t EXCEPT !.stage = "both", !.list = Snapshot("endpoints")]
  <2>1. /\ DOMAIN u = TaskFields /\ u.op = t.op /\ u.what = t.what /\ u.id = t.id
        /\ u.opened = t.opened /\ u.settings = t.settings /\ u.stage = "both" /\ u.res = t.res
        /\ u.other = t.other
    BY <1>1 DEF TaskOK, TaskFields
  <2> HIDE DEF u
  <2>2. TaskOK(u, c)
    BY <1>1, <1>2, <1>6, <2>1 DEF TaskOK
  <2> QED
    BY <1>3, <1>6, <2>1, <2>2 DEF u
<1>7. CASE /\ t.stage = "asked" /\ t.what = "settings"
           /\ Becomes(t, [t EXCEPT !.stage = "answered",
                         !.settings = [of |-> config, data |-> Settings(config), known |-> TRUE]])
  <2> DEFINE g == [of |-> config, data |-> Settings(config), known |-> TRUE]
             u == [t EXCEPT !.stage = "answered", !.settings = g]
  <2>1. SettingsOK(g)
    BY <1>1 DEF SettingsOK, GatewayOK
  <2>2. Becomes(t, u)
    BY <1>7
  <2> HIDE DEF g
  <2>3. /\ DOMAIN u = TaskFields /\ u.op = t.op /\ u.what = t.what /\ u.id = t.id
        /\ u.opened = t.opened /\ u.settings = g /\ u.stage = "answered"
    BY <1>1 DEF TaskOK, TaskFields
  <2> HIDE DEF u
  <2>4. TaskOK(u, c)
    BY <1>1, <1>2, <1>7, <2>1, <2>3 DEF TaskOK
  <2> QED
    BY <1>3, <2>2, <2>3, <2>4
<1>8. CASE t.stage = "asked" /\ t.what \in Views /\ Becomes(t, [t EXCEPT !.stage = "answered", !.list = Snapshot(t.what)])
  <2> DEFINE u == [t EXCEPT !.stage = "answered", !.list = Snapshot(t.what)]
  <2>1. /\ DOMAIN u = TaskFields /\ u.op = t.op /\ u.what = t.what /\ u.id = t.id
        /\ u.opened = t.opened /\ u.settings = t.settings /\ u.stage = "answered" /\ u.res = t.res
        /\ u.blind = t.blind /\ u.list = Snapshot(t.what)
    BY <1>1 DEF TaskOK, TaskFields
  <2> HIDE DEF u
  <2>2. t.what # "dashboard" /\ (t.what = "connections" => u.list.at \in Pos)
    BY <1>1, <1>8, <2>1, SnapshotOK DEF Views, Tables
  <2>3. TaskOK(u, c)
    BY <1>1, <1>2, <1>8, <2>1, <2>2 DEF TaskOK
  <2> QED
    BY <1>3, <1>8, <2>1, <2>3 DEF u
<1> QED
  BY <1>4, <1>5, <1>6, <1>7, <1>8 DEF AnswerLoad

\* A document with something under way is open, and stays open or is replaced.
LEMMA NotLogin ==
    ASSUME IInv, NEW t \in tasks
    PROVE  page # "login" /\ (Intercept(t) => page' # "login")
  BY DEF IInv, LoginOK, Intercept

LEMMA AnswerWriteInv == ASSUME IInv, NEW t \in tasks, NEW res, AnswerWrite(t, res) PROVE IInv'
<1> DEFINE c == lists["connections"].at
           k == version'[t.what]
           m == IF t.what = "connections" THEN version'["endpoints"] ELSE 0
           u == [t EXCEPT !.stage = "answered", !.res = res, !.list.at = k, !.other.at = m]
<1>1. TaskOK(t, c) /\ t.op # "load" /\ t.what \in Tables
  BY DEF IInv, TasksOK, TaskOK, AnswerWrite
<1>2. UNCHANGED <<scope, config, page, lists, badges, views, forms>> /\ Becomes(t, u)
  BY DEF AnswerWrite
<1>3. GatewayOK'
  BY <1>1, <1>2, RowsOK DEF AnswerWrite, IInv
<1> HIDE DEF k, m
<1>4. /\ DOMAIN u = TaskFields /\ u.op = t.op /\ u.what = t.what /\ u.id = t.id
      /\ u.opened = t.opened /\ u.settings = t.settings /\ u.stage = "answered"
  BY <1>1 DEF TaskOK, TaskFields
<1> HIDE DEF u
<1>5. TaskOK(u, c)
  BY <1>1, <1>4 DEF TaskOK
<1>6. TasksOK' /\ LoadingHasALoad'
  BY <1>2, <1>4, <1>5, BecomesOK
<1> QED
  BY <1>2, <1>3, <1>6, NotLogin DEF IInv, ListsOK, ViewsOK, NamesResolved, FormsOK, LoginOK

LEMMA AnswerFailsInv ==
    ASSUME IInv, NEW t \in tasks, NEW res \in {"failed", "401"}, AnswerFails(t, res) PROVE IInv'
<1> DEFINE c == lists["connections"].at
           g == IF t.stage = "preload" THEN "preloaded" ELSE "answered"
           u == [t EXCEPT !.stage = g, !.res = res]
<1>1. TaskOK(t, c) /\ t.stage \in {"preload", "asked", "asked2"}
  BY DEF IInv, TasksOK, AnswerFails
<1>2. UNCHANGED <<scope, gateway, page, lists, badges, views, forms>> /\ Becomes(t, u)
  BY DEF AnswerFails
<1>3. /\ g \in {"preloaded", "answered"}
      /\ t.op = "load" /\ t.what = "endpoints" /\ g = "answered" => t.stage = "asked"
  BY <1>1 DEF TaskOK
<1> HIDE DEF g
<1>4. /\ DOMAIN u = TaskFields /\ u.op = t.op /\ u.what = t.what /\ u.id = t.id
      /\ u.opened = t.opened /\ u.settings = t.settings /\ u.stage = g /\ u.res = res /\ u.blind = t.blind
  BY <1>1 DEF TaskOK, TaskFields
<1> HIDE DEF u
<1>5. TaskOK(u, c)
  BY <1>1, <1>3, <1>4 DEF TaskOK
<1>6. TasksOK' /\ LoadingHasALoad'
  BY <1>2, <1>4, <1>5, BecomesOK
<1> QED
  BY <1>2, <1>6, NotLogin DEF IInv, gateway, GatewayOK, ListsOK, ViewsOK, NamesResolved, FormsOK, LoginOK

LEMMA OtherEditInv == ASSUME IInv, OtherEdit PROVE IInv'
<1>1. GatewayOK'
  BY RowsOK DEF OtherEdit, IInv
<1> QED
  BY <1>1 DEF OtherEdit, IInv, ListsOK, ViewsOK, NamesResolved, FormsOK, TasksOK,
              LoadingHasALoad, Loading, LoginOK, history

LEMMA ReconfigureInv == ASSUME IInv, Reconfigure PROVE IInv'
  BY DEF Reconfigure, IInv, GatewayOK, ListsOK, ViewsOK, NamesResolved, FormsOK, TasksOK,
         LoadingHasALoad, Loading, LoginOK, history

\* Answers reach the page.
LEMMA ArrivePreloadInv == ASSUME IInv, NEW t \in tasks, ArrivePreload(t) PROVE IInv'
<1> DEFINE c == lists["connections"].at
           b == t.res # "ok"
           u == [t EXCEPT !.stage = "asked", !.res = "ok", !.blind = b, !.other = NoSnapshot]
<1>1. TaskOK(t, c) /\ t.stage = "preloaded" /\ ListsOK
  BY DEF IInv, TasksOK, ArrivePreload
<1>2. UNCHANGED <<scope, gateway, badges, views, forms>> /\ Becomes(t, u) /\ Intercept(t)
      /\ lists' = IF t.res = "ok" THEN [lists EXCEPT !["connections"] = t.other] ELSE lists
  BY DEF ArrivePreload
<1>3. /\ DOMAIN u = TaskFields /\ u.op = t.op /\ u.what = t.what /\ u.id = t.id
      /\ u.opened = t.opened /\ u.settings = t.settings /\ u.stage = "asked" /\ u.blind = b
      /\ u.res = "ok"
  BY <1>1 DEF TaskOK, TaskFields
<1>4. ListsOK' /\ (t.res = "ok" => lists'["connections"].at \in Pos)
      /\ (c \in Pos => lists'["connections"].at \in Pos)
  BY <1>1, <1>2 DEF ListsOK, TaskOK, Forms, Pos
<1> HIDE DEF u
<1>5. TaskOK(u, lists'["connections"].at)
  BY <1>1, <1>3, <1>4 DEF TaskOK
<1>6. TasksOK' /\ LoadingHasALoad'
  BY <1>2, <1>3, <1>4, <1>5, BecomesOK
<1> QED
  BY <1>2, <1>4, <1>6, NotLogin DEF IInv, gateway, GatewayOK, ViewsOK, NamesResolved, FormsOK, LoginOK

LEMMA ArriveConnectionsInv ==
    ASSUME IInv, NEW t \in tasks, NEW res, ArriveConnections(t, res) PROVE IInv'
<1> DEFINE u == [t EXCEPT !.stage = "answered", !.res = res]
<1>1. TaskOK(t, lists["connections"].at) /\ ListsOK /\ t.stage = "both"
  BY DEF IInv, TasksOK, ArriveConnections
<1>2. UNCHANGED <<scope, gateway, page, badges, views, forms>> /\ Becomes(t, u)
      /\ lists' = [lists EXCEPT !["connections"] = t.other]
  BY DEF ArriveConnections
<1>3. /\ DOMAIN u = TaskFields /\ u.op = t.op /\ u.what = t.what /\ u.settings = t.settings
      /\ u.stage = "answered"
  BY <1>1 DEF TaskOK, TaskFields
<1>4. t.op = "load" /\ t.what = "dashboard" /\ t.other.at \in Pos
  BY <1>1 DEF TaskOK, Tables
<1>5. ListsOK' /\ lists'["connections"].at \in Pos
  BY <1>1, <1>2, <1>4 DEF ListsOK, Forms, Pos
<1> HIDE DEF u
<1>6. TaskOK(u, lists'["connections"].at)
  BY <1>1, <1>3, <1>4 DEF TaskOK
<1>7. TasksOK' /\ LoadingHasALoad'
  BY <1>2, <1>3, <1>5, <1>6, BecomesOK
<1> QED
  BY <1>2, <1>5, <1>7, NotLogin DEF IInv, gateway, GatewayOK, ViewsOK, NamesResolved, FormsOK, LoginOK

LEMMA ArriveDashboardInv == ASSUME IInv, NEW t \in tasks, ArriveDashboard(t) PROVE IInv'
<1>1. ListsOK /\ t.what = "dashboard"
  BY DEF IInv, ArriveDashboard
<1>2. t.what \notin Views
  BY <1>1 DEF Tables, Views
<1>3. UNCHANGED <<scope, gateway, badges, views, forms>> /\ tasks' = tasks \ {t} /\ Intercept(t)
      /\ lists' = IF t.res = "ok" THEN [lists EXCEPT !["endpoints"] = t.list] ELSE lists
  BY DEF ArriveDashboard
<1>4. ListsOK' /\ (lists["connections"].at \in Pos => lists'["connections"].at \in Pos)
  BY <1>1, <1>3 DEF ListsOK, Forms
<1>5. TasksOK' /\ LoadingHasALoad'
  BY <1>2, <1>3, <1>4, EndsOK
<1> QED
  BY <1>3, <1>4, <1>5, NotLogin DEF IInv, gateway, GatewayOK, ViewsOK, NamesResolved, FormsOK, LoginOK

LEMMA ArriveSettingsInv == ASSUME IInv, NEW t \in tasks, ArriveSettings(t) PROVE IInv'
<1>1. t.op = "load" => t.what \notin Views
  BY DEF ArriveSettings, Views, Tables
<1>2. TasksOK' /\ LoadingHasALoad'
  BY <1>1, EndsOK DEF ArriveSettings
<1>3. SettingsOK(badges')
  BY DEF ArriveSettings, IInv, TasksOK, TaskOK
<1> QED
  BY <1>2, <1>3, NotLogin
  DEF ArriveSettings, IInv, gateway, GatewayOK, ListsOK, ViewsOK, NamesResolved, FormsOK, LoginOK

LEMMA ArriveLoadInv == ASSUME IInv, NEW t \in tasks, ArriveLoad(t) PROVE IInv'
<1> DEFINE c == lists["connections"].at
           row == NewView(t)
<1>1. TaskOK(t, c) /\ t.op = "load" /\ t.stage = "answered" /\ t.what \in Views
  BY DEF IInv, TasksOK, ArriveLoad
<1>2. /\ UNCHANGED <<scope, gateway, badges, forms>> /\ tasks' = tasks \ {t} /\ Intercept(t)
      /\ lists' = IF t.res = "ok" /\ t.what \in Forms THEN [lists EXCEPT ![t.what] = t.list] ELSE lists
      /\ views' = [views EXCEPT ![t.what] = row]
  BY DEF ArriveLoad
<1>3. ListsOK' /\ (c \in Pos => lists'["connections"].at \in Pos)
  BY <1>1, <1>2 DEF IInv, ListsOK, TaskOK, Forms, Pos
<1>4. DOMAIN row = ViewFields /\ row.status \in {"rows", "error"}
  BY DEF NewView, ViewFields, BlankView
<1>5. t.what = "endpoints" /\ row.status = "rows" => row.via > 0 \/ row.blind
  BY <1>1 DEF NewView, TaskOK, BlankView, Pos
<1> HIDE DEF row
<1>6. ViewsOK'
  BY <1>1, <1>2, <1>4, <1>5 DEF IInv, ViewsOK, NamesResolved, Views, Tables
<1>7. TasksOK'
  BY <1>2, <1>3, TaskStays DEF IInv, TasksOK
<1>8. views'[t.what].status # "loading" /\ \A v \in Views \ {t.what} : views'[v] = views[v]
  BY <1>1, <1>2, <1>4 DEF IInv, ViewsOK
<1>9. LoadingHasALoad'
  BY <1>2, <1>8, LoadingStays DEF IInv
<1> QED
  BY <1>2, <1>3, <1>6, <1>7, <1>9, NotLogin DEF IInv, gateway, GatewayOK, FormsOK, LoginOK

LEMMA ArriveWriteInv == ASSUME IInv, NEW t \in tasks, ArriveWrite(t) PROVE IInv'
<1>1. /\ UNCHANGED <<scope, gateway, lists, badges>> /\ Intercept(t) /\ t.op # "load"
  BY DEF ArriveWrite
<1>2. CASE t.res = "ok"
  <2> DEFINE W == Refresh(t.op, t.what)
             T == tasks \ {t}
  <2>1. tasks' = T \cup StartLoads(W) /\ views' = Placeholders(W \cap scope.parts)
    BY <1>2 DEF ArriveWrite
  <2>2. scope.parts \subseteq Parts
    BY PartsOK DEF IInv
  <2>3. T \subseteq tasks /\ \A s \in tasks : s.op = "load" => s \in T
    BY <1>1
  <2> HIDE DEF W, T
  <2>4. TasksOK' /\ ViewsOK' /\ LoadingHasALoad'
    BY <1>1, <2>1, <2>2, <2>3, StartOK
  <2>5. FormsOK'
    BY <1>2 DEF ArriveWrite, IInv, FormsOK, FormOK, FormFields
  <2> QED
    BY <1>1, <2>4, <2>5, NotLogin DEF IInv, gateway, GatewayOK, ListsOK, LoginOK
<1>3. CASE t.res # "ok"
  <2>1. UNCHANGED <<views, forms>> /\ tasks' = tasks \ {t}
    BY <1>3 DEF ArriveWrite
  <2>2. TasksOK' /\ LoadingHasALoad'
    BY <1>1, <2>1, EndsOK
  <2> QED
    BY <1>1, <2>1, <2>2, NotLogin DEF IInv, gateway, GatewayOK, ListsOK, ViewsOK, NamesResolved, FormsOK, LoginOK
<1> QED
  BY <1>2, <1>3

LEMMA StepInv == IInv /\ [Next]_vars => IInv'
<1> SUFFICES ASSUME IInv, [Next]_vars PROVE IInv'
  OBVIOUS
<1>1. CASE UNCHANGED vars
  BY <1>1 DEF vars, gateway, IInv, GatewayOK, ListsOK, ViewsOK, NamesResolved, FormsOK, TasksOK,
              LoadingHasALoad, Loading, LoginOK
<1>2. ASSUME NEW t \in tasks, TaskStep(t) PROVE IInv'
  BY <1>2, AnswerLoadInv, AnswerWriteInv, AnswerFailsInv, ArrivePreloadInv, ArriveConnectionsInv, ArriveDashboardInv,
     ArriveSettingsInv, ArriveLoadInv, ArriveWriteInv DEF TaskStep
<1> QED
  BY <1>1, <1>2, BootInv, NavigateInv, UnloadInv, OpenModalInv, CloseModalInv, SubmitInv,
     SubmitNamedInv, DeleteInv, OtherEditInv, ReconfigureInv DEF Next

\* The invariant the theorems below rest on.
THEOREM Invariant == Spec => []IInv
  BY InitInv, StepInv, PTL DEF Spec

-----------------------------------------------------------------------------
\* Tool names are resolved against connections the page has read (loadEndpoints).
THEOREM NamesAreResolved == Spec => []NamesResolved
<1>1. IInv => NamesResolved
  BY DEF IInv, ViewsOK
<1> QED
  BY <1>1, Invariant, PTL

\* What handleSettings says of consistent settings makes true badges.
LEMMA SettingsTruthful ==
    ASSUME NEW k \in Config, Consistent(k)
    PROVE  Truthful(k, Settings(k))
  BY DEF Config, Consistent, Truthful, Settings, MtlsMode, TlsBadge, MtlsBadge, ServesTLS, RequiresClientCert

\* The badges of the settings page are true (renderTlsStatusBadge,
\* renderMtlsStatusBadge, handleSettings, LoadTLSConfig).
THEOREM BadgesAreTrue == Spec => []BadgesTellTheTruth
<1>1. IInv => BadgesTellTheTruth
  BY SettingsTruthful DEF IInv, SettingsOK, BadgesTellTheTruth
<1> QED
  BY <1>1, Invariant, PTL

\* No view is left at its placeholder without a call that will replace it (the
\* catch blocks of the load functions): what LoadsSettle needs besides fairness.
THEOREM NoViewIsForgotten == Spec => []LoadingHasALoad
<1>1. IInv => LoadingHasALoad
  BY DEF IInv
<1> QED
  BY <1>1, Invariant, PTL

-----------------------------------------------------------------------------
(* The page's own writes.                                                   *)

\* A version of table q that some answer has named.
Past(a, q) == a \in Nat /\ a <= version[q]
Named(s, q) == DOMAIN s = {"at", "ids"} /\ Past(s.at, q)

\* What the page knows it wrote has been written.
AckInv ==
    /\ \A r \in Tables : Past(acked[r], r)
    /\ \A t \in tasks : t.op # "load" => Named(t.list, t.what) /\ Named(t.other, "endpoints")

IsLoad(t, r) == t.op = "load" /\ t.what = r
Answered(t) == t.stage = "answered" /\ t.res = "ok"

\* While no two loads of r overlap there is one at most, and it was started after the
\* newest write of the page: its answer, and the rows shown once it is there, are not
\* older than that.
FreshView(r) ==
    /\ \A t, u \in tasks : IsLoad(t, r) /\ IsLoad(u, r) => t = u
    /\ \A t \in tasks : IsLoad(t, r) /\ Answered(t) => t.list.at >= acked[r]
    /\ views[r].status = "rows" => Loading(r) \/ views[r].list.at >= acked[r]

FreshInv == \A r \in Tables \cap scope.parts : overlapped[r] \/ FreshView(r)

OwnInv == AckInv /\ FreshInv

\* The gateway's versions grow.
LEMMA PastStays ==
    ASSUME GatewayOK, GatewayOK', NEW q \in Tables, version[q] <= version'[q],
           NEW a, Past(a, q)
    PROVE  Past(a, q)'
  BY DEF Past, GatewayOK, Pos

LEMMA VersionsGrow ==
    ASSUME GatewayOK, NEW r \in Tables, NEW id, NEW S,
           SaveRow(r, id) \/ DeleteRow(r, id, S)
    PROVE  \A q \in Tables : version[q] <= version'[q]
<1>1. CASE SaveRow(r, id)
  BY <1>1 DEF GatewayOK, SaveRow, Pos
<1>2. CASE DeleteRow(r, id, S)
  BY <1>2 DEF GatewayOK, DeleteRow, Pos
<1> QED
  BY <1>1, <1>2

\* Calls go on, and no write or load reaches the page.
LEMMA BecomesOwn ==
    ASSUME IInv, IInv', OwnInv, NEW t \in tasks, NEW u, Becomes(t, u),
           u.op = t.op, u.what = t.what,
           UNCHANGED <<scope, views, acked, overlapped>>,
           \A q \in Tables : version[q] <= version'[q],
           u.op # "load" => Named(u.list, u.what)' /\ Named(u.other, "endpoints")',
           u.op = "load" /\ u.what \in Tables /\ Answered(u) => u.list.at >= acked[u.what]
    PROVE  OwnInv'
<1>1. \A s \in tasks' : s = u \/ (s \in tasks /\ s # t)
  BY DEF Becomes
<1>2. \A s \in tasks : s.op # "load" => s.what \in Tables
  BY DEF IInv, TasksOK, TaskOK
<1>3. GatewayOK /\ GatewayOK' /\ "endpoints" \in Tables
  BY DEF IInv, Tables
<1>4. \A r \in Tables : Past(acked[r], r)'
  BY <1>3, PastStays DEF OwnInv, AckInv, Named, Past
<1>5. \A s \in tasks : s.op # "load" => Named(s.list, s.what)' /\ Named(s.other, "endpoints")'
  <2> SUFFICES ASSUME NEW s \in tasks, s.op # "load"
               PROVE  Named(s.list, s.what)' /\ Named(s.other, "endpoints")'
    OBVIOUS
  <2>1. Named(s.list, s.what) /\ Named(s.other, "endpoints") /\ s.what \in Tables
    BY <1>2 DEF OwnInv, AckInv
  <2> QED
    BY <1>3, <2>1 DEF Named, Past, GatewayOK, Pos
<1>6. AckInv'
  BY <1>1, <1>4, <1>5 DEF AckInv, Named, Past
<1>7. ASSUME NEW r \in Tables \cap scope.parts, FreshView(r) PROVE FreshView(r)'
  <2>1. \A s, q \in tasks' : IsLoad(s, r) /\ IsLoad(q, r) => s = q
    BY <1>1, <1>7 DEF FreshView, IsLoad
  <2>2. \A s \in tasks' : IsLoad(s, r) /\ Answered(s) => s.list.at >= acked[r]
    BY <1>1, <1>7 DEF FreshView, IsLoad
  <2>3. Loading(r) => Loading(r)'
    BY DEF Loading, Becomes
  <2> QED
    BY <1>7, <2>1, <2>2, <2>3 DEF FreshView
<1> QED
  BY <1>6, <1>7 DEF OwnInv, FreshInv

\* A call ends, or none does, and the page's views stay.
LEMMA EndsOwn ==
    ASSUME IInv, OwnInv, NEW T, tasks' = T, T \subseteq tasks,
           \A s \in tasks : s.op = "load" /\ s.what \in Views => s \in T,
           UNCHANGED <<scope, version, views, acked, overlapped>>
    PROVE  OwnInv'
<1>1. AckInv'
  BY DEF OwnInv, AckInv, Named, Past
<1>2. ASSUME NEW r \in Tables \cap scope.parts, FreshView(r) PROVE FreshView(r)'
  BY <1>2 DEF FreshView, IsLoad, Loading, Views
<1> QED
  BY <1>1, <1>2 DEF OwnInv, FreshInv

\* The calls StartLoads makes: one for each view of W, not answered yet.
LEMMA StartLoadsFresh ==
    ASSUME NEW W, ListsOK, scope.parts \subseteq Parts
    PROVE  /\ \A s \in StartLoads(W) : s.op = "load" /\ s.what \in W \cap scope.parts /\ ~ Answered(s)
           /\ \A s, q \in StartLoads(W) : s.what = q.what => s = q
<1>1. ASSUME NEW w \in W \cap scope.parts
      PROVE  LET s == Numbered(Load(w, 0, FirstStage(w)))
             IN  s.op = "load" /\ s.what = w /\ ~ Answered(s)
  <2> DEFINE l == Load(w, 0, FirstStage(w))
             k == Min((1 .. Cardinality({u \in tasks : u.op = l.op /\ u.what = l.what}) + 1)
                     \ {u.n : u \in {v \in tasks : v.op = l.op /\ v.what = l.what}})
  <2>1. /\ DOMAIN l = TaskFields /\ l.op = "load" /\ l.what = w /\ l.stage = FirstStage(w)
    BY DEF Load, TaskFields
  <2>2. Numbered(l) = [l EXCEPT !.n = k]
    BY DEF Numbered
  <2>3. FirstStage(w) # "answered"
    BY DEF FirstStage
  <2> HIDE DEF l, k
  <2>4. /\ Numbered(l).op = "load" /\ Numbered(l).what = w /\ Numbered(l).stage = FirstStage(w)
    BY <2>1, <2>2 DEF TaskFields
  <2> QED
    BY <2>3, <2>4 DEF l, Answered
<1> QED
  BY <1>1 DEF StartLoads

\* Loads start, after a write of the page or on a new route.
LEMMA StartOwn ==
    ASSUME IInv, OwnInv, NEW T, NEW W, T \subseteq tasks,
           \A s \in tasks : s.op = "load" => s \in T,
           tasks' = T \cup StartLoads(W), views' = Placeholders(W \cap scope.parts),
           overlapped' = Overlaps(W), UNCHANGED <<scope, version>>,
           \A r \in Tables : acked'[r] = acked[r] \/ (r \in W /\ Past(acked'[r], r))
    PROVE  OwnInv'
<1> DEFINE P == W \cap scope.parts
           L == StartLoads(W)
<1>1. scope.parts \subseteq Parts /\ ListsOK
  BY PartsOK DEF IInv
<1>2. /\ \A s \in L : s.op = "load" /\ s.what \in P /\ ~ Answered(s)
      /\ \A s, q \in L : s.what = q.what => s = q
  BY <1>1, StartLoadsFresh
<1>3. \A r \in P : \E s \in L : s.op = "load" /\ s.what = r
  BY <1>1, StartLoadsOK
<1>4. \A v \in Views : v \notin P => views'[v] = views[v]
  BY PlaceholdersOK DEF IInv
<1>5. \A v \in Views : overlapped'[v] = IF v \in P THEN Loading(v) ELSE overlapped[v]
  BY DEF Overlaps
<1>6. Tables \subseteq Views
  BY DEF Views
<1>7. tasks' = T \cup L
  OBVIOUS
<1> HIDE DEF L
<1>8. AckInv'
  <2>1. \A r \in Tables : Past(acked'[r], r)
    BY DEF OwnInv, AckInv
  <2>2. \A s \in tasks' : s.op # "load" => s \in tasks
    BY <1>2, <1>7
  <2> QED
    BY <2>1, <2>2 DEF OwnInv, AckInv, Named, Past
<1>9. ASSUME NEW r \in Tables \cap scope.parts, ~ overlapped'[r] PROVE FreshView(r)'
  <2>1. CASE r \in P
    <3>1. \A s \in tasks : ~ IsLoad(s, r)
      BY <1>5, <1>6, <1>9, <2>1 DEF Loading, IsLoad
    <3>2. \A s \in tasks' : IsLoad(s, r) => s \in L
      BY <1>7, <3>1
    <3>3. Loading(r)'
      BY <1>3, <1>7, <2>1 DEF Loading
    <3> QED
      BY <1>2, <3>2, <3>3 DEF FreshView, IsLoad
  <2>2. CASE r \notin P
    <3>1. FreshView(r) /\ acked'[r] = acked[r] /\ views'[r] = views[r]
      BY <1>4, <1>5, <1>6, <1>9, <2>2 DEF OwnInv, FreshInv
    <3>2. \A s \in tasks' : IsLoad(s, r) => s \in tasks
      BY <1>2, <1>7, <2>2 DEF IsLoad
    <3>3. Loading(r) => Loading(r)'
      BY <1>7 DEF Loading
    <3> QED
      BY <3>1, <3>2, <3>3 DEF FreshView
  <2> QED
    BY <2>1, <2>2
<1> QED
  BY <1>8, <1>9 DEF OwnInv, FreshInv

LEMMA InitOwn == Init => OwnInv
<1> SUFFICES ASSUME Init PROVE OwnInv
  OBVIOUS
<1>1. AckInv
  BY DEF Init, AckInv, Named, Past
<1>2. FreshInv
  BY DEF Init, FreshInv, FreshView, BlankView, Views
<1> QED
  BY <1>1, <1>2 DEF OwnInv

LEMMA BootOwn == ASSUME IInv, OwnInv, NEW hash, Boot(hash) PROVE OwnInv'
<1> DEFINE all == Parts \cap scope.parts
           twice == RouteLoads(Redirect(hash)) \cap scope.parts
<1>1. /\ UNCHANGED <<scope, version, acked>>
      /\ tasks' = {Load(w, 1, FirstStage(w)) : w \in all} \cup {Load(w, 2, FirstStage(w)) : w \in twice}
      /\ overlapped' = [v \in Views |-> v \in twice]
  BY DEF Boot, gateway
<1>2. all \subseteq Parts /\ twice \subseteq Parts /\ ListsOK /\ all = scope.parts
  BY PartsOK DEF IInv
<1>3. \A w, n : /\ Load(w, n, FirstStage(w)).op = "load" /\ Load(w, n, FirstStage(w)).what = w
                /\ ~ Answered(Load(w, n, FirstStage(w)))
  BY DEF Load, FirstStage, Answered
<1> HIDE DEF all, twice
<1>4. AckInv'
  BY <1>1, <1>3 DEF OwnInv, AckInv, Named, Past
<1>5. ASSUME NEW r \in Tables \cap scope.parts, ~ overlapped'[r] PROVE FreshView(r)'
  <2>1. r \in all /\ r \notin twice
    BY <1>1, <1>2, <1>5 DEF Views
  <2>2. \A s \in tasks' : IsLoad(s, r) => s = Load(r, 1, FirstStage(r))
    BY <1>1, <1>3, <2>1 DEF IsLoad
  <2>3. Load(r, 1, FirstStage(r)) \in tasks'
    BY <1>1, <2>1
  <2>4. Loading(r)'
    BY <1>3, <2>3 DEF Loading
  <2> QED
    BY <1>3, <2>2, <2>4 DEF FreshView
<1> QED
  BY <1>1, <1>4, <1>5 DEF OwnInv, FreshInv

LEMMA NavigateOwn == ASSUME IInv, OwnInv, NEW hash, Navigate(hash) PROVE OwnInv'
  BY StartOwn DEF Navigate, gateway

LEMMA UnloadOwn == ASSUME IInv, OwnInv, Unload PROVE OwnInv'
<1>1. AckInv'
  BY DEF Unload, AckInv, Named, Past, gateway, IInv, GatewayOK, Pos
<1>2. FreshInv'
  BY DEF Unload, FreshInv, FreshView, BlankView, Views
<1> QED
  BY <1>1, <1>2 DEF OwnInv

\* A write is sent: it has been told of no version yet.
LEMMA SendOwn ==
    ASSUME IInv, OwnInv, NEW op \in {"save", "delete"}, NEW r \in Tables, NEW id, NEW opened,
           Send(Write(op, r, id, opened))
    PROVE  OwnInv'
<1> DEFINE l == Write(op, r, id, opened)
           k == Min((1 .. Cardinality({u \in tasks : u.op = l.op /\ u.what = l.what}) + 1)
                   \ {u.n : u \in {v \in tasks : v.op = l.op /\ v.what = l.what}})
           w == Numbered(l)
<1>1. /\ DOMAIN l = TaskFields /\ l.op = op /\ l.what = r /\ l.list = NoSnapshot /\ l.other = NoSnapshot
  BY DEF Write, Load, TaskFields
<1>2. w = [l EXCEPT !.n = k]
  BY DEF Numbered
<1>3. UNCHANGED <<scope, version, views, acked, overlapped>> /\ tasks' = tasks \cup {w}
  BY DEF Send, gateway, history
<1> HIDE DEF l, k
<1>4. w.op = op /\ w.what = r /\ w.list = NoSnapshot /\ w.other = NoSnapshot
  BY <1>1, <1>2 DEF TaskFields
<1> HIDE DEF w
<1>5. Named(w.list, w.what) /\ Named(w.other, "endpoints")
  BY <1>4 DEF Named, Past, NoSnapshot, IInv, GatewayOK, Pos, Tables
<1>6. AckInv'
  BY <1>3, <1>5 DEF OwnInv, AckInv, Named, Past
<1>7. ASSUME NEW q \in Tables \cap scope.parts, FreshView(q) PROVE FreshView(q)'
  BY <1>3, <1>4, <1>7 DEF FreshView, IsLoad, Loading
<1> QED
  BY <1>3, <1>6, <1>7 DEF OwnInv, FreshInv

LEMMA AnswerLoadOwn == ASSUME IInv, IInv', OwnInv, NEW t \in tasks, AnswerLoad(t) PROVE OwnInv'
<1>1. UNCHANGED <<scope, version, views, acked, overlapped>> /\ t.op = "load"
  BY DEF AnswerLoad, gateway, history
<1>2. DOMAIN t = TaskFields /\ (t.stage = "asked2" => t.what = "dashboard")
  BY DEF IInv, TasksOK, TaskOK
<1>3. \A q \in Tables : version[q] <= version'[q] /\ version[q] >= acked[q]
  BY <1>1 DEF OwnInv, AckInv, Named, Past, IInv, GatewayOK, Pos
<1>4. ASSUME NEW u, Becomes(t, u), u.op = t.op, u.what = t.what,
             u.what \in Tables /\ Answered(u) => u.list.at >= acked[u.what]
      PROVE  OwnInv'
  BY <1>1, <1>3, <1>4, BecomesOwn
<1>5. ASSUME NEW o, NEW g, g \in {"preloaded", "asked2"}, Becomes(t, [t EXCEPT !.stage = g, !.other = o])
      PROVE  OwnInv'
  <2> DEFINE u == [t EXCEPT !.stage = g, !.other = o]
  <2>1. u.op = t.op /\ u.what = t.what /\ u.stage = g
    BY <1>2 DEF TaskFields
  <2> HIDE DEF u
  <2> QED
    BY <1>4, <1>5, <2>1 DEF u, Answered
<1>6. CASE t.stage = "asked2" /\ Becomes(t, [t EXCEPT !.stage = "both", !.list = Snapshot("endpoints")])
  <2> DEFINE u == [t EXCEPT !.stage = "both", !.list = Snapshot("endpoints")]
  <2>1. u.op = t.op /\ u.what = t.what /\ t.what = "dashboard"
    BY <1>2, <1>6 DEF TaskFields
  <2> HIDE DEF u
  <2> QED
    BY <1>4, <1>6, <2>1 DEF u, Tables
<1>7. CASE /\ t.stage = "asked" /\ t.what = "settings"
           /\ Becomes(t, [t EXCEPT !.stage = "answered",
                         !.settings = [of |-> config, data |-> Settings(config), known |-> TRUE]])
  <2> DEFINE g == [of |-> config, data |-> Settings(config), known |-> TRUE]
             u == [t EXCEPT !.stage = "answered", !.settings = g]
  <2>1. Becomes(t, u)
    BY <1>7
  <2> HIDE DEF g
  <2>2. u.op = t.op /\ u.what = t.what
    BY <1>2 DEF TaskFields
  <2> HIDE DEF u
  <2> QED
    BY <1>4, <1>7, <2>1, <2>2 DEF Tables
<1>8. CASE t.stage = "asked" /\ t.what \in Views /\ Becomes(t, [t EXCEPT !.stage = "answered", !.list = Snapshot(t.what)])
  <2> DEFINE u == [t EXCEPT !.stage = "answered", !.list = Snapshot(t.what)]
  <2>1. u.op = t.op /\ u.what = t.what /\ u.list = Snapshot(t.what)
    BY <1>2 DEF TaskFields
  <2> HIDE DEF u
  <2>2. t.what \in Tables => u.list.at >= acked[t.what]
    BY <1>3, <2>1 DEF Snapshot
  <2> QED
    BY <1>4, <1>8, <2>1, <2>2 DEF u
<1> QED
  BY <1>5, <1>6, <1>7, <1>8 DEF AnswerLoad

LEMMA AnswerWriteOwn ==
    ASSUME IInv, IInv', OwnInv, NEW t \in tasks, NEW res, AnswerWrite(t, res) PROVE OwnInv'
<1>1. /\ t.op # "load" /\ t.what \in Tables /\ DOMAIN t = TaskFields
      /\ UNCHANGED <<scope, views, acked, overlapped>>
  BY DEF IInv, TasksOK, TaskOK, AnswerWrite, history
<1>2. \A q \in Tables : version[q] <= version'[q]
  BY <1>1, VersionsGrow DEF AnswerWrite, IInv
<1>3. PICK k, m :
         /\ k = version'[t.what]
         /\ m = IF t.what = "connections" THEN version'["endpoints"] ELSE 0
  OBVIOUS
<1> DEFINE u == [t EXCEPT !.stage = "answered", !.res = res, !.list.at = k, !.other.at = m]
<1>4. Becomes(t, u)
  BY <1>3 DEF AnswerWrite
<1>5. k \in Nat /\ k <= version'[t.what] /\ m \in Nat /\ m <= version'["endpoints"]
  BY <1>1, <1>3 DEF IInv, GatewayOK, Pos, Tables
<1>6. u.op = t.op /\ u.what = t.what /\ u.list = [t.list EXCEPT !.at = k] /\ u.other = [t.other EXCEPT !.at = m]
  BY <1>1 DEF TaskFields
<1>7. DOMAIN t.list = {"at", "ids"} /\ DOMAIN t.other = {"at", "ids"}
  BY <1>1 DEF OwnInv, AckInv, Named
<1> HIDE DEF u
<1>8. Named(u.list, u.what)' /\ Named(u.other, "endpoints")'
  BY <1>5, <1>6, <1>7 DEF Named, Past
<1> QED
  BY <1>1, <1>2, <1>4, <1>6, <1>8, BecomesOwn

LEMMA AnswerFailsOwn ==
    ASSUME IInv, IInv', OwnInv, NEW t \in tasks, NEW res \in {"failed", "401"}, AnswerFails(t, res)
    PROVE  OwnInv'
<1> DEFINE g == IF t.stage = "preload" THEN "preloaded" ELSE "answered"
           u == [t EXCEPT !.stage = g, !.res = res]
<1>1. /\ UNCHANGED <<scope, version, views, acked, overlapped>> /\ Becomes(t, u)
      /\ DOMAIN t = TaskFields
  BY DEF AnswerFails, gateway, history, IInv, TasksOK, TaskOK
<1> HIDE DEF g
<1>2. u.op = t.op /\ u.what = t.what /\ u.list = t.list /\ u.other = t.other /\ u.res = res
  BY <1>1 DEF TaskFields
<1> HIDE DEF u
<1>3. \A q \in Tables : version[q] <= version'[q]
  BY <1>1 DEF IInv, GatewayOK, Pos
<1>4. u.op # "load" => Named(u.list, u.what)' /\ Named(u.other, "endpoints")'
  BY <1>1, <1>2 DEF OwnInv, AckInv, Named, Past
<1>5. ~ Answered(u)
  BY <1>2 DEF Answered
<1> QED
  BY <1>1, <1>2, <1>3, <1>4, <1>5, BecomesOwn

LEMMA OtherEditOwn == ASSUME IInv, IInv', OwnInv, OtherEdit PROVE OwnInv'
<1>1. UNCHANGED <<scope, views, tasks, acked, overlapped>>
  BY DEF OtherEdit, history
<1>2. \A q \in Tables : version[q] <= version'[q]
  BY VersionsGrow DEF OtherEdit, IInv
<1>3. \A q \in Tables : \A a : Past(a, q) => a \in Nat /\ a <= version'[q]
  BY <1>2 DEF Past, IInv, GatewayOK, Pos
<1>4. \A t \in tasks : t.op # "load" => t.what \in Tables
  BY DEF IInv, TasksOK, TaskOK
<1>5. AckInv'
  BY <1>1, <1>3, <1>4 DEF OwnInv, AckInv, Named, Past, Tables
<1> QED
  BY <1>1, <1>5 DEF OwnInv, FreshInv, FreshView, Loading

\* Nothing of this is touched.
LEMMA SameOwn ==
    ASSUME OwnInv, UNCHANGED <<scope, version, views, tasks, acked, overlapped>>
    PROVE  OwnInv'
  BY DEF OwnInv, AckInv, Named, Past, FreshInv, FreshView, Loading

LEMMA ArrivePreloadOwn == ASSUME IInv, IInv', OwnInv, NEW t \in tasks, ArrivePreload(t) PROVE OwnInv'
<1> DEFINE b == t.res # "ok"
           u == [t EXCEPT !.stage = "asked", !.res = "ok", !.blind = b, !.other = NoSnapshot]
<1>1. /\ UNCHANGED <<scope, version, views, acked, overlapped>> /\ Becomes(t, u)
      /\ DOMAIN t = TaskFields
  BY DEF ArrivePreload, gateway, history, IInv, TasksOK, TaskOK
<1>2. u.op = t.op /\ u.what = t.what /\ u.list = t.list /\ u.other = NoSnapshot /\ u.stage = "asked"
  BY <1>1 DEF TaskFields
<1> HIDE DEF u
<1>3. \A q \in Tables : version[q] <= version'[q]
  BY <1>1 DEF IInv, GatewayOK, Pos
<1>4. u.op # "load" => Named(u.list, u.what)' /\ Named(u.other, "endpoints")'
  BY <1>1, <1>2 DEF OwnInv, AckInv, Named, Past, NoSnapshot, IInv, GatewayOK, Pos, Tables
<1>5. ~ Answered(u)
  BY <1>2 DEF Answered
<1> QED
  BY <1>1, <1>2, <1>3, <1>4, <1>5, BecomesOwn

LEMMA ArriveLoadOwn == ASSUME IInv, OwnInv, NEW t \in tasks, ArriveLoad(t) PROVE OwnInv'
<1>1. /\ t.op = "load" /\ t.stage = "answered" /\ tasks' = tasks \ {t} /\ t.what \in Views
      /\ UNCHANGED <<scope, version, acked, overlapped>> /\ views' = [views EXCEPT ![t.what] = NewView(t)]
  BY DEF ArriveLoad, gateway, history
<1>2. NewView(t).status = "rows" => t.res = "ok" /\ NewView(t).list = t.list
  BY DEF NewView, BlankView
<1>3. AckInv'
  BY <1>1 DEF OwnInv, AckInv, Named, Past
<1>4. ASSUME NEW r \in Tables \cap scope.parts, FreshView(r) PROVE FreshView(r)'
  <2>1. CASE r = t.what
    <3>1. views'[r] = NewView(t)
      BY <1>1, <2>1 DEF IInv, ViewsOK
    <3>2. views'[r].status = "rows" => views'[r].list.at >= acked[r]
      BY <1>1, <1>2, <1>4, <2>1, <3>1 DEF FreshView, IsLoad, Answered
    <3> QED
      BY <1>1, <1>4, <3>2 DEF FreshView
  <2>2. CASE r # t.what
    <3>1. views'[r] = views[r] /\ (Loading(r) => Loading(r)')
      BY <1>1, <2>2 DEF Loading
    <3> QED
      BY <1>1, <1>4, <3>1 DEF FreshView
  <2> QED
    BY <2>1, <2>2
<1> QED
  BY <1>1, <1>3, <1>4 DEF OwnInv, FreshInv

LEMMA ArriveWriteOwn == ASSUME IInv, OwnInv, NEW t \in tasks, ArriveWrite(t) PROVE OwnInv'
<1>1. /\ t.op # "load" /\ t.what \in Tables /\ UNCHANGED <<scope, version>>
      /\ Named(t.list, t.what) /\ Named(t.other, "endpoints")
  BY DEF ArriveWrite, gateway, IInv, TasksOK, TaskOK, OwnInv, AckInv
<1>2. CASE t.res = "ok"
  <2> DEFINE W == Refresh(t.op, t.what)
             T == tasks \ {t}
  <2>1. /\ tasks' = T \cup StartLoads(W) /\ views' = Placeholders(W \cap scope.parts)
        /\ overlapped' = Overlaps(W)
        /\ acked' = [r \in Tables |-> IF r = t.what THEN t.list.at
                                      ELSE IF r = "endpoints" /\ t.op = "delete" /\ t.what = "connections"
                                      THEN t.other.at ELSE acked[r]]
    BY <1>2 DEF ArriveWrite
  <2>2. t.what \in W /\ (t.what = "connections" => "endpoints" \in W)
    BY DEF Refresh
  <2> HIDE DEF W
  <2>3. \A r \in Tables : acked'[r] = acked[r] \/ (r \in W /\ Past(acked'[r], r))
    BY <1>1, <2>1, <2>2 DEF Named
  <2>4. T \subseteq tasks /\ \A s \in tasks : s.op = "load" => s \in T
    BY <1>1
  <2> HIDE DEF T
  <2> QED
    BY <1>1, <2>1, <2>3, <2>4, StartOwn
<1>3. CASE t.res # "ok"
  <2>1. UNCHANGED <<views, acked, overlapped>> /\ tasks' = tasks \ {t}
    BY <1>3 DEF ArriveWrite, history
  <2> QED
    BY <1>1, <2>1, EndsOwn
<1> QED
  BY <1>2, <1>3

LEMMA StepOwn == IInv /\ IInv' /\ OwnInv /\ [Next]_vars => OwnInv'
<1> SUFFICES ASSUME IInv, IInv', OwnInv, [Next]_vars PROVE OwnInv'
  OBVIOUS
<1>1. CASE UNCHANGED vars
  BY <1>1, SameOwn DEF vars, gateway, history
<1>2. ASSUME NEW t \in tasks, TaskStep(t) PROVE OwnInv'
  <2>1. CASE ArriveDashboard(t) \/ ArriveSettings(t)
    BY <2>1, EndsOwn DEF ArriveDashboard, ArriveSettings, gateway, history, Views, Tables
  <2>2. ASSUME NEW res, ArriveConnections(t, res) PROVE OwnInv'
    <3> DEFINE u == [t EXCEPT !.stage = "answered", !.res = res]
    <3>1. /\ DOMAIN t = TaskFields /\ t.op = "load" /\ t.what = "dashboard" /\ Becomes(t, u)
          /\ UNCHANGED <<scope, version, views, acked, overlapped>>
      BY <2>2 DEF ArriveConnections, IInv, TasksOK, TaskOK, gateway, history, Tables
    <3>2. u.op = t.op /\ u.what = t.what
      BY <3>1 DEF TaskFields
    <3> HIDE DEF u
    <3>3. \A q \in Tables : version[q] <= version'[q]
      BY <3>1 DEF IInv, GatewayOK, Pos
    <3> QED
      BY <3>1, <3>2, <3>3, BecomesOwn DEF Tables
  <2> QED
    BY <1>2, <2>1, <2>2, AnswerLoadOwn, AnswerWriteOwn, AnswerFailsOwn, ArrivePreloadOwn,
       ArriveLoadOwn, ArriveWriteOwn DEF TaskStep
<1>3. ASSUME NEW r \in Forms, Submit(r) PROVE OwnInv'
  BY <1>3, SendOwn DEF Submit, Forms, Tables
<1>4. ASSUME NEW r \in {"vault", "tokens"}, NEW id, SubmitNamed(r, id) PROVE OwnInv'
  BY <1>4, SendOwn DEF SubmitNamed, Tables
<1>5. ASSUME NEW r \in Tables, NEW id, Delete(r, id) PROVE OwnInv'
  BY <1>5, SendOwn DEF Delete
<1>6. ASSUME NEW r, NEW id, OpenModal(r, id) \/ CloseModal(r) PROVE OwnInv'
  BY <1>6, SameOwn DEF OpenModal, CloseModal, gateway, history
<1>7. ASSUME Reconfigure PROVE OwnInv'
  BY <1>7, SameOwn DEF Reconfigure, history
<1> QED
  BY <1>1, <1>2, <1>3, <1>4, <1>5, <1>6, <1>7, BootOwn, NavigateOwn, UnloadOwn, OtherEditOwn DEF Next

\* When nothing is under way a view with rows shows what the page itself saved and
\* deleted, unless two loads of it overlapped (the loads the onsubmit handlers and the
\* delete functions start).
THEOREM OwnWritesAreShown == Spec => []OwnWritesShown
<1>1. OwnInv => OwnWritesShown
  BY DEF OwnInv, FreshInv, FreshView, Loading, OwnWritesShown
<1> QED
  BY <1>1, InitOwn, StepOwn, Invariant, PTL DEF Spec

-----------------------------------------------------------------------------
(* The way of a call to its end.                                             *)

StagesLeft(g) ==
    CASE g = "preload" -> 6
      [] g = "preloaded" -> 5
      [] g = "asked" -> 4
      [] g = "asked2" -> 3
      [] g = "both" -> 2
      [] g = "answered" -> 1

SameCall(t, u) == t.op = u.op /\ t.what = u.what /\ t.n = u.n

\* Calls under way are finitely many, and op, what and n tell them apart.
CallsToldApart ==
    /\ IsFiniteSet(tasks)
    /\ \A t, u \in tasks : SameCall(t, u) => t = u

\* A call stays where it is, goes on towards its end, ends with its last answer, which
\* takes the placeholder of a load's view away, or goes with its document.
CallsAdvance ==
    [][\A t \in tasks :
          \/ t \in tasks'
          \/ \E u \in tasks' : SameCall(u, t) /\ StagesLeft(u.stage) < StagesLeft(t.stage)
          \/ /\ t.stage = "answered"
             /\ t.op = "load" /\ t.what \in Views => views'[t.what].status # "loading"
          \/ page' = "login"]_vars

\* What a step does to the calls: one goes on, ...
GoesOn(t) ==
    \E u : /\ Becomes(t, u) /\ SameCall(u, t)
           /\ StagesLeft(u.stage) < StagesLeft(t.stage)
\* ... one ends, ...
Ends(t) ==
    /\ t.stage = "answered" /\ tasks' = tasks \ {t}
    /\ t.op = "load" /\ t.what \in Views => views'[t.what].status # "loading"
\* ... loads start, perhaps as a write ends, ...
Starts ==
    \E W, T : /\ T = tasks \/ \E t \in tasks : T = tasks \ {t} /\ t.stage = "answered" /\ t.op # "load"
              /\ tasks' = T \cup StartLoads(W)
\* ... a write is sent, a document is opened or goes.
Sends == \E t : DOMAIN t = TaskFields /\ tasks' = tasks \cup {Numbered(t)}
Opens ==
    /\ tasks = {}
    /\ \E A, B : tasks' = {Load(w, 1, FirstStage(w)) : w \in Parts \cap A}
                          \cup {Load(w, 2, FirstStage(w)) : w \in Parts \cap B}
Goes == tasks' = {} /\ page' = "login"

Moves == tasks' = tasks \/ (\E t \in tasks : GoesOn(t) \/ Ends(t)) \/ Starts \/ Sends \/ Opens \/ Goes

LEMMA AnswerLoadMoves == ASSUME IInv, NEW t \in tasks, AnswerLoad(t) PROVE GoesOn(t)
<1>1. DOMAIN t = TaskFields
  BY DEF IInv, TasksOK, TaskOK
<1>2. ASSUME NEW g, NEW r, NEW f \in {"list", "other", "settings"},
             Becomes(t, [t EXCEPT !.stage = g, ![f] = r]), StagesLeft(g) < StagesLeft(t.stage)
      PROVE  GoesOn(t)
  <2> DEFINE u == [t EXCEPT !.stage = g, ![f] = r]
  <2>1. u.op = t.op /\ u.what = t.what /\ u.n = t.n /\ u.stage = g
    BY <1>1, <1>2 DEF TaskFields
  <2>2. Becomes(t, u)
    BY <1>2
  <2> HIDE DEF u
  <2> QED
    BY <1>2, <2>1, <2>2 DEF GoesOn, SameCall
<1>3. \/ /\ t.stage = "preload"
         /\ Becomes(t, [t EXCEPT !.stage = "preloaded", !["other"] = Snapshot("connections")])
      \/ /\ t.stage = "asked"
         /\ Becomes(t, [t EXCEPT !.stage = "asked2", !["other"] = Snapshot("connections")])
      \/ /\ t.stage = "asked2"
         /\ Becomes(t, [t EXCEPT !.stage = "both", !["list"] = Snapshot("endpoints")])
      \/ /\ t.stage = "asked"
         /\ Becomes(t, [t EXCEPT !.stage = "answered",
                        !["settings"] = [of |-> config, data |-> Settings(config), known |-> TRUE]])
      \/ /\ t.stage = "asked"
         /\ Becomes(t, [t EXCEPT !.stage = "answered", !["list"] = Snapshot(t.what)])
  BY DEF AnswerLoad
<1>4. /\ StagesLeft("preloaded") < StagesLeft("preload") /\ StagesLeft("asked2") < StagesLeft("asked")
      /\ StagesLeft("both") < StagesLeft("asked2") /\ StagesLeft("answered") < StagesLeft("asked")
  BY DEF StagesLeft
<1> HIDE DEF Becomes, StagesLeft
<1> QED
  BY <1>2, <1>3, <1>4

LEMMA AnswerWriteMoves == ASSUME IInv, NEW t \in tasks, NEW res, AnswerWrite(t, res) PROVE GoesOn(t)
<1> DEFINE k == version'[t.what]
           m == IF t.what = "connections" THEN version'["endpoints"] ELSE 0
           u == [t EXCEPT !.stage = "answered", !.res = res, !.list.at = k, !.other.at = m]
<1>1. DOMAIN t = TaskFields /\ t.stage = "asked" /\ Becomes(t, u)
  BY DEF IInv, TasksOK, TaskOK, AnswerWrite
<1> HIDE DEF k, m
<1>2. u.op = t.op /\ u.what = t.what /\ u.n = t.n /\ u.stage = "answered"
  BY <1>1 DEF TaskFields
<1> HIDE DEF u
<1> QED
  BY <1>1, <1>2 DEF GoesOn, SameCall, StagesLeft

LEMMA AnswerFailsMoves == ASSUME IInv, NEW t \in tasks, NEW res, AnswerFails(t, res) PROVE GoesOn(t)
<1> DEFINE g == IF t.stage = "preload" THEN "preloaded" ELSE "answered"
           u == [t EXCEPT !.stage = g, !.res = res]
<1>1. DOMAIN t = TaskFields /\ t.stage \in {"preload", "asked", "asked2"} /\ Becomes(t, u)
  BY DEF IInv, TasksOK, TaskOK, AnswerFails
<1>2. StagesLeft(g) < StagesLeft(t.stage)
  BY <1>1 DEF StagesLeft
<1> HIDE DEF g
<1>3. u.op = t.op /\ u.what = t.what /\ u.n = t.n /\ u.stage = g
  BY <1>1 DEF TaskFields
<1> HIDE DEF u
<1> QED
  BY <1>1, <1>2, <1>3 DEF GoesOn, SameCall

LEMMA ArrivePreloadMoves == ASSUME IInv, NEW t \in tasks, ArrivePreload(t) PROVE GoesOn(t)
<1> DEFINE b == t.res # "ok"
           u == [t EXCEPT !.stage = "asked", !.res = "ok", !.blind = b, !.other = NoSnapshot]
<1>1. DOMAIN t = TaskFields /\ t.stage = "preloaded" /\ Becomes(t, u)
  BY DEF IInv, TasksOK, TaskOK, ArrivePreload
<1> HIDE DEF b
<1>2. u.op = t.op /\ u.what = t.what /\ u.n = t.n /\ u.stage = "asked"
  BY <1>1 DEF TaskFields
<1> HIDE DEF u
<1> QED
  BY <1>1, <1>2 DEF GoesOn, SameCall, StagesLeft

LEMMA ArriveConnectionsMoves ==
    ASSUME IInv, NEW t \in tasks, NEW res, ArriveConnections(t, res) PROVE GoesOn(t)
<1> DEFINE u == [t EXCEPT !.stage = "answered", !.res = res]
<1>1. DOMAIN t = TaskFields /\ t.stage = "both" /\ Becomes(t, u)
  BY DEF IInv, TasksOK, TaskOK, ArriveConnections
<1>2. u.op = t.op /\ u.what = t.what /\ u.n = t.n /\ u.stage = "answered"
  BY <1>1 DEF TaskFields
<1> HIDE DEF u
<1> QED
  BY <1>1, <1>2 DEF GoesOn, SameCall, StagesLeft

LEMMA ArriveMoves ==
    ASSUME IInv, NEW t \in tasks, ArriveDashboard(t) \/ ArriveSettings(t) \/ ArriveLoad(t) \/ ArriveWrite(t)
    PROVE  Ends(t) \/ Starts
<1>1. CASE ArriveDashboard(t) \/ ArriveSettings(t)
  BY <1>1 DEF ArriveDashboard, ArriveSettings, Ends, Views, Tables
<1>2. CASE ArriveLoad(t)
  <2> DEFINE row == NewView(t)
  <2>1. /\ t.stage = "answered" /\ t.what \in Views /\ tasks' = tasks \ {t}
        /\ views' = [views EXCEPT ![t.what] = row] /\ DOMAIN views = Views
    BY <1>2 DEF ArriveLoad, IInv, ViewsOK
  <2>2. row.status # "loading"
    BY DEF NewView, BlankView
  <2> HIDE DEF row
  <2> QED
    BY <2>1, <2>2 DEF Ends
<1>3. CASE ArriveWrite(t)
  BY <1>3 DEF ArriveWrite, Ends, Starts
<1> QED
  BY <1>1, <1>2, <1>3

LEMMA StepMoves == ASSUME IInv, [Next]_vars PROVE Moves
<1>1. ASSUME NEW t \in tasks, TaskStep(t) PROVE GoesOn(t) \/ Ends(t) \/ Starts
  BY <1>1, AnswerLoadMoves, AnswerWriteMoves, AnswerFailsMoves, ArrivePreloadMoves,
     ArriveConnectionsMoves, ArriveMoves
  DEF TaskStep
<1>2. ASSUME NEW hash, Boot(hash) PROVE Opens
  <2>1. tasks = {}
    BY <1>2 DEF Boot, IInv, LoginOK
  <2>2. scope.parts \subseteq Parts
    BY PartsOK DEF IInv
  <2> DEFINE twice == RouteLoads(Redirect(hash)) \cap scope.parts
  <2>3. Parts \cap twice = twice
    BY <2>2
  <2>4. tasks' = {Load(w, 1, FirstStage(w)) : w \in Parts \cap scope.parts}
                 \cup {Load(w, 2, FirstStage(w)) : w \in Parts \cap twice}
    BY <1>2, <2>3 DEF Boot
  <2> QED
    BY <2>1, <2>4 DEF Opens
<1>3. ASSUME NEW hash, Navigate(hash) PROVE Starts
  BY <1>3 DEF Navigate, Starts
<1>4. ASSUME NEW t, DOMAIN t = TaskFields, Send(t) PROVE Sends
  BY <1>4 DEF Send, Sends
<1>5. ASSUME NEW op, NEW r, NEW id, NEW opened
      PROVE  DOMAIN Write(op, r, id, opened) = TaskFields
  BY DEF Write, Load, TaskFields
<1> HIDE DEF Send, Sends, Write
<1>6. ASSUME NEW r \in Forms, Submit(r) PROVE Sends
  BY <1>4, <1>5, <1>6 DEF Submit
<1>7. ASSUME NEW r, NEW id, SubmitNamed(r, id) \/ Delete(r, id) PROVE Sends
  <2>1. CASE SubmitNamed(r, id)
    BY <1>4, <1>5, <2>1 DEF SubmitNamed
  <2>2. CASE Delete(r, id)
    BY <1>4, <1>5, <2>2 DEF Delete
  <2> QED
    BY <1>7, <2>1, <2>2
<1>8. ASSUME Unload PROVE Goes
  BY <1>8 DEF Unload, Goes
<1>9. ASSUME NEW r, NEW id, OpenModal(r, id) \/ CloseModal(r) PROVE tasks' = tasks
  BY <1>9 DEF OpenModal, CloseModal
<1>10. ASSUME OtherEdit \/ Reconfigure \/ UNCHANGED vars PROVE tasks' = tasks
  BY <1>10 DEF OtherEdit, Reconfigure, vars
<1> QED
  BY <1>1, <1>2, <1>3, <1>6, <1>7, <1>8, <1>9, <1>10 DEF Next, Moves

\* Every set of naturals with a member has a least one.
LEMMA LeastNatural ==
    ASSUME NEW T \in SUBSET Nat, T # {}
    PROVE  \E m \in T : \A y \in T : m <= y
<1>1. PICK m \in T : \A y \in T : ~ (<<y, m>> \in OpToRel(<, Nat))
  BY NatLessThanWellFounded, WFMin
<1>2. \A y \in T : ~ (y < m)
  BY <1>1 DEF OpToRel
<1> QED
  BY <1>2

\* The image of a finite set under a function.
LEMMA FiniteImage ==
    ASSUME NEW S, IsFiniteSet(S), NEW f, DOMAIN f = S
    PROVE  LET T == {f[x] : x \in S}
           IN  IsFiniteSet(T) /\ Cardinality(T) <= Cardinality(S)
<1> DEFINE T == {f[x] : x \in S}
           g == [x \in S |-> f[x]]
<1>1. g \in Surjection(S, T)
  BY DEF Surjection
<1> HIDE DEF g, T
<1>2. IsFiniteSet(T) /\ Cardinality(T) <= Cardinality(S)
  BY <1>1, FS_Surjection
<1> QED
  BY <1>2 DEF T

\* Among one number more than there are calls one is free.
LEMMA FreeNumber ==
    ASSUME NEW S, IsFiniteSet(S)
    PROVE  LET m == Min((1 .. Cardinality(S) + 1) \ {u.n : u \in S})
           IN  m \in Nat /\ m \notin {u.n : u \in S}
<1> DEFINE f == [u \in S |-> u.n]
           T == {f[u] : u \in S}
           U == {u.n : u \in S}
<1>1. T = U
  OBVIOUS
<1>2. IsFiniteSet(T) /\ Cardinality(T) <= Cardinality(S)
  BY FiniteImage
<1>3. PICK k \in Nat : k = Cardinality(S)
  BY FS_CardinalityType
<1> HIDE DEF f, T, U
<1>4. IsFiniteSet(1 .. k + 1) /\ Cardinality(1 .. k + 1) = k + 1
  BY FS_Interval
<1>5. ~ ((1 .. k + 1) \subseteq U)
  <2> SUFFICES ASSUME (1 .. k + 1) \subseteq U PROVE FALSE
    OBVIOUS
  <2>1. Cardinality(1 .. k + 1) <= Cardinality(U)
    BY <1>1, <1>2, FS_Subset
  <2>2. Cardinality(U) \in Nat
    BY <1>1, <1>2, FS_CardinalityType
  <2> QED
    BY <1>1, <1>2, <1>3, <1>4, <2>1, <2>2
<1> DEFINE N == (1 .. k + 1) \ U
<1>6. N \in SUBSET Nat /\ N # {}
  BY <1>5
<1> HIDE DEF N
<1>7. \E m \in N : \A y \in N : m <= y
  BY <1>6, LeastNatural
<1>8. Min(N) \in N
  BY <1>7 DEF Min
<1> QED
  BY <1>3, <1>6, <1>8 DEF N, U

\* The number of a call that starts is that of no call like it.
LEMMA NumberedFresh ==
    ASSUME IsFiniteSet(tasks), NEW t, DOMAIN t = TaskFields
    PROVE  /\ Numbered(t).op = t.op /\ Numbered(t).what = t.what
           /\ \E k \in Nat : Numbered(t) = [t EXCEPT !.n = k]
           /\ \A u \in tasks : ~ SameCall(u, Numbered(t))
<1> DEFINE S == {u \in tasks : u.op = t.op /\ u.what = t.what}
           k == Min((1 .. Cardinality(S) + 1) \ {u.n : u \in S})
           s == [t EXCEPT !.n = k]
<1>1. Numbered(t) = s
  BY DEF Numbered
<1>2. IsFiniteSet(S)
  BY FS_Subset
<1>3. k \in Nat /\ k \notin {u.n : u \in S}
  <2> HIDE DEF S
  <2> QED
    BY <1>2, FreeNumber
<1> HIDE DEF k
<1>4. s.op = t.op /\ s.what = t.what /\ s.n = k
  BY DEF TaskFields
<1>5. \E m \in Nat : Numbered(t) = [t EXCEPT !.n = m]
  BY <1>1, <1>3
<1> HIDE DEF s
<1> QED
  BY <1>1, <1>3, <1>4, <1>5 DEF SameCall

LEMMA PartsAreFinite == IsFiniteSet(Parts)
<1>1. Parts = {"connections"} \cup {"endpoints"} \cup {"vault"} \cup {"tokens"} \cup {"logs"}
              \cup {"docs"} \cup {"dashboard"} \cup {"settings"}
  BY DEF Parts, Views, Tables
<1>2. \A x : IsFiniteSet({x})
  BY FS_Singleton
<1>3. \A S, T : IsFiniteSet(S) /\ IsFiniteSet(T) => IsFiniteSet(S \cup T)
  BY FS_Union
<1> QED
  BY <1>1, <1>2, <1>3

LEMMA StartsApart == ASSUME IInv, CallsToldApart, Starts PROVE CallsToldApart'
<1>1. PICK W, T : /\ T = tasks \/ \E t \in tasks : T = tasks \ {t}
                  /\ tasks' = T \cup StartLoads(W)
  BY DEF Starts
<1>2. scope.parts \subseteq Parts
  BY PartsOK DEF IInv
<1> DEFINE P == W \cap scope.parts
           f == [w \in P |-> Numbered(Load(w, 0, FirstStage(w)))]
           F == {f[w] : w \in P}
<1>3. StartLoads(W) = F
  BY DEF StartLoads
<1>4. \A w \in P : /\ f[w].op = "load" /\ f[w].what = w
                   /\ \A u \in tasks : ~ SameCall(u, f[w])
  <2>1. \A w : /\ DOMAIN Load(w, 0, FirstStage(w)) = TaskFields
               /\ Load(w, 0, FirstStage(w)).op = "load" /\ Load(w, 0, FirstStage(w)).what = w
    BY DEF Load, TaskFields
  <2> QED
    BY <2>1, NumberedFresh DEF CallsToldApart
<1>5. IsFiniteSet(P)
  BY <1>2, PartsAreFinite, FS_Subset
<1>5a. DOMAIN f = P
  OBVIOUS
<1> HIDE DEF f, P
<1>6. IsFiniteSet(F)
  BY <1>5, <1>5a, FiniteImage
<1> HIDE DEF F
<1>7. IsFiniteSet(tasks) /\ T \in SUBSET tasks
  BY <1>1 DEF CallsToldApart
<1>8. IsFiniteSet(T)
  BY <1>7, FS_Subset
<1>9. IsFiniteSet(T \cup F)
  BY <1>6, <1>8, FS_Union
<1>10. \A t, u \in T \cup F : SameCall(t, u) => t = u
  BY <1>4, <1>7 DEF F, CallsToldApart, SameCall
<1> QED
  BY <1>1, <1>3, <1>9, <1>10 DEF CallsToldApart

LEMMA OpensApart == ASSUME Opens PROVE CallsToldApart'
<1>1. PICK A, B : tasks' = {Load(w, 1, FirstStage(w)) : w \in Parts \cap A}
                           \cup {Load(w, 2, FirstStage(w)) : w \in Parts \cap B}
  BY DEF Opens
<1> DEFINE P == Parts \cap A
           Q == Parts \cap B
           f == [w \in P |-> Load(w, 1, FirstStage(w))]
           g == [w \in Q |-> Load(w, 2, FirstStage(w))]
           F == {f[w] : w \in P}
           G == {g[w] : w \in Q}
<1>2. tasks' = F \cup G
  BY <1>1
<1>3. /\ \A w \in P : f[w].what = w /\ f[w].n = 1
      /\ \A w \in Q : g[w].what = w /\ g[w].n = 2
  BY DEF Load
<1>4. IsFiniteSet(P) /\ IsFiniteSet(Q) /\ DOMAIN f = P /\ DOMAIN g = Q
  BY PartsAreFinite, FS_Intersection
<1> HIDE DEF f, g, P, Q
<1>5. IsFiniteSet(F) /\ IsFiniteSet(G)
  BY <1>4, FiniteImage
<1>6. \A t, u \in F \cup G : SameCall(t, u) => t = u
  BY <1>3 DEF SameCall
<1> HIDE DEF F, G
<1>7. IsFiniteSet(F \cup G)
  BY <1>5, FS_Union
<1> QED
  BY <1>2, <1>6, <1>7 DEF CallsToldApart

LEMMA ApartStep == IInv /\ CallsToldApart /\ [Next]_vars => CallsToldApart'
<1> SUFFICES ASSUME IInv, CallsToldApart, [Next]_vars PROVE CallsToldApart'
  OBVIOUS
<1>1. ASSUME NEW t \in tasks, GoesOn(t) PROVE CallsToldApart'
  <2>1. PICK u : tasks' = (tasks \ {t}) \cup {u} /\ SameCall(u, t)
    BY <1>1 DEF GoesOn, Becomes
  <2>2. IsFiniteSet((tasks \ {t}) \cup {u})
    BY FS_RemoveElement, FS_AddElement DEF CallsToldApart
  <2> QED
    BY <2>1, <2>2 DEF CallsToldApart, SameCall
<1>2. ASSUME NEW t \in tasks, Ends(t) PROVE CallsToldApart'
  <2>1. IsFiniteSet(tasks \ {t})
    BY FS_RemoveElement DEF CallsToldApart
  <2> QED
    BY <1>2, <2>1 DEF Ends, CallsToldApart
<1>3. CASE Sends
  <2>1. PICK t : DOMAIN t = TaskFields /\ tasks' = tasks \cup {Numbered(t)}
    BY <1>3 DEF Sends
  <2>2. PICK s : s = Numbered(t)
    OBVIOUS
  <2>3. \A u \in tasks : ~ SameCall(u, s)
    BY <2>1, <2>2, NumberedFresh DEF CallsToldApart
  <2>4. IsFiniteSet(tasks \cup {s})
    BY FS_AddElement DEF CallsToldApart
  <2> QED
    BY <2>1, <2>2, <2>3, <2>4 DEF CallsToldApart, SameCall
<1>4. CASE Goes
  BY <1>4, FS_EmptySet DEF Goes, CallsToldApart
<1>5. CASE tasks' = tasks
  BY <1>5 DEF CallsToldApart
<1> QED
  BY <1>1, <1>2, <1>3, <1>4, <1>5, StartsApart, OpensApart, StepMoves DEF Moves

\* Every call of the page's asynchronous functions ends after at most five steps,
\* whatever fails, is refused or is overtaken, and a load takes its placeholder away when
\* it does (the awaits and catch blocks of the load functions): with NoViewIsForgotten
\* and the browser's fairness this is why placeholders go away (LoadsSettle).
THEOREM CallsComeToTheirEnd == Spec => []CallsToldApart /\ CallsAdvance
<1>1. Init => CallsToldApart
  BY FS_EmptySet DEF Init, CallsToldApart
<1>2. ASSUME IInv, [Next]_vars, NEW t \in tasks
      PROVE  \/ t \in tasks'
             \/ \E u \in tasks' : SameCall(u, t) /\ StagesLeft(u.stage) < StagesLeft(t.stage)
             \/ /\ t.stage = "answered"
                /\ t.op = "load" /\ t.what \in Views => views'[t.what].status # "loading"
             \/ page' = "login"
  <2>1. Moves
    BY <1>2, StepMoves
  <2>2. ASSUME NEW s \in tasks, GoesOn(s)
        PROVE  t \in tasks' \/ \E u \in tasks' : SameCall(u, t) /\ StagesLeft(u.stage) < StagesLeft(t.stage)
    BY <2>2 DEF GoesOn, Becomes
  <2>3. CASE Starts
    BY <2>3 DEF Starts
  <2> QED
    BY <2>1, <2>2, <2>3 DEF Moves, Ends, Sends, Opens, Goes
<1>3. IInv /\ [Next]_vars =>
        [\A t \in tasks :
          \/ t \in tasks'
          \/ \E u \in tasks' : SameCall(u, t) /\ StagesLeft(u.stage) < StagesLeft(t.stage)
          \/ /\ t.stage = "answered"
             /\ t.op = "load" /\ t.what \in Views => views'[t.what].status # "loading"
          \/ page' = "login"]_vars
  BY <1>2
<1> QED
  BY <1>1, <1>3, ApartStep, Invariant, PTL DEF Spec, CallsAdvance

-----------------------------------------------------------------------------
(* The types of the page's and the gateway's state.                          *)

ViewType == [status : {"blank", "loading", "error", "rows"}, list : SnapshotType,
             via : Nat, blind : BOOLEAN]
FormType == [open : BOOLEAN, id : Ids \cup {NoId}, opened : Ids \cup {NoId},
             options : BOOLEAN]

\* TypeOK by the parts the actions change.
GatewayType == /\ scope \in Scopes /\ scope.ids \subseteq Ids /\ scope.parts \subseteq Parts
               /\ tables \in [Tables -> SUBSET Ids]
               /\ version \in [Tables -> Nat] /\ config \in Config
               /\ lasting \in [Forms -> SUBSET Ids]
DocumentType ==
    /\ badges \in SettingsType
    /\ page \in {"login", "app", "unloading"}
    /\ route \in {"dashboard", "connections", "endpoints", "tokens", "logs", "settings"}
    /\ lists \in [Forms -> SnapshotType]
    /\ views \in [Views -> ViewType]
    /\ forms \in [Forms -> FormType]
CountsType ==
    /\ acked \in [Tables -> Nat] /\ overlapped \in [Views -> BOOLEAN]
    /\ ops \in Nat /\ edits \in Nat /\ faults \in Nat
TypeInv == GatewayType /\ DocumentType /\ tasks \subseteq Task /\ CountsType

LEMMA BasicTypes ==
    /\ NoSnapshot \in SnapshotType /\ NoSettings \in SettingsType
    /\ BlankView \in ViewType /\ ClosedForm \in FormType /\ PlainConfig \in Config
    /\ \A k \in Config : [of |-> k, data |-> Settings(k), known |-> TRUE] \in SettingsType
<1>1. NoSnapshot \in SnapshotType
  BY DEF NoSnapshot, SnapshotType
<1>2. PlainConfig \in Config
  BY PlainIsConfig
<1>3. \A k \in Config, b \in BOOLEAN : [of |-> k, data |-> Settings(k), known |-> b] \in SettingsType
  BY DEF SettingsType
<1>4. NoSettings \in SettingsType
  BY <1>2, <1>3 DEF NoSettings
<1>5. BlankView \in ViewType /\ ClosedForm \in FormType
  BY <1>1 DEF BlankView, ViewType, ClosedForm, FormType
<1> QED
  BY <1>1, <1>2, <1>3, <1>4, <1>5

LEMMA LoadType ==
    ASSUME NEW w \in Parts, NEW n \in Nat
    PROVE  Load(w, n, FirstStage(w)) \in Task
<1>1. FirstStage(w) \in {"preload", "asked"}
  BY DEF FirstStage
<1> QED
  BY <1>1, BasicTypes DEF Load, Task

LEMMA WriteType ==
    ASSUME NEW op \in {"save", "delete"}, NEW r \in Tables, NEW id \in Ids \cup {NoId},
           NEW opened \in Ids \cup {NoId}
    PROVE  Write(op, r, id, opened) \in Task
<1>1. r \in Parts
  BY DEF Parts, Views
<1> DEFINE t == Load(r, 0, "asked")
<1>2. t \in Task
  BY <1>1, BasicTypes DEF Load, Task
<1>3. Write(op, r, id, opened) =
         [t EXCEPT !.op = op, !.id = id, !.opened = opened]
  BY DEF Write
<1> HIDE DEF t
<1> QED
  BY <1>2, <1>3 DEF Task

LEMMA TaskDomain == \A t \in Task : DOMAIN t = TaskFields
  BY DEF Task, TaskFields

LEMMA NumberedType ==
    ASSUME CallsToldApart, NEW t \in Task
    PROVE  Numbered(t) \in Task
<1>1. PICK k \in Nat : Numbered(t) = [t EXCEPT !.n = k]
  BY NumberedFresh, TaskDomain DEF CallsToldApart
<1> QED
  BY <1>1 DEF Task

LEMMA StartLoadsType ==
    ASSUME CallsToldApart, NEW W, scope.parts \subseteq Parts
    PROVE  StartLoads(W) \subseteq Task
<1>1. \A w \in W \cap scope.parts : Numbered(Load(w, 0, FirstStage(w))) \in Task
  BY LoadType, NumberedType
<1> QED
  BY <1>1 DEF StartLoads

LEMMA PlaceholdersType ==
    ASSUME views \in [Views -> ViewType], NEW W
    PROVE  Placeholders(W) \in [Views -> ViewType]
<1>1. \A v \in Views : [views[v] EXCEPT !.status = "loading"] \in ViewType
  BY DEF ViewType
<1> QED
  BY <1>1 DEF Placeholders

LEMMA SnapshotTypes ==
    ASSUME GatewayType, NEW r PROVE Snapshot(r) \in SnapshotType
  BY DEF GatewayType, Snapshot, SnapshotType

LEMMA RowsType ==
    ASSUME GatewayType, NEW r \in Tables, NEW id \in Ids, NEW S,
           SaveRow(r, id) \/ DeleteRow(r, id, S), scope' = scope, config' = config
    PROVE  GatewayType'
<1>1. CASE SaveRow(r, id)
  BY <1>1 DEF GatewayType, SaveRow, Last
<1>2. CASE DeleteRow(r, id, S)
  BY <1>2 DEF GatewayType, DeleteRow, Last
<1> QED
  BY <1>1, <1>2

\* A call goes on: each field that changes keeps its type.
LEMMA AnswersType ==
    ASSUME TypeInv, NEW t \in tasks, AnswerLoad(t)
    PROVE  tasks' \subseteq Task
<1>1. t \in Task /\ config \in Config
  BY DEF TypeInv, GatewayType
<1>2. ASSUME NEW g \in {"preloaded", "asked2", "both", "answered"}, NEW x \in SnapshotType
      PROVE  /\ [t EXCEPT !.stage = g, !.other = x] \in Task
             /\ [t EXCEPT !.stage = g, !.list = x] \in Task
  BY <1>1 DEF Task
<1>3. ASSUME NEW x \in SettingsType PROVE [t EXCEPT !.stage = "answered", !.settings = x] \in Task
  BY <1>1 DEF Task
<1>4. ASSUME NEW u \in Task, Becomes(t, u) PROVE tasks' \subseteq Task
  BY <1>4 DEF TypeInv, Becomes
<1>5. \A r : Snapshot(r) \in SnapshotType
  BY SnapshotTypes DEF TypeInv
<1>6. [of |-> config, data |-> Settings(config), known |-> TRUE] \in SettingsType
  BY <1>1, BasicTypes
<1> HIDE DEF Becomes
<1> QED
  BY <1>2, <1>3, <1>4, <1>5, <1>6 DEF AnswerLoad

LEMMA AnswerWriteType ==
    ASSUME IInv, TypeInv, NEW t \in tasks, NEW res \in {"ok", "failed"}, AnswerWrite(t, res)
    PROVE  GatewayType' /\ tasks' \subseteq Task
<1>1. t \in Task /\ t.what \in Tables
  BY DEF TypeInv, AnswerWrite, IInv, TasksOK, TaskOK
<1>2. scope.ids \subseteq Ids /\ t.id \in Ids \cup {NoId} /\ scope' = scope /\ config' = config
  BY <1>1 DEF TypeInv, GatewayType, AnswerWrite, Task
<1>3. GatewayType'
  <2>1. CASE t.op = "save" /\ \E id \in scope.ids : SaveRow(t.what, id)
    BY <1>1, <1>2, <2>1, RowsType DEF TypeInv
  <2>2. CASE t.id # NoId /\ \E S \in SUBSET Ids : DeleteRow(t.what, t.id, S)
    BY <1>1, <1>2, <2>2, RowsType DEF TypeInv
  <2> QED
    BY <2>1, <2>2 DEF AnswerWrite
<1>4. PICK k \in Nat, m \in Nat :
         Becomes(t, [t EXCEPT !.stage = "answered", !.res = res, !.list.at = k, !.other.at = m])
  <2>1. version'[t.what] \in Nat /\ version'["endpoints"] \in Nat
    BY <1>1, <1>3 DEF GatewayType, Tables
  <2>2. (IF t.what = "connections" THEN version'["endpoints"] ELSE 0) \in Nat
    BY <2>1
  <2> QED
    BY <2>1, <2>2 DEF AnswerWrite
<1>5. [t.list EXCEPT !.at = k] \in SnapshotType /\ [t.other EXCEPT !.at = m] \in SnapshotType
  BY <1>1 DEF Task, SnapshotType
<1>6. ASSUME NEW x \in SnapshotType, NEW y \in SnapshotType
      PROVE  [t EXCEPT !.stage = "answered", !.res = res, !.list = x, !.other = y] \in Task
  BY <1>1 DEF Task
<1>7. [t EXCEPT !.stage = "answered", !.res = res, !.list.at = k, !.other.at = m]
      = [t EXCEPT !.stage = "answered", !.res = res, !.list = [t.list EXCEPT !.at = k],
                  !.other = [t.other EXCEPT !.at = m]]
  BY <1>1, TaskDomain DEF TaskFields
<1> QED
  BY <1>3, <1>4, <1>5, <1>6, <1>7 DEF Becomes, TypeInv

LEMMA AnswerFailsType ==
    ASSUME TypeInv, NEW t \in tasks, NEW res \in {"failed", "401"}, AnswerFails(t, res)
    PROVE  tasks' \subseteq Task
<1> DEFINE g == IF t.stage = "preload" THEN "preloaded" ELSE "answered"
           u == [t EXCEPT !.stage = g, !.res = res]
<1>1. t \in Task /\ Becomes(t, u)
  BY DEF TypeInv, AnswerFails
<1>2. u \in Task
  BY <1>1 DEF Task
<1> HIDE DEF u
<1> QED
  BY <1>1, <1>2 DEF Becomes, TypeInv

LEMMA ArrivePreloadType ==
    ASSUME TypeInv, NEW t \in tasks, ArrivePreload(t)
    PROVE  tasks' \subseteq Task /\ lists' \in [Forms -> SnapshotType]
<1> DEFINE b == t.res # "ok"
           u == [t EXCEPT !.stage = "asked", !.res = "ok", !.blind = b, !.other = NoSnapshot]
<1>1. t \in Task /\ Becomes(t, u) /\ b \in BOOLEAN
  BY DEF TypeInv, ArrivePreload
<1>2. t.other \in SnapshotType
  BY <1>1 DEF Task
<1> HIDE DEF b
<1>3. u \in Task
  BY <1>1, BasicTypes DEF Task
<1> HIDE DEF u
<1>4. lists' \in [Forms -> SnapshotType]
  BY <1>2 DEF ArrivePreload, TypeInv, DocumentType, Forms
<1> QED
  BY <1>1, <1>3, <1>4 DEF Becomes, TypeInv

\* What a call carries when it comes back.
LEMMA Carried ==
    ASSUME TypeInv, NEW t \in tasks
    PROVE  /\ t.other \in SnapshotType /\ t.list \in SnapshotType /\ t.settings \in SettingsType
           /\ t.blind \in BOOLEAN /\ t.list.at \in Nat /\ t.other.at \in Nat /\ t.what \in Parts
           /\ t.op \in {"load", "save", "delete"}
<1>1. t \in Task
  BY DEF TypeInv
<1>2. /\ t.other \in SnapshotType /\ t.list \in SnapshotType /\ t.settings \in SettingsType
      /\ t.blind \in BOOLEAN /\ t.what \in Parts /\ t.op \in {"load", "save", "delete"}
  BY <1>1 DEF Task
<1> QED
  BY <1>2 DEF SnapshotType

LEMMA PageType ==
    ASSUME TypeInv, NEW t, Intercept(t) PROVE page' \in {"login", "app", "unloading"}
  BY DEF TypeInv, DocumentType, Intercept

LEMMA ArriveConnectionsType ==
    ASSUME TypeInv, NEW t \in tasks, NEW res \in {"ok", "failed"}, ArriveConnections(t, res)
    PROVE  TypeInv'
<1> DEFINE u == [t EXCEPT !.stage = "answered", !.res = res]
<1>1. /\ t \in Task /\ Becomes(t, u) /\ lists' = [lists EXCEPT !["connections"] = t.other]
      /\ UNCHANGED <<scope, gateway, page, route, badges, views, forms, history, ops, edits>>
      /\ faults' \in {faults, faults + 1}
  BY DEF TypeInv, ArriveConnections
<1>2. u \in Task /\ t.other \in SnapshotType
  BY <1>1 DEF Task
<1> HIDE DEF u
<1>3. tasks' \subseteq Task /\ lists' \in [Forms -> SnapshotType]
  BY <1>1, <1>2 DEF TypeInv, Becomes, DocumentType, Forms
<1> QED
  BY <1>1, <1>3 DEF TypeInv, GatewayType, DocumentType, CountsType, gateway, history

LEMMA ArriveType ==
    ASSUME TypeInv, NEW t \in tasks, ArriveDashboard(t) \/ ArriveSettings(t) \/ ArriveLoad(t)
    PROVE  TypeInv'
<1>0. /\ page' \in {"login", "app", "unloading"} /\ tasks' \subseteq Task
      /\ UNCHANGED <<scope, gateway, route, forms, history, ops, edits, faults>>
  BY PageType DEF ArriveDashboard, ArriveSettings, ArriveLoad, TypeInv
<1>1. badges' \in SettingsType
  BY Carried DEF ArriveDashboard, ArriveSettings, ArriveLoad, TypeInv, DocumentType
<1>2. lists' \in [Forms -> SnapshotType]
  BY Carried DEF ArriveDashboard, ArriveSettings, ArriveLoad, TypeInv, DocumentType, Forms
<1>3. views' \in [Views -> ViewType]
  <2>1. lists["connections"].at \in Nat
    BY DEF TypeInv, DocumentType, Forms, SnapshotType
  <2>2. NewView(t) \in ViewType
    BY <2>1, Carried, BasicTypes DEF NewView, ViewType, BlankView
  <2> QED
    BY <2>2 DEF ArriveDashboard, ArriveSettings, ArriveLoad, TypeInv, DocumentType
<1> QED
  BY <1>0, <1>1, <1>2, <1>3 DEF TypeInv, GatewayType, DocumentType, CountsType, gateway, history

LEMMA ArriveWriteType == ASSUME CallsToldApart, TypeInv, NEW t \in tasks, ArriveWrite(t) PROVE TypeInv'
<1>0. /\ page' \in {"login", "app", "unloading"}
      /\ UNCHANGED <<scope, gateway, route, lists, badges, ops, edits, faults>>
  BY PageType DEF ArriveWrite
<1>1. CASE t.res = "ok"
  <2> DEFINE W == Refresh(t.op, t.what)
  <2>1. /\ tasks' = (tasks \ {t}) \cup StartLoads(W) /\ views' = Placeholders(W \cap scope.parts)
        /\ overlapped' = Overlaps(W)
        /\ acked' = [r \in Tables |-> IF r = t.what THEN t.list.at
                                      ELSE IF r = "endpoints" /\ t.op = "delete" /\ t.what = "connections"
                                      THEN t.other.at ELSE acked[r]]
        /\ forms' = [r \in Forms |-> [forms[r] EXCEPT !.open = @ /\ (t.op = "delete" \/ t.what # r)]]
    BY <1>1 DEF ArriveWrite
  <2> HIDE DEF W
  <2>2. tasks' \subseteq Task /\ views' \in [Views -> ViewType]
    BY <2>1, StartLoadsType, PlaceholdersType DEF TypeInv, GatewayType, DocumentType
  <2>3. overlapped' \in [Views -> BOOLEAN]
    BY <2>1 DEF Overlaps, Loading, TypeInv, CountsType
  <2>4. acked' \in [Tables -> Nat]
    BY <2>1, Carried DEF TypeInv, CountsType
  <2>5. forms' \in [Forms -> FormType]
    <3>1. \A r \in Forms : [forms[r] EXCEPT !.open = @ /\ (t.op = "delete" \/ t.what # r)] \in FormType
      BY DEF TypeInv, DocumentType, FormType
    <3> QED
      BY <2>1, <3>1
  <2> QED
    BY <1>0, <2>2, <2>3, <2>4, <2>5 DEF TypeInv, GatewayType, DocumentType, CountsType, gateway
<1>2. CASE t.res # "ok"
  BY <1>0, <1>2 DEF ArriveWrite, TypeInv, GatewayType, DocumentType, CountsType, gateway, history
<1> QED
  BY <1>1, <1>2

\* Nothing but calls and counters changes.
LEMMA RestType ==
    ASSUME TypeInv, GatewayType', tasks' \subseteq Task,
           UNCHANGED <<page, route, lists, badges, views, forms, acked, overlapped>>,
           ops' \in Nat, edits' \in Nat, faults' \in Nat
    PROVE  TypeInv'
<1>1. DocumentType'
  BY DEF TypeInv, DocumentType
<1>2. CountsType'
  BY DEF TypeInv, CountsType
<1> QED
  BY <1>1, <1>2 DEF TypeInv

LEMMA SameGateway == GatewayType /\ UNCHANGED <<scope, gateway>> => GatewayType'
  BY DEF GatewayType, gateway

LEMMA TaskStepType == ASSUME IInv, CallsToldApart, TypeInv, NEW t \in tasks, TaskStep(t) PROVE TypeInv'
<1>1. CASE AnswerLoad(t)
  <2>1. tasks' \subseteq Task
    BY <1>1, AnswersType
  <2>2. UNCHANGED <<scope, gateway, page, route, lists, badges, views, forms, history, ops, edits, faults>>
    BY <1>1 DEF AnswerLoad
  <2> QED
    BY <2>1, <2>2, RestType, SameGateway DEF TypeInv, CountsType, history
<1>2. ASSUME NEW res \in {"ok", "failed"}, AnswerWrite(t, res) PROVE TypeInv'
  <2>1. GatewayType' /\ tasks' \subseteq Task
    BY <1>2, AnswerWriteType
  <2>2. /\ UNCHANGED <<page, route, lists, badges, views, forms, history, ops, edits>>
        /\ faults' \in {faults, faults + 1}
    BY <1>2 DEF AnswerWrite
  <2> QED
    BY <2>1, <2>2, RestType DEF TypeInv, CountsType, history
<1>3. ASSUME NEW res \in {"failed", "401"}, AnswerFails(t, res) PROVE TypeInv'
  <2>1. tasks' \subseteq Task
    BY <1>3, AnswerFailsType
  <2>2. /\ UNCHANGED <<scope, gateway, page, route, lists, badges, views, forms, history, ops, edits>>
        /\ faults' \in {faults, faults + 1}
    BY <1>3 DEF AnswerFails
  <2> QED
    BY <2>1, <2>2, RestType, SameGateway DEF TypeInv, CountsType, history
<1>4. CASE ArrivePreload(t)
  <2>1. tasks' \subseteq Task /\ lists' \in [Forms -> SnapshotType] /\ page' \in {"login", "app", "unloading"}
    BY <1>4, ArrivePreloadType, PageType DEF ArrivePreload
  <2>2. UNCHANGED <<scope, gateway, route, badges, views, forms, history, ops, edits, faults>>
    BY <1>4 DEF ArrivePreload
  <2>3. DocumentType' /\ CountsType'
    BY <2>1, <2>2 DEF TypeInv, DocumentType, CountsType, history
  <2> QED
    BY <2>1, <2>2, <2>3, SameGateway DEF TypeInv
<1> QED
  BY <1>1, <1>2, <1>3, <1>4, ArriveConnectionsType, ArriveType, ArriveWriteType DEF TaskStep

LEMMA RouteType ==
    ASSUME NEW hash \in Hashes
    PROVE  Redirect(hash) \in {"dashboard", "connections", "endpoints", "tokens", "logs", "settings"}
  BY DEF Hashes, Routes, Redirect

LEMMA BootType == ASSUME TypeInv, NEW hash \in Hashes, Boot(hash) PROVE TypeInv'
<1> DEFINE all == Parts \cap scope.parts
           twice == RouteLoads(Redirect(hash)) \cap scope.parts
<1>1. /\ UNCHANGED <<scope, tables, version, config, lists, badges, forms, acked, edits, faults>>
      /\ lasting' = [r \in Forms |-> tables[r]] /\ views' = Placeholders(all) /\ page' = "app" /\ route' = Redirect(hash) /\ ops' = ops + 1
      /\ tasks' = {Load(w, 1, FirstStage(w)) : w \in all} \cup {Load(w, 2, FirstStage(w)) : w \in twice}
      /\ overlapped' = [v \in Views |-> v \in twice]
  BY DEF Boot, Op
<1>2. all \subseteq Parts /\ twice \subseteq Parts
  BY DEF TypeInv, GatewayType
<1> HIDE DEF all, twice
<1>3. tasks' \subseteq Task
  BY <1>1, <1>2, LoadType
<1>4. views' \in [Views -> ViewType]
  BY <1>1, PlaceholdersType DEF TypeInv, DocumentType
<1>5. overlapped' \in [Views -> BOOLEAN]
  BY <1>1
<1>6. lasting' \in [Forms -> SUBSET Ids]
  BY <1>1 DEF TypeInv, GatewayType, Forms, Tables
<1> QED
  BY <1>1, <1>3, <1>4, <1>5, <1>6, RouteType DEF TypeInv, GatewayType, DocumentType, CountsType

LEMMA NavigateType == ASSUME CallsToldApart, TypeInv, NEW hash \in Hashes, Navigate(hash) PROVE TypeInv'
<1> DEFINE W == RouteLoads(Redirect(hash))
<1>1. /\ UNCHANGED <<scope, gateway, page, lists, badges, forms, acked, edits, faults>>
      /\ views' = Placeholders(W \cap scope.parts) /\ route' = Redirect(hash) /\ ops' = ops + 1
      /\ tasks' = tasks \cup StartLoads(W) /\ overlapped' = Overlaps(W)
  BY DEF Navigate, Op
<1> HIDE DEF W
<1>2. tasks' \subseteq Task /\ views' \in [Views -> ViewType]
  BY <1>1, StartLoadsType, PlaceholdersType DEF TypeInv, GatewayType, DocumentType
<1>3. overlapped' \in [Views -> BOOLEAN]
  BY <1>1 DEF Overlaps, Loading, TypeInv, CountsType
<1> QED
  <2>1. GatewayType'
    BY <1>1, SameGateway DEF TypeInv
  <2>2. DocumentType'
    BY <1>1, <1>2, RouteType DEF TypeInv, DocumentType
  <2>3. CountsType'
    BY <1>1, <1>3 DEF TypeInv, CountsType
  <2> QED
    BY <1>2, <2>1, <2>2, <2>3 DEF TypeInv

LEMMA SendType == ASSUME CallsToldApart, TypeInv, NEW t \in Task, Send(t) PROVE TypeInv'
<1>1. tasks' \subseteq Task
  BY NumberedType DEF Send, TypeInv
<1> QED
  BY <1>1 DEF Send, Op, TypeInv, GatewayType, DocumentType, CountsType, gateway, history

LEMMA ModalType ==
    ASSUME TypeInv, NEW r \in Forms, NEW id \in Ids \cup {NoId}, OpenModal(r, id) \/ CloseModal(r)
    PROVE  TypeInv'
<1>1. forms \in [Forms -> FormType] /\ forms[r] \in FormType
  BY DEF TypeInv, DocumentType
<1>2. HiddenId(r, id) \in Ids \cup {NoId}
  BY <1>1 DEF HiddenId, FormType
<1>3. forms' \in [Forms -> FormType]
  <2>1. CASE OpenModal(r, id)
    <3> DEFINE f == [open |-> TRUE, opened |-> id, id |-> HiddenId(r, id),
                     options |-> lists["connections"].ids # {}]
    <3>1. f \in FormType
      BY <1>2 DEF FormType
    <3>2. forms' = [forms EXCEPT ![r] = f]
      BY <2>1 DEF OpenModal
    <3> HIDE DEF f
    <3> QED
      BY <1>1, <3>1, <3>2
  <2>2. CASE CloseModal(r)
    <3>1. [forms[r] EXCEPT !.open = FALSE] \in FormType
      BY <1>1 DEF FormType
    <3> QED
      BY <1>1, <2>2, <3>1 DEF CloseModal
  <2> QED
    BY <2>1, <2>2
<1> QED
  BY <1>3 DEF OpenModal, CloseModal, Op, TypeInv, GatewayType, DocumentType, CountsType, gateway, history

LEMMA UnloadType == ASSUME TypeInv, Unload PROVE TypeInv'
  BY BasicTypes DEF Unload, TypeInv, GatewayType, DocumentType, CountsType, gateway

LEMMA RowIds == ASSUME TypeInv, NEW r \in Tables PROVE Rows(r) \subseteq Ids
<1>1. views[r].list \in SnapshotType
  BY DEF TypeInv, DocumentType, ViewType, Views
<1> QED
  BY <1>1 DEF Rows, SnapshotType

LEMMA TypeStep == IInv /\ CallsToldApart /\ TypeInv /\ [Next]_vars => TypeInv'
<1> SUFFICES ASSUME IInv, CallsToldApart, TypeInv, [Next]_vars PROVE TypeInv'
  OBVIOUS
<1>1. ASSUME NEW r \in Forms, NEW id \in Rows(r) \cup {NoId}, OpenModal(r, id) PROVE TypeInv'
  <2>1. id \in Ids \cup {NoId}
    BY RowIds DEF Forms, Tables
  <2> QED
    BY <1>1, <2>1, ModalType
<1>2. ASSUME NEW r \in Forms, CloseModal(r) PROVE TypeInv'
  BY <1>2, ModalType
<1>3. ASSUME NEW r \in Forms, Submit(r) PROVE TypeInv'
  <2>1. forms[r].id \in Ids \cup {NoId} /\ forms[r].opened \in Ids \cup {NoId}
    BY DEF TypeInv, DocumentType, FormType
  <2>2. Write("save", r, forms[r].id, forms[r].opened) \in Task
    BY <2>1, WriteType DEF Forms, Tables
  <2> QED
    BY <1>3, <2>2, SendType DEF Submit
<1>4. ASSUME NEW r \in {"vault", "tokens"}, NEW id \in scope.ids, SubmitNamed(r, id) PROVE TypeInv'
  <2>1. id \in Ids
    BY DEF TypeInv, GatewayType
  <2>2. Write("save", r, id, id) \in Task
    BY <2>1, WriteType DEF Tables
  <2> QED
    BY <1>4, <2>2, SendType DEF SubmitNamed
<1>5. ASSUME NEW r \in Tables, NEW id \in Ids, Delete(r, id) PROVE TypeInv'
  <2>1. DeleteKey(r, id) \in Ids \cup {NoId}
    BY DEF DeleteKey
  <2>2. Write("delete", r, DeleteKey(r, id), id) \in Task
    BY <2>1, WriteType
  <2> QED
    BY <1>5, <2>2, SendType DEF Delete
<1>6. CASE OtherEdit
  <2>1. PICK r \in Tables, id \in Ids : SaveRow(r, id) \/ \E S \in SUBSET Ids : DeleteRow(r, id, S)
    BY <1>6 DEF OtherEdit, TypeInv, GatewayType
  <2>2. GatewayType'
    BY <1>6, <2>1, RowsType DEF OtherEdit, TypeInv
  <2> QED
    BY <1>6, <2>2 DEF OtherEdit, TypeInv, DocumentType, CountsType, history
<1>7. CASE Reconfigure
  BY <1>7 DEF Reconfigure, TypeInv, GatewayType, DocumentType, CountsType, history
<1>8. CASE UNCHANGED vars
  BY <1>8 DEF vars, TypeInv, GatewayType, DocumentType, CountsType, gateway, history
<1> QED
  BY <1>1, <1>2, <1>3, <1>4, <1>5, <1>6, <1>7, <1>8, BootType, NavigateType, UnloadType, TaskStepType
  DEF Next

\* STATE, the views, the modals, the calls under way and the gateway's tables keep their
\* types, whatever answers in whichever order.
THEOREM PageTypeCorrect == Spec => []TypeOK
<1>1. Init => TypeInv
  <2> SUFFICES ASSUME Init PROVE TypeInv
    OBVIOUS
  <2>1. scope \in Scope
    BY PageAssumption DEF Init
  <2>2. GatewayType
    BY <2>1, BasicTypes DEF Init, GatewayType, Scope
  <2>3. DocumentType /\ CountsType
    BY BasicTypes DEF Init, DocumentType, CountsType
  <2> QED
    BY <2>2, <2>3 DEF Init, TypeInv
<1>2. TypeInv => TypeOK
  BY DEF TypeInv, GatewayType, DocumentType, CountsType, ViewType, FormType, TypeOK
<1> QED
  BY <1>1, <1>2, TypeStep, CallsComeToTheirEnd, Invariant, PTL DEF Spec
-----------------------------------------------------------------------------
(* What a form saves.                                                        *)

\* A form, or the call that saves it, has the id of its row, if that row is one of S.
Aimed(f, S) == f.opened \in S \cup {NoId} => f.id = f.opened

\* What a call has read of a table has the rows L that have been there since Boot.
HasRead(t, L) ==
    /\ t.stage \in {"preload", "preloaded"} => t.op = "load"
    /\ t.stage \in {"preloaded", "asked2", "both"} /\ t.res = "ok" => L["connections"] \subseteq t.other.ids
    /\ t.stage \in {"both", "answered"} /\ t.what = "dashboard" /\ t.res = "ok"
          => L["endpoints"] \subseteq t.list.ids
    /\ t.op = "load" /\ t.stage = "answered" /\ t.what \in Forms /\ t.res = "ok"
          => L[t.what] \subseteq t.list.ids
    /\ t.op = "save" => IF t.what \in Forms THEN Aimed(t, L[t.what]) ELSE t.id = t.opened

\* STATE covers them once rows are on view, and so do the forms filled from it.
TargetInv ==
    /\ \A r \in Forms : lasting[r] \subseteq tables[r]
    /\ \A r \in Forms : views[r].status = "rows" => lasting[r] \subseteq lists[r].ids
    /\ \A r \in Forms : Aimed(forms[r], lasting[r])
    /\ page = "login" => \A r \in Forms : views[r].status # "rows" /\ forms[r].opened = NoId
    /\ \A t \in tasks : HasRead(t, lasting)

\* Rows that go are no longer asked for.
LEMMA ReadStays ==
    ASSUME NEW t, NEW L, NEW M, \A r \in Forms : M[r] \subseteq L[r], HasRead(t, L)
    PROVE  HasRead(t, M)
  BY DEF HasRead, Aimed, Forms

\* A step that leaves the forms' ids alone.
LEMMA TargetStays ==
    ASSUME TargetInv,
           \A r \in Forms : lasting'[r] \subseteq lasting[r] \cap tables'[r],
           \A r \in Forms : views'[r].status = "rows" => lasting'[r] \subseteq lists'[r].ids,
           \A r \in Forms : forms'[r].id = forms[r].id /\ forms'[r].opened = forms[r].opened,
           page' # "login" \/ (page = "login" /\ views' = views),
           \A t \in tasks' : t \in tasks \/ HasRead(t, lasting')
    PROVE  TargetInv'
<1>1. \A t \in tasks' : HasRead(t, lasting')
  BY ReadStays DEF TargetInv
<1>2. \A r \in Forms : Aimed(forms'[r], lasting'[r])
  BY DEF TargetInv, Aimed
<1> QED
  BY <1>1, <1>2 DEF TargetInv, Aimed

\* The gateway's rows are as they were.
LEMMA SameRows ==
    ASSUME TargetInv, UNCHANGED gateway
    PROVE  \A r \in Forms : lasting'[r] \subseteq lasting[r] \cap tables'[r]
  BY DEF TargetInv, gateway

LEMMA InitTarget == Init => TargetInv
  BY DEF Init, TargetInv, BlankView, ClosedForm, Aimed, Forms, Views, Tables

\* A load that starts has read nothing; no more has a write that is sent.
LEMMA LoadReads ==
    ASSUME NEW w \in Parts, NEW n, NEW L
    PROVE  HasRead(Load(w, n, FirstStage(w)), L)
<1> DEFINE s == Load(w, n, FirstStage(w))
<1>1. s.op = "load" /\ s.stage \in {"preload", "asked"}
  BY DEF Load, FirstStage
<1> HIDE DEF s
<1>2. HasRead(s, L)
  BY <1>1 DEF HasRead
<1> QED
  BY <1>2 DEF s

LEMMA NumberedReads ==
    ASSUME NEW t, NEW L, DOMAIN t = TaskFields, HasRead(t, L)
    PROVE  HasRead(Numbered(t), L)
<1> DEFINE k == Min((1 .. Cardinality({u \in tasks : u.op = t.op /\ u.what = t.what}) + 1)
                     \ {u.n : u \in {v \in tasks : v.op = t.op /\ v.what = t.what}})
           s == [t EXCEPT !.n = k]
<1>1. Numbered(t) = s
  BY DEF Numbered
<1> HIDE DEF k
<1>2. /\ s.op = t.op /\ s.what = t.what /\ s.id = t.id /\ s.opened = t.opened
      /\ s.stage = t.stage /\ s.res = t.res /\ s.other = t.other /\ s.list = t.list
  BY DEF TaskFields
<1> HIDE DEF s
<1> QED
  BY <1>1, <1>2 DEF HasRead, Aimed

LEMMA StartReads ==
    ASSUME NEW W, NEW L, ListsOK, scope.parts \subseteq Parts
    PROVE  \A s \in StartLoads(W) : HasRead(s, L)
<1>1. \A w \in W \cap scope.parts : HasRead(Numbered(Load(w, 0, FirstStage(w))), L)
  BY LoadReads, LoadOK, NumberedReads DEF TaskOK
<1> QED
  BY <1>1 DEF StartLoads

LEMMA BootTarget == ASSUME IInv, TargetInv, NEW hash, Boot(hash) PROVE TargetInv'
<1> DEFINE all == Parts \cap scope.parts
           twice == RouteLoads(Redirect(hash)) \cap scope.parts
<1>1. /\ UNCHANGED <<tables, lists, forms>> /\ views' = Placeholders(all) /\ page = "login"
      /\ tasks' = {Load(w, 1, FirstStage(w)) : w \in all} \cup {Load(w, 2, FirstStage(w)) : w \in twice}
      /\ page' = "app" /\ lasting' = [r \in Forms |-> tables[r]]
  BY DEF Boot
<1>2. all \subseteq Parts /\ twice \subseteq Parts
  BY PartsOK DEF IInv
<1> HIDE DEF all, twice
<1>3. \A t \in tasks' : HasRead(t, lasting')
  BY <1>1, <1>2, LoadReads
<1>4. \A r \in Forms : views'[r].status # "rows"
  BY <1>1 DEF Placeholders, TargetInv, IInv, ViewsOK, ViewFields, Forms, Views, Tables
<1>5. \A r \in Forms : Aimed(forms[r], {}) /\ forms[r].opened = NoId
  BY <1>1 DEF TargetInv, Aimed
<1> QED
  BY <1>1, <1>3, <1>4, <1>5 DEF TargetInv, Aimed

\* Loads start: a placeholder is no row.
LEMMA StartTarget ==
    ASSUME IInv, TargetInv, NEW T, NEW W, T \subseteq tasks, tasks' = T \cup StartLoads(W),
           views' = Placeholders(W \cap scope.parts), UNCHANGED <<gateway, lists>>, page' # "login",
           \A r \in Forms : forms'[r].id = forms[r].id /\ forms'[r].opened = forms[r].opened
    PROVE  TargetInv'
<1>1. \A t \in tasks' : t \in tasks \/ HasRead(t, lasting')
  BY StartReads, PartsOK DEF IInv
<1>2. \A r \in Forms : views'[r].status = "rows" => views[r].status = "rows"
  BY DEF Placeholders, IInv, ViewsOK, ViewFields, Forms, Views, Tables
<1> QED
  BY <1>1, <1>2, SameRows, TargetStays DEF TargetInv, gateway

LEMMA NavigateTarget == ASSUME IInv, TargetInv, NEW hash, Navigate(hash) PROVE TargetInv'
  BY StartTarget DEF Navigate

LEMMA UnloadTarget == ASSUME IInv, TargetInv, Unload PROVE TargetInv'
  BY DEF Unload, TargetInv, BlankView, ClosedForm, Aimed, gateway, Forms, Views, Tables

\* A form is opened: its row is on view, so STATE has been read since Boot.
LEMMA OpenModalTarget ==
    ASSUME IInv, TargetInv, NEW r \in Forms, NEW id \in Rows(r) \cup {NoId}, OpenModal(r, id)
    PROVE  TargetInv'
<1>1. UNCHANGED <<gateway, lists, views, tasks, page>> /\ page = "app"
  BY DEF OpenModal
<1>2. id \in lasting[r] \cup {NoId} => HiddenId(r, id) = id
  BY DEF Rows, HiddenId, TargetInv
<1>3. /\ forms'[r].opened = id /\ forms'[r].id = HiddenId(r, id)
      /\ \A q \in Forms \ {r} : forms'[q] = forms[q]
  BY DEF OpenModal, IInv, FormsOK
<1>4. \A q \in Forms : Aimed(forms'[q], lasting[q])
  BY <1>2, <1>3 DEF Aimed, TargetInv
<1> QED
  BY <1>1, <1>4 DEF TargetInv, gateway

LEMMA CloseModalTarget == ASSUME IInv, TargetInv, NEW r \in Forms, CloseModal(r) PROVE TargetInv'
<1>1. \A q \in Forms : forms'[q].id = forms[q].id /\ forms'[q].opened = forms[q].opened
  BY DEF CloseModal, IInv, FormsOK, FormOK, FormFields
<1> QED
  BY <1>1, SameRows, TargetStays DEF CloseModal, TargetInv, gateway

LEMMA SendTarget ==
    ASSUME IInv, TargetInv, NEW op \in {"save", "delete"}, NEW r \in Tables, NEW id, NEW opened,
           op = "save" => IF r \in Forms THEN opened \in lasting[r] \cup {NoId} => id = opened
                                         ELSE id = opened,
           page = "app", Send(Write(op, r, id, opened))
    PROVE  TargetInv'
<1> DEFINE s == Write(op, r, id, opened)
<1>1. /\ DOMAIN s = TaskFields /\ s.op = op /\ s.what = r /\ s.stage = "asked" /\ s.id = id
      /\ s.opened = opened
  BY DEF Write, Load, TaskFields
<1>2. UNCHANGED <<gateway, page, lists, views, forms>> /\ tasks' = tasks \cup {Numbered(s)}
  BY DEF Send
<1> HIDE DEF s
<1>3. HasRead(s, lasting)
  BY <1>1 DEF HasRead, Aimed
<1>4. HasRead(Numbered(s), lasting')
  BY <1>1, <1>2, <1>3, NumberedReads DEF gateway
<1> QED
  BY <1>2, <1>4, SameRows, TargetStays DEF TargetInv, gateway

\* A call goes on as u, which has read what it should have.
LEMMA BecomesTarget ==
    ASSUME IInv, TargetInv, NEW t \in tasks, NEW u, Becomes(t, u), HasRead(u, lasting'),
           UNCHANGED <<lists, views, forms, page>>,
           \A r \in Forms : lasting'[r] \subseteq lasting[r] \cap tables'[r]
    PROVE  TargetInv'
<1>1. \A s \in tasks' : s \in tasks \/ HasRead(s, lasting')
  BY DEF Becomes
<1> QED
  BY <1>1, NotLogin, TargetStays DEF TargetInv

LEMMA AnswerLoadTarget == ASSUME IInv, TargetInv, NEW t \in tasks, AnswerLoad(t) PROVE TargetInv'
<1>1. /\ UNCHANGED <<gateway, page, lists, views, forms>> /\ t.op = "load" /\ HasRead(t, lasting)
      /\ \A r \in Forms : lasting'[r] \subseteq lasting[r] \cap tables'[r]
      /\ DOMAIN t = TaskFields
      /\ (t.stage = "asked2" => t.what = "dashboard")
  BY SameRows DEF AnswerLoad, TargetInv, IInv, TasksOK, TaskOK
<1>2. ASSUME NEW u, Becomes(t, u), HasRead(u, lasting) PROVE TargetInv'
  BY <1>1, <1>2, BecomesTarget DEF gateway
<1>3. \A r \in Forms : lasting[r] \subseteq Snapshot(r).ids
  BY DEF TargetInv, Snapshot, Forms, Tables
<1>4. ASSUME NEW g \in {"preloaded", "asked2"},
             Becomes(t, [t EXCEPT !.stage = g, !.other = Snapshot("connections")])
      PROVE  TargetInv'
  <2> DEFINE u == [t EXCEPT !.stage = g, !.other = Snapshot("connections")]
  <2>1. u.op = t.op /\ u.what = t.what /\ u.stage = g /\ u.other = Snapshot("connections")
    BY <1>1 DEF TaskFields
  <2> HIDE DEF u
  <2>2. HasRead(u, lasting)
    BY <1>1, <1>3, <2>1 DEF HasRead, Forms
  <2> QED
    BY <1>2, <1>4, <2>2 DEF u
<1>5. CASE t.stage = "asked2" /\ Becomes(t, [t EXCEPT !.stage = "both", !.list = Snapshot("endpoints")])
  <2> DEFINE u == [t EXCEPT !.stage = "both", !.list = Snapshot("endpoints")]
  <2>1. /\ u.op = t.op /\ u.what = t.what /\ u.stage = "both" /\ u.list = Snapshot("endpoints")
        /\ u.other = t.other /\ u.res = t.res
    BY <1>1 DEF TaskFields
  <2> HIDE DEF u
  <2>2. HasRead(u, lasting)
    BY <1>1, <1>3, <1>5, <2>1 DEF HasRead, Forms
  <2> QED
    BY <1>2, <1>5, <2>2 DEF u
<1>6. CASE /\ t.stage = "asked" /\ t.what = "settings"
           /\ Becomes(t, [t EXCEPT !.stage = "answered",
                         !.settings = [of |-> config, data |-> Settings(config), known |-> TRUE]])
  <2> DEFINE g == [of |-> config, data |-> Settings(config), known |-> TRUE]
             u == [t EXCEPT !.stage = "answered", !.settings = g]
  <2>1. Becomes(t, u)
    BY <1>6
  <2> HIDE DEF g
  <2>2. u.op = t.op /\ u.what = t.what /\ u.stage = "answered"
    BY <1>1 DEF TaskFields
  <2> HIDE DEF u
  <2>3. HasRead(u, lasting)
    BY <1>1, <1>6, <2>2 DEF HasRead, Forms
  <2> QED
    BY <1>2, <2>1, <2>3
<1>7. CASE t.stage = "asked" /\ t.what \in Views /\ Becomes(t, [t EXCEPT !.stage = "answered", !.list = Snapshot(t.what)])
  <2> DEFINE u == [t EXCEPT !.stage = "answered", !.list = Snapshot(t.what)]
  <2>1. u.op = t.op /\ u.what = t.what /\ u.stage = "answered" /\ u.list = Snapshot(t.what)
    BY <1>1 DEF TaskFields
  <2> HIDE DEF u
  <2>2. HasRead(u, lasting)
    BY <1>1, <1>3, <1>7, <2>1 DEF HasRead, Forms, Views, Tables
  <2> QED
    BY <1>2, <1>7, <2>2 DEF u
<1> QED
  BY <1>4, <1>5, <1>6, <1>7 DEF AnswerLoad

\* Rows are saved and deleted: Last.
LEMMA RowsLast ==
    ASSUME NEW r \in Tables, NEW id, NEW S, SaveRow(r, id) \/ DeleteRow(r, id, S)
    PROVE  \A q \in Forms : lasting'[q] \subseteq lasting[q] \cap tables'[q]
  BY DEF SaveRow, DeleteRow, Last

LEMMA AnswerWriteTarget ==
    ASSUME IInv, TargetInv, NEW t \in tasks, NEW res, AnswerWrite(t, res) PROVE TargetInv'
<1> DEFINE k == version'[t.what]
           m == IF t.what = "connections" THEN version'["endpoints"] ELSE 0
           u == [t EXCEPT !.stage = "answered", !.res = res, !.list.at = k, !.other.at = m]
<1>1. /\ DOMAIN t = TaskFields /\ t.op # "load" /\ t.what \in Tables /\ HasRead(t, lasting)
  BY DEF IInv, TasksOK, TaskOK, AnswerWrite, TargetInv
<1>2. UNCHANGED <<page, lists, views, forms>> /\ Becomes(t, u)
  BY DEF AnswerWrite
<1>3. \A r \in Forms : lasting'[r] \subseteq lasting[r] \cap tables'[r]
  BY <1>1, RowsLast DEF AnswerWrite
<1> HIDE DEF k, m
<1>4. u.op = t.op /\ u.what = t.what /\ u.id = t.id /\ u.opened = t.opened /\ u.stage = "answered"
  BY <1>1 DEF TaskFields
<1> HIDE DEF u
<1>5. HasRead(u, lasting)
  BY <1>1, <1>4 DEF HasRead, Aimed, Tables
<1>6. HasRead(u, lasting')
  BY <1>3, <1>5, ReadStays
<1> QED
  BY <1>2, <1>3, <1>6, BecomesTarget

LEMMA AnswerFailsTarget ==
    ASSUME IInv, TargetInv, NEW t \in tasks, NEW res \in {"failed", "401"}, AnswerFails(t, res)
    PROVE  TargetInv'
<1> DEFINE g == IF t.stage = "preload" THEN "preloaded" ELSE "answered"
           u == [t EXCEPT !.stage = g, !.res = res]
<1>1. DOMAIN t = TaskFields /\ HasRead(t, lasting)
  BY DEF IInv, TasksOK, TaskOK, TargetInv
<1>2. UNCHANGED <<gateway, page, lists, views, forms>> /\ Becomes(t, u)
  BY DEF AnswerFails
<1>3. g \in {"preloaded", "answered"} /\ (g = "preloaded" => t.op = "load")
  BY <1>1 DEF HasRead
<1> HIDE DEF g
<1>4. u.op = t.op /\ u.what = t.what /\ u.id = t.id /\ u.opened = t.opened /\ u.stage = g /\ u.res = res
  BY <1>1 DEF TaskFields
<1> HIDE DEF u
<1>5. HasRead(u, lasting)
  BY <1>1, <1>3, <1>4 DEF HasRead, Aimed
<1> QED
  BY <1>2, <1>5, SameRows, BecomesTarget DEF gateway

LEMMA OtherEditTarget == ASSUME IInv, TargetInv, OtherEdit PROVE TargetInv'
<1>1. \A r \in Forms : lasting'[r] \subseteq lasting[r] \cap tables'[r]
  BY RowsLast DEF OtherEdit
<1> QED
  BY <1>1, TargetStays DEF OtherEdit, TargetInv

\* Answers reach the page: what they replace STATE by covers the rows too.
LEMMA ArrivePreloadTarget == ASSUME IInv, TargetInv, NEW t \in tasks, ArrivePreload(t) PROVE TargetInv'
<1> DEFINE b == t.res # "ok"
           u == [t EXCEPT !.stage = "asked", !.res = "ok", !.blind = b, !.other = NoSnapshot]
<1>1. DOMAIN t = TaskFields /\ HasRead(t, lasting) /\ t.stage = "preloaded" /\ ListsOK
  BY DEF IInv, TasksOK, TaskOK, TargetInv, ArrivePreload
<1>2. UNCHANGED <<gateway, views, forms>> /\ Becomes(t, u) /\ Intercept(t)
      /\ lists' = IF t.res = "ok" THEN [lists EXCEPT !["connections"] = t.other] ELSE lists
  BY DEF ArrivePreload
<1> HIDE DEF b
<1>3. u.op = t.op /\ u.what = t.what /\ u.stage = "asked"
  BY <1>1 DEF TaskFields
<1> HIDE DEF u
<1>4. HasRead(u, lasting')
  BY <1>1, <1>3 DEF HasRead
<1>5. \A r \in Forms : views'[r].status = "rows" => lasting'[r] \subseteq lists'[r].ids
  BY <1>1, <1>2 DEF TargetInv, HasRead, ListsOK, Forms, gateway
<1>6. \A s \in tasks' : s \in tasks \/ HasRead(s, lasting')
  BY <1>2, <1>4 DEF Becomes
<1> QED
  BY <1>2, <1>5, <1>6, NotLogin, SameRows, TargetStays

LEMMA ArriveConnectionsTarget ==
    ASSUME IInv, TargetInv, NEW t \in tasks, NEW res, ArriveConnections(t, res) PROVE TargetInv'
<1> DEFINE u == [t EXCEPT !.stage = "answered", !.res = res]
<1>1. /\ DOMAIN t = TaskFields /\ HasRead(t, lasting) /\ t.stage = "both" /\ ListsOK
      /\ t.res = "ok" /\ t.what = "dashboard" /\ t.op = "load"
  BY DEF IInv, TasksOK, TaskOK, TargetInv, ArriveConnections, Tables
<1>2. UNCHANGED <<gateway, views, forms, page>> /\ Becomes(t, u)
      /\ lists' = [lists EXCEPT !["connections"] = t.other]
  BY DEF ArriveConnections
<1>3. u.op = t.op /\ u.what = t.what /\ u.stage = "answered" /\ u.list = t.list
  BY <1>1 DEF TaskFields
<1> HIDE DEF u
<1>4. HasRead(u, lasting')
  BY <1>1, <1>2, <1>3 DEF HasRead, Forms, gateway
<1>5. \A r \in Forms : views'[r].status = "rows" => lasting'[r] \subseteq lists'[r].ids
  BY <1>1, <1>2 DEF TargetInv, HasRead, ListsOK, Forms, gateway
<1>6. \A s \in tasks' : s \in tasks \/ HasRead(s, lasting')
  BY <1>2, <1>4 DEF Becomes
<1> QED
  BY <1>2, <1>5, <1>6, NotLogin, SameRows, TargetStays

LEMMA ArriveDashboardTarget ==
    ASSUME IInv, TargetInv, NEW t \in tasks, ArriveDashboard(t) PROVE TargetInv'
<1>1. HasRead(t, lasting) /\ t.stage = "answered" /\ t.what = "dashboard" /\ ListsOK
  BY DEF IInv, TargetInv, ArriveDashboard
<1>2. UNCHANGED <<gateway, views, forms>> /\ tasks' = tasks \ {t} /\ Intercept(t)
      /\ lists' = IF t.res = "ok" THEN [lists EXCEPT !["endpoints"] = t.list] ELSE lists
  BY DEF ArriveDashboard
<1>3. \A r \in Forms : views'[r].status = "rows" => lasting'[r] \subseteq lists'[r].ids
  BY <1>1, <1>2 DEF TargetInv, HasRead, ListsOK, Forms, gateway
<1> QED
  BY <1>2, <1>3, NotLogin, SameRows, TargetStays

LEMMA ArriveSettingsTarget ==
    ASSUME IInv, TargetInv, NEW t \in tasks, ArriveSettings(t) PROVE TargetInv'
  BY NotLogin, SameRows, TargetStays DEF ArriveSettings, TargetInv, gateway

LEMMA ArriveLoadTarget == ASSUME IInv, TargetInv, NEW t \in tasks, ArriveLoad(t) PROVE TargetInv'
<1> DEFINE row == NewView(t)
<1>1. /\ HasRead(t, lasting) /\ t.op = "load" /\ t.stage = "answered" /\ t.what \in Views
      /\ ListsOK /\ DOMAIN views = Views
  BY DEF IInv, TargetInv, ArriveLoad, ViewsOK
<1>2. /\ UNCHANGED <<gateway, forms>> /\ tasks' = tasks \ {t} /\ Intercept(t)
      /\ lists' = IF t.res = "ok" /\ t.what \in Forms THEN [lists EXCEPT ![t.what] = t.list] ELSE lists
      /\ views' = [views EXCEPT ![t.what] = row]
  BY DEF ArriveLoad
<1>3. row.status = "rows" => t.res = "ok"
  BY DEF NewView, BlankView
<1> HIDE DEF row
<1>4. Forms \subseteq Views
  BY DEF Forms, Views, Tables
<1>5. ASSUME NEW r \in Forms, views'[r].status = "rows" PROVE lasting'[r] \subseteq lists'[r].ids
  <2>1. CASE r = t.what
    BY <1>1, <1>2, <1>3, <1>4, <1>5, <2>1 DEF HasRead, ListsOK, gateway
  <2>2. CASE r # t.what
    BY <1>1, <1>2, <1>4, <1>5, <2>2 DEF TargetInv, ListsOK, gateway
  <2> QED
    BY <2>1, <2>2
<1> QED
  BY <1>2, <1>5, NotLogin, SameRows, TargetStays

LEMMA ArriveWriteTarget == ASSUME IInv, TargetInv, NEW t \in tasks, ArriveWrite(t) PROVE TargetInv'
<1>1. UNCHANGED <<gateway, lists>> /\ page' # "login"
  BY NotLogin DEF ArriveWrite
<1>2. CASE t.res = "ok"
  <2> DEFINE W == Refresh(t.op, t.what)
             T == tasks \ {t}
  <2>1. tasks' = T \cup StartLoads(W) /\ views' = Placeholders(W \cap scope.parts) /\ T \subseteq tasks
    BY <1>2 DEF ArriveWrite
  <2>2. \A r \in Forms : forms'[r].id = forms[r].id /\ forms'[r].opened = forms[r].opened
    BY <1>2 DEF ArriveWrite, IInv, FormsOK, FormOK, FormFields
  <2> HIDE DEF W, T
  <2> QED
    BY <1>1, <2>1, <2>2, StartTarget
<1>3. CASE t.res # "ok"
  BY <1>1, <1>3, SameRows, TargetStays DEF ArriveWrite, TargetInv, gateway
<1> QED
  BY <1>2, <1>3

LEMMA StepTarget == IInv /\ TargetInv /\ [Next]_vars => TargetInv'
<1> SUFFICES ASSUME IInv, TargetInv, [Next]_vars PROVE TargetInv'
  OBVIOUS
<1>1. CASE UNCHANGED vars \/ Reconfigure
  BY <1>1 DEF vars, gateway, Reconfigure, TargetInv, Aimed
<1>2. ASSUME NEW t \in tasks, TaskStep(t) PROVE TargetInv'
  BY <1>2, AnswerLoadTarget, AnswerWriteTarget, AnswerFailsTarget, ArrivePreloadTarget,
     ArriveConnectionsTarget, ArriveDashboardTarget, ArriveSettingsTarget, ArriveLoadTarget,
     ArriveWriteTarget DEF TaskStep
<1>3. ASSUME NEW r \in Forms, Submit(r) PROVE TargetInv'
  BY <1>3, SendTarget DEF Submit, TargetInv, Aimed, Forms, Tables
<1>4. ASSUME NEW r \in {"vault", "tokens"}, NEW id, SubmitNamed(r, id) PROVE TargetInv'
  BY <1>4, SendTarget DEF SubmitNamed, Forms, Tables
<1>5. ASSUME NEW r \in Tables, NEW id, Delete(r, id) PROVE TargetInv'
  BY <1>5, SendTarget DEF Delete
<1> QED
  BY <1>1, <1>2, <1>3, <1>4, <1>5, BootTarget, NavigateTarget, UnloadTarget, OpenModalTarget,
     CloseModalTarget, OtherEditTarget DEF Next

\* The form of a row that has been there since the page was opened saves that row, and
\* the form of a new row creates one, in whichever order the answers of the dashboard
\* and of the lists replace STATE (openConnectionModal, openEndpointModal).
THEOREM SavesReachTheirRow == Spec => []SaveTargets
<1>1. TargetInv => SaveTargets
  BY DEF TargetInv, HasRead, Aimed, SaveTargets
<1> QED
  BY <1>1, InitTarget, StepTarget, Invariant, PTL DEF Spec
=============================================================================
