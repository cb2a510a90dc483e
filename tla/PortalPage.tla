----------------------------- MODULE PortalPage -----------------------------
(***************************************************************************)
(* The portal's page (pkg/portal/static/app.js): one document, the requests  *)
(* it has under way, and the tables of the gateway behind /api, which other  *)
(* administrators edit too.                                                 *)
(*                                                                         *)
(* Every load and every write of the page is an asynchronous function; a    *)
(* task is one such call between two of its awaits.  A task's request is     *)
(* answered by the gateway in one step and the answer reaches the page in a  *)
(* later one, so answers overtake one another as they do in a browser.       *)
(*                                                                         *)
(* Rows are their ids.  A table's version counts its changes: a list shown   *)
(* by the page remembers the version it was read at.  version, acked,        *)
(* overlapped, lasting and the fields n, opened and blind are history.       *)
(***************************************************************************)
EXTENDS Integers, FiniteSets, FiniteSetsExt, PortalBadges

CONSTANTS
    Ids,                \* ids of rows
    NoId,               \* "" in a hidden id field, or no row
    Scopes              \* what the behaviours cover, a subset of Scope

Tables == {"connections", "endpoints", "vault", "tokens"}
Views == Tables \cup {"logs", "docs"}
Parts == Views \cup {"dashboard", "settings"}
Forms == {"connections", "endpoints"}           \* the modals with a hidden id

\* The parts of the page a behaviour follows, the ids it uses, and its bounds: what
\* the administrator does, how many calls are under way when they act, changes by
\* other administrators, requests that fail.
Scope == [parts : SUBSET Parts, ids : SUBSET Ids, ops : Nat, busy : Nat, edits : Nat, faults : Nat]

ASSUME PageAssumption ==
    /\ NoId \notin Ids
    /\ Scopes \subseteq Scope

VARIABLES
    scope,
    tables, version,    \* the gateway's rows
    config,             \* the gateway's TLS settings
    page,               \* "login", "app" or "unloading"
    route,              \* location.hash
    lists,              \* STATE.connections, STATE.endpoints
    views,              \* what each view shows
    badges,             \* the settings page: the settings its badges were made of
    forms,              \* the two modals
    tasks,              \* calls of the page's asynchronous functions under way
    acked,              \* newest version of a table the page knows it wrote
    overlapped,         \* views with two loads under way at once
    lasting,            \* rows of connections and endpoints there since Boot
    ops, edits, faults

gateway == <<tables, version, config, lasting>>
history == <<acked, overlapped>>
vars == <<scope, gateway, page, route, lists, views, badges, forms, tasks, history, ops, edits, faults>>

-----------------------------------------------------------------------------
(* Data.                                                                    *)

PlainConfig == [cert |-> FALSE, key |-> FALSE, ca |-> FALSE, proxy |-> FALSE, mtls |-> "off"]

\* A JSON answer to a GET of a list, and STATE's initial [].
Snapshot(r) == IF r \in Tables THEN [at |-> version[r], ids |-> tables[r]]
                               ELSE [at |-> 0, ids |-> {}]
NoSnapshot == [at |-> 0, ids |-> {}]

\* The settings and the answer made under them.
NoSettings == [of |-> PlainConfig, data |-> Settings(PlainConfig), known |-> FALSE]

BlankView == [status |-> "blank", list |-> NoSnapshot, via |-> 0, blind |-> FALSE]
ClosedForm == [open |-> FALSE, id |-> NoId, opened |-> NoId, options |-> FALSE]

\* A call of one of the load functions ...
Load(w, n, stage) ==
    [op |-> "load", what |-> w, n |-> n, stage |-> stage, id |-> NoId, opened |-> NoId,
     res |-> "ok", blind |-> FALSE, other |-> NoSnapshot, list |-> NoSnapshot,
     settings |-> NoSettings]
\* ... and of a form's onsubmit or a delete function.
Write(op, r, id, opened) ==
    [Load(r, 0, "asked") EXCEPT !.op = op, !.id = id, !.opened = opened]

\* Equal calls are told apart by the smallest number that is free.
Numbered(t) ==
    LET same == {u \in tasks : u.op = t.op /\ u.what = t.what}
    IN  [t EXCEPT !.n = Min((1 .. Cardinality(same) + 1) \ {u.n : u \in same})]

\* Mutation: loadEndpoints does not look at STATE.connections.
FirstStageNoPreload(w) == "asked"

\* loadEndpoints first reads the connections if STATE has none.
FirstStage(w) ==
    IF w = "endpoints" /\ lists["connections"].ids = {} THEN "preload" ELSE "asked"

Loading(w) == \E t \in tasks : t.op = "load" /\ t.what = w

\* The load functions of the parts in W are called: each shows its placeholder
\* (loadDashboardStats has none) and sends its first request.
Placeholders(W) ==
    [v \in Views |-> IF v \in W THEN [views[v] EXCEPT !.status = "loading"] ELSE views[v]]

StartLoads(W) == {Numbered(Load(w, 0, FirstStage(w))) : w \in W \cap scope.parts}

Overlaps(W) ==
    [v \in Views |-> IF v \in W \cap scope.parts THEN Loading(v) ELSE overlapped[v]]

Op == ops < scope.ops /\ Cardinality(tasks) <= scope.busy /\ ops' = ops + 1

-----------------------------------------------------------------------------
(* initAuth, bootstrapApp, the router.                                      *)

Init ==
    /\ scope \in Scopes
    /\ tables \in [Tables -> SUBSET scope.ids]
    /\ \A r \in Tables \ scope.parts : tables[r] = {}
    /\ version = [r \in Tables |-> 1]
    /\ config \in (IF "settings" \in scope.parts THEN Config ELSE {PlainConfig})
    /\ badges = NoSettings
    /\ page = "login" /\ route = "dashboard"
    /\ lists = [r \in Forms |-> NoSnapshot]
    /\ views = [v \in Views |-> BlankView]
    /\ forms = [r \in Forms |-> ClosedForm]
    /\ tasks = {}
    /\ acked = [r \in Tables |-> 0]
    /\ overlapped = [v \in Views |-> FALSE]
    /\ lasting = [r \in Forms |-> {}]
    /\ ops = 0 /\ edits = 0 /\ faults = 0

\* handleRoute's fetches.
RouteLoads(r) == IF r = "settings" THEN {"settings", "vault", "docs"} ELSE {r}

\* The routes of the parts scope.parts.
Routes == {"dashboard"} \cup {r \in {"connections", "endpoints", "tokens", "logs", "settings"} :
                              RouteLoads(r) \cap scope.parts # {}}

\* The hash routes the page may be opened at or a link leads to.
Hashes == Routes \cup (IF "settings" \in Routes THEN {"vault", "openapi"} ELSE {})

\* "Redirect legacy vault and openapi hash routes to settings page": the new
\* hash fires hashchange again, and the views are shown and loaded then.
Redirect(hash) == IF hash \in {"vault", "openapi"} THEN "settings" ELSE hash

\* initAuth finds a token (stored, or the login form's): bootstrapApp calls
\* handleRoute and then every load function, so that the loads of the route
\* are started twice.
Boot(hash) ==
    LET all == Parts \cap scope.parts
        twice == RouteLoads(Redirect(hash)) \cap scope.parts
    IN  /\ page = "login"
        /\ Op
        /\ page' = "app"
        /\ route' = Redirect(hash)
        /\ tasks' = {Load(w, 1, FirstStage(w)) : w \in all}
                    \cup {Load(w, 2, FirstStage(w)) : w \in twice}
        /\ views' = Placeholders(all)
        /\ overlapped' = [v \in Views |-> v \in twice]
        /\ lasting' = [r \in Forms |-> tables[r]]
        /\ UNCHANGED <<scope, tables, version, config, lists, badges, forms, acked, edits, faults>>

\* A click on a link of the menu: handleRoute.
Navigate(hash) ==
    /\ page = "app"
    /\ Redirect(hash) # route
    /\ Op
    /\ route' = Redirect(hash)
    /\ tasks' = tasks \cup StartLoads(RouteLoads(route'))
    /\ views' = Placeholders(RouteLoads(route') \cap scope.parts)
    /\ overlapped' = Overlaps(RouteLoads(route'))
    /\ UNCHANGED <<scope, gateway, page, lists, badges, forms, acked, edits, faults>>

\* The document is replaced: the user reloads it or logs out, or the fetch
\* interceptor met a 401.  What its requests still do at the gateway is then
\* like the doing of another administrator.
Unload ==
    /\ page = "unloading" \/ (page = "app" /\ ops < scope.ops /\ Cardinality(tasks) <= scope.busy)
    /\ page' = "login" /\ route' = "dashboard"
    /\ lists' = [r \in Forms |-> NoSnapshot]
    /\ views' = [v \in Views |-> BlankView]
    /\ badges' = NoSettings
    /\ forms' = [r \in Forms |-> ClosedForm]
    /\ tasks' = {}
    /\ acked' = [r \in Tables |-> 0]
    /\ overlapped' = [v \in Views |-> FALSE]
    /\ UNCHANGED <<scope, gateway, ops, edits, faults>>

-----------------------------------------------------------------------------
(* Forms and buttons.                                                       *)

Shown(r) == IF r = "vault" THEN route = "settings" ELSE route = r

\* Rows with buttons.
Rows(r) == IF views[r].status = "rows" /\ Shown(r) THEN views[r].list.ids ELSE {}

\* connection-id, endpoint-id.  form.reset() leaves hidden fields alone: for a row that
\* STATE does not have, the hidden id stays what it was.
HiddenId(r, id) == IF id \in lists[r].ids \cup {NoId} THEN id ELSE forms[r].id

\* openConnectionModal, openEndpointModal, from an Edit button or, with NoId,
\* from New.
OpenModal(r, id) ==
    /\ page = "app"
    /\ r \in scope.parts /\ Shown(r) /\ \A f \in Forms : ~ forms[f].open
    /\ Op
    /\ forms' = [forms EXCEPT ![r] =
            [open |-> TRUE, opened |-> id, id |-> HiddenId(r, id),
             options |-> lists["connections"].ids # {}]]
    /\ UNCHANGED <<scope, gateway, page, route, lists, badges, views, tasks, history, edits, faults>>

CloseModal(r) ==
    /\ page = "app" /\ forms[r].open
    /\ forms' = [forms EXCEPT ![r].open = FALSE]
    /\ UNCHANGED <<scope, gateway, page, route, lists, badges, views, tasks, history, ops, edits, faults>>

Send(t) ==
    /\ Op
    /\ tasks' = tasks \cup {Numbered(t)}
    /\ UNCHANGED <<scope, gateway, page, route, lists, badges, views, forms, history, edits, faults>>

\* connection-form, endpoint-form: the modal stays open, and may be submitted
\* again, until the answer is there.  ep-conn-id is required and offers
\* STATE.connections as it was when the form was opened.
Submit(r) ==
    /\ page = "app"
    /\ forms[r].open /\ (r = "endpoints" => forms[r].options)
    /\ Send(Write("save", r, forms[r].id, forms[r].opened))

\* vault-form, and token-form with its modal: the administrator names the row.
SubmitNamed(r, id) ==
    /\ page = "app"
    /\ r \in scope.parts /\ Shown(r)
    /\ Send(Write("save", r, id, id))

\* What a delete function puts into its URL.  A token's row holds no token
\* (GetClientTokens blanks it), so that deleteClientToken sends "".
DeleteKey(r, id) == IF r = "tokens" THEN NoId ELSE id

\* The delete functions, confirmed.
Delete(r, id) ==
    /\ page = "app"
    /\ id \in Rows(r)
    /\ Send(Write("delete", r, DeleteKey(r, id), id))

-----------------------------------------------------------------------------
(* The gateway's handlers.                                                  *)

Becomes(t, u) == tasks' = (tasks \ {t}) \cup {u}

\* The rows that were not deleted since Boot (history).
Last == lasting' = [r \in Forms |-> lasting[r] \cap tables'[r]]

\* SaveConnection, SaveEndpoint, SetSecret, SaveClientToken: an upsert.
SaveRow(r, id) ==
    /\ tables' = [tables EXCEPT ![r] = @ \cup {id}]
    /\ version' = [version EXCEPT ![r] = @ + 1]
    /\ Last

\* DeleteConnection takes the connection's endpoints with it.
DeleteRow(r, id, taken) ==
    /\ IF r = "connections" THEN taken \subseteq tables["endpoints"] ELSE taken = {}
    /\ tables' = [q \in Tables |-> (tables[q] \ (IF q = r THEN {id} ELSE {}))
                                   \ (IF q = "endpoints" THEN taken ELSE {})]
    /\ version' = [q \in Tables |-> IF q = r \/ (q = "endpoints" /\ r = "connections")
                                    THEN version[q] + 1 ELSE version[q]]
    /\ Last

\* A GET is answered.  loadDashboardStats asks for connections and endpoints one
\* after the other (logs and operational-stats follow), and uses them at the end.
AnswerLoad(t) ==
    /\ t.op = "load"
    /\ \/ /\ t.stage = "preload"
          /\ Becomes(t, [t EXCEPT !.stage = "preloaded", !.other = Snapshot("connections")])
       \/ /\ t.stage = "asked" /\ t.what = "dashboard"
          /\ Becomes(t, [t EXCEPT !.stage = "asked2", !.other = Snapshot("connections")])
       \/ /\ t.stage = "asked2"
          /\ Becomes(t, [t EXCEPT !.stage = "both", !.list = Snapshot("endpoints")])
       \/ /\ t.stage = "asked" /\ t.what = "settings"
          /\ Becomes(t, [t EXCEPT !.stage = "answered",
                         !.settings = [of |-> config, data |-> Settings(config), known |-> TRUE]])
       \/ /\ t.stage = "asked" /\ t.what \in Views
          /\ Becomes(t, [t EXCEPT !.stage = "answered", !.list = Snapshot(t.what)])
    /\ UNCHANGED <<scope, gateway, page, route, lists, badges, views, forms, history, ops, edits, faults>>

\* A write is made; its answer may get lost ("failed").  A POST without id
\* creates a row under a fresh one.
AnswerWrite(t, res) ==
    /\ t.stage = "asked" /\ t.op # "load"
    /\ \/ t.op = "save" /\ \E id \in scope.ids : /\ id = t.id \/ (t.id = NoId /\ id \notin tables[t.what])
                                               /\ SaveRow(t.what, id)
       \/ t.op = "delete" /\ t.id # NoId /\ \E S \in SUBSET Ids : DeleteRow(t.what, t.id, S)
    /\ Becomes(t, [t EXCEPT !.stage = "answered", !.res = res, !.list.at = version'[t.what],
                            !.other.at = IF t.what = "connections" THEN version'["endpoints"] ELSE 0])
    /\ faults < scope.faults \/ res = "ok"
    /\ faults' = IF res = "ok" THEN faults ELSE faults + 1
    /\ UNCHANGED <<scope, config, page, route, lists, badges, views, forms, history, ops, edits>>

\* DELETE without an id (400); and the bound on ids.
Refused(t) ==
    /\ t.id = NoId
    /\ t.op = "delete" \/ (t.op = "save" /\ scope.ids \subseteq tables[t.what])

\* The request fails and changes nothing: refused (400, 401, 500) or not sent.
AnswerFails(t, res) ==
    /\ t.stage \in {"preload", "asked", "asked2"}
    /\ Becomes(t, [t EXCEPT !.stage = IF @ = "preload" THEN "preloaded" ELSE "answered",
                            !.res = res])
    /\ IF Refused(t) THEN UNCHANGED faults ELSE faults < scope.faults /\ faults' = faults + 1
    /\ UNCHANGED <<scope, gateway, page, route, lists, badges, views, forms, history, ops, edits>>

\* Another administrator, or a request whose page is gone.
OtherEdit ==
    /\ edits < scope.edits
    /\ edits' = edits + 1
    /\ \E r \in Tables \cap scope.parts, id \in scope.ids :
          \/ SaveRow(r, id)
          \/ id \in tables[r] /\ \E S \in SUBSET Ids : DeleteRow(r, id, S)
    /\ UNCHANGED <<scope, config, page, route, lists, badges, views, forms, tasks, history, ops, faults>>

\* The gateway is restarted with other settings.
Reconfigure ==
    /\ "settings" \in scope.parts
    /\ edits < scope.edits
    /\ edits' = edits + 1
    /\ config' \in Config
    /\ UNCHANGED <<scope, tables, version, lasting, page, route, lists, badges, views, forms, tasks, history,
                   ops, faults>>

-----------------------------------------------------------------------------
(* Answers reach the page.                                                  *)

\* The fetch interceptor: any 401 but the login form's ends the document.
Intercept(t) == page' = IF t.res = "401" THEN "unloading" ELSE page

\* loadEndpoints, the answer to its first request, if it made one.
ArrivePreload(t) ==
    /\ t.stage = "preloaded"
    /\ Intercept(t)
    /\ lists' = IF t.res = "ok" THEN [lists EXCEPT !["connections"] = t.other] ELSE lists
    /\ Becomes(t, [t EXCEPT !.stage = "asked", !.res = "ok", !.blind = t.res # "ok",
                            !.other = NoSnapshot])
    /\ UNCHANGED <<scope, gateway, route, badges, views, forms, history, ops, edits, faults>>

\* loadDashboardStats, when every answer was good: STATE.connections is replaced, and
\* no view.  The body of the next answer may not arrive, or not be JSON.
ArriveConnections(t, res) ==
    /\ t.stage = "both"
    /\ lists' = [lists EXCEPT !["connections"] = t.other]
    /\ Becomes(t, [t EXCEPT !.stage = "answered", !.res = res])
    /\ faults < scope.faults \/ res = "ok"
    /\ faults' = IF res = "ok" THEN faults ELSE faults + 1
    /\ UNCHANGED <<scope, gateway, page, route, badges, views, forms, history, ops, edits>>

\* Mutation: STATE is emptied when an answer is bad.
ArriveDashboardClears(t) ==
    /\ t.stage = "answered" /\ t.what = "dashboard"
    /\ Intercept(t)
    /\ lists' = IF t.res = "ok" THEN [lists EXCEPT !["endpoints"] = t.list]
                               ELSE [r \in Forms |-> NoSnapshot]
    /\ tasks' = tasks \ {t}
    /\ UNCHANGED <<scope, gateway, route, badges, views, forms, history, ops, edits, faults>>

\* ... then STATE.endpoints; after a bad answer STATE stays as it is.
ArriveDashboard(t) ==
    /\ t.stage = "answered" /\ t.what = "dashboard"
    /\ Intercept(t)
    /\ lists' = IF t.res = "ok" THEN [lists EXCEPT !["endpoints"] = t.list] ELSE lists
    /\ tasks' = tasks \ {t}
    /\ UNCHANGED <<scope, gateway, route, badges, views, forms, history, ops, edits, faults>>

\* loadSettingsConfig: the badges stay as they are if the answer is not good.
ArriveSettings(t) ==
    /\ t.stage = "answered" /\ t.what = "settings"
    /\ Intercept(t)
    /\ badges' = IF t.res = "ok" THEN t.settings ELSE badges
    /\ tasks' = tasks \ {t}
    /\ UNCHANGED <<scope, gateway, route, lists, views, forms, history, ops, edits, faults>>

\* Mutation: a load that fails leaves its view alone.
NewViewNoCatch(t) ==
    IF t.res # "ok" THEN views[t.what]
    ELSE [status |-> "rows", list |-> t.list, blind |-> t.blind,
          via |-> IF t.what = "endpoints" THEN lists["connections"].at ELSE 0]

\* What an answer makes of its view.  The rows of loadEndpoints get their names from
\* STATE.connections as it is now (via).
NewView(t) ==
    IF t.res # "ok" THEN [BlankView EXCEPT !.status = "error"]
    ELSE [status |-> "rows", list |-> t.list, blind |-> t.blind,
          via |-> IF t.what = "endpoints" THEN lists["connections"].at ELSE 0]

\* The other load functions.
ArriveLoad(t) ==
    /\ t.op = "load" /\ t.stage = "answered" /\ t.what \in Views
    /\ Intercept(t)
    /\ lists' = IF t.res = "ok" /\ t.what \in Forms THEN [lists EXCEPT ![t.what] = t.list] ELSE lists
    /\ views' = [views EXCEPT ![t.what] = NewView(t)]
    /\ tasks' = tasks \ {t}
    /\ UNCHANGED <<scope, gateway, route, badges, forms, history, ops, edits, faults>>

\* Mutation: deleteConnection forgets the endpoints it took along.
RefreshForgets(op, r) ==
    IF r = "connections" THEN IF op = "save" THEN {"connections", "endpoints", "docs"}
                                             ELSE {"connections"}
                         ELSE {r}

\* The loads a successful write starts.
Refresh(op, r) ==
    IF r = "connections" THEN {"connections", "endpoints"} \cup (IF op = "save" THEN {"docs"} ELSE {})
                         ELSE {r}

\* The onsubmit handlers and delete functions: on success the modal is closed
\* and the lists are loaded again; otherwise there is a toast.
ArriveWrite(t) ==
    /\ t.op # "load" /\ t.stage = "answered"
    /\ Intercept(t)
    /\ IF t.res = "ok"
       THEN LET W == Refresh(t.op, t.what) IN
            /\ tasks' = (tasks \ {t}) \cup StartLoads(W)
            /\ views' = Placeholders(W \cap scope.parts)
            /\ overlapped' = Overlaps(W)
            /\ acked' = [r \in Tables |-> IF r = t.what THEN t.list.at
                                          ELSE IF r = "endpoints" /\ t.op = "delete" /\ t.what = "connections"
                                          THEN t.other.at ELSE acked[r]]
            /\ forms' = [r \in Forms |-> [forms[r] EXCEPT !.open = @ /\ (t.op = "delete" \/ t.what # r)]]
       ELSE tasks' = tasks \ {t} /\ UNCHANGED <<views, forms, history>>
    /\ UNCHANGED <<scope, gateway, route, lists, badges, ops, edits, faults>>

TaskStep(t) ==
    \/ AnswerLoad(t)
    \/ \E res \in {"ok", "failed"} : AnswerWrite(t, res)
    \/ \E res \in {"failed", "401"} : AnswerFails(t, res)
    \/ ArrivePreload(t)
    \/ \E res \in {"ok", "failed"} : ArriveConnections(t, res)
    \/ ArriveDashboard(t)
    \/ ArriveSettings(t)
    \/ ArriveLoad(t)
    \/ ArriveWrite(t)

Next ==
    \/ \E hash \in Hashes : Boot(hash)
    \/ \E hash \in Hashes : Navigate(hash)
    \/ Unload
    \/ \E r \in Forms : \E id \in Rows(r) \cup {NoId} : OpenModal(r, id)
    \/ \E r \in Forms : CloseModal(r) \/ Submit(r)
    \/ \E r \in {"vault", "tokens"}, id \in scope.ids : SubmitNamed(r, id)
    \/ \E r \in Tables, id \in Ids : Delete(r, id)
    \/ \E t \in tasks : TaskStep(t)
    \/ OtherEdit
    \/ Reconfigure

Spec == Init /\ [][Next]_vars

\* Every fetch ends, with an answer or an error, and its continuation runs.  A
\* document that is to be replaced is.
Fairness ==
    /\ WF_vars(\E t \in tasks : TaskStep(t))
    /\ WF_vars(page = "unloading" /\ Unload)

FairSpec == Spec /\ Fairness

-----------------------------------------------------------------------------
\* The types of the page's and the gateway's state.
SnapshotType == [at : Nat, ids : SUBSET Ids]
SettingsType == [of : Config, data : {Settings(c) : c \in Config}, known : BOOLEAN]
Task == [op : {"load", "save", "delete"}, what : Parts, n : Nat,
         stage : {"preload", "preloaded", "asked", "asked2", "both", "answered"},
         id : Ids \cup {NoId}, opened : Ids \cup {NoId},
         res : {"ok", "failed", "401"}, blind : BOOLEAN,
         other : SnapshotType, list : SnapshotType, settings : SettingsType]
TypeOK ==
    /\ scope \in Scopes
    /\ tables \in [Tables -> SUBSET Ids] /\ version \in [Tables -> Nat]
    /\ config \in Config /\ badges \in SettingsType
    /\ page \in {"login", "app", "unloading"}
    /\ route \in {"dashboard", "connections", "endpoints", "tokens", "logs", "settings"}
    /\ lists \in [Forms -> SnapshotType]
    /\ views \in [Views -> [status : {"blank", "loading", "error", "rows"}, list : SnapshotType,
                            via : Nat, blind : BOOLEAN]]
    /\ forms \in [Forms -> [open : BOOLEAN, id : Ids \cup {NoId}, opened : Ids \cup {NoId},
                            options : BOOLEAN]]
    /\ tasks \subseteq Task
    /\ acked \in [Tables -> Nat] /\ overlapped \in [Views -> BOOLEAN]
    /\ lasting \in [Forms -> SUBSET Ids]
    /\ ops \in Nat /\ edits \in Nat /\ faults \in Nat

\* No view is stuck at its placeholder: as long as "Loading ..." is shown, a call
\* of the view's load function is under way that will replace it, whatever fails,
\* is refused or is overtaken (the catch blocks of the load functions).
LoadingHasALoad == \A v \in Views : views[v].status = "loading" => Loading(v)

\* Every placeholder goes away.
LoadsSettle == \A v \in Views : views[v].status = "loading" ~> views[v].status # "loading"

\* When the page has nothing under way, a view with rows shows what the page
\* itself has saved and deleted (Refresh), the endpoints a deleted connection took
\* along included, unless two loads of the view overlapped.
OwnWritesShown ==
    page = "app" /\ tasks = {} =>
        \A r \in Tables \cap scope.parts :
            views[r].status = "rows" /\ ~ overlapped[r] => views[r].list.at >= acked[r]

\* The same without the exception.
OwnWritesAlwaysShown ==
    page = "app" /\ tasks = {} =>
        \A r \in Tables \cap scope.parts : views[r].status = "rows" => views[r].list.at >= acked[r]

\* The form of a row that has been there since the page was opened saves that row,
\* and the form of a new row creates one, whatever answers replaced STATE, the list
\* the form is filled from, behind the view with the buttons (openConnectionModal,
\* openEndpointModal, loadDashboardStats).
SaveTargets ==
    \A t \in tasks :
        t.op = "save" /\ (t.what \in Forms => t.opened \in lasting[t.what] \cup {NoId})
            => t.id = t.opened

\* The same of any row: a row that was deleted, or came after STATE was read, may be
\* on view and not in STATE.
SaveAlwaysTargets == \A t \in tasks : t.op = "save" => t.id = t.opened

\* "Ensure connections are loaded first so tool names have correct prefixes": the
\* rows of the endpoints view are resolved against connections the page has read,
\* unless that read failed.
NamesResolved ==
    views["endpoints"].status = "rows" =>
        views["endpoints"].via > 0 \/ views["endpoints"].blind

\* ... and with the prefixes the page itself has saved.
NamesHaveTheirPrefix ==
    page = "app" /\ tasks = {} /\ views["endpoints"].status = "rows" =>
        views["endpoints"].via >= acked["connections"]

\* "report both so an ingress-terminated deployment isn't misreported as
\* unencrypted": the badges on the page tell what the gateway did with its settings
\* when it answered, if those are consistent.
BadgesTellTheTruth ==
    badges.known /\ Consistent(badges.of) => Truthful(badges.of, badges.data)

\* A row that is deleted is gone.
DeleteReachesItsRow == \A t \in tasks : t.op = "delete" => t.id = t.opened
=============================================================================
