------------------------------ MODULE TaskLists ------------------------------
(* The extension's two lists of tasks with the student's progress: the tree of
   the side bar (treeProvider.ts) and the dashboard (dashboardView.ts with
   dashboardLoader.ts and dashboard.svelte), their loads from the server or from
   the files of .ego, and the accounts, checks, publications and switches of the
   mode they race with.

   One task stands for all; its version is a patch number, and the server sends
   the student's rows ordered by the version's text.  A load is the chain of
   requests of one getChildren or one refresh; each request is answered in a step
   of its own, what the extension does between two answers is one step.      *)
EXTENDS Naturals, FiniteSets

CONSTANTS Account,     \* accounts the student signs in with
          None,        \* no row, nothing shown
          FirstVersion, LastVersion, \* bound: the task's published versions
          MaxApi,      \* bound: API objects (server addresses) in a session
          MaxLoads,    \* bound: loads, besides those of a new page
          MaxOpens,    \* bound: times the dashboard is opened
          MaxChecks    \* bound: checks, publications and switches of the mode

Version == FirstVersion .. LastVersion
Status == {"passed", "partial", "failed", "timeout", "no_tests", "stale"}
Local == [version : Version, status : Status \cup {"new"}]
\* A row of the dashboard (TaskRow).
DashRows == [version : Version, status : Status \cup {"new"}, stale : BOOLEAN]

ListsAssumption == /\ FirstVersion \in Nat /\ LastVersion \in FirstVersion .. 99
                   /\ MaxApi \in Nat \ {0} /\ MaxLoads \in Nat /\ MaxOpens \in Nat /\ MaxChecks \in Nat
                   /\ None \notin DashRows \cup Local \cup Account
ASSUME ListsConstants == ListsAssumption

VARIABLES mode,      \* config.yaml's mode
          local,     \* .ego's manifest entry and progress entry, or None
          current,   \* the task's version on the server
          rows,      \* Account -> Version -> the stored status, or None
          api, token,\* the API object in use, the account of each object's token, or None
          loads,     \* loads under way
          started,   \* loads started, numbered
          checks, opens,
          progressMap, offlineTasks, \* treeProvider's fields, for the task
          tree,      \* what the tree shows of the task
          panel, ready, lastData,    \* DashboardView's fields
          dash       \* what the dashboard's page shows
server == <<current, rows>>
treeVars == <<progressMap, offlineTasks, tree>>
dashVars == <<panel, ready, lastData, dash, opens>>
vars == <<mode, local, server, api, token, loads, started, checks, treeVars, dashVars>>

-----------------------------------------------------------------------------
(* Rows *)

\* The order of versions as text, by which the server sorts a student's rows.
FirstDigit(v) == IF v < 10 THEN v ELSE v \div 10
TextBefore(v, w) == FirstDigit(v) < FirstDigit(w) \/ (FirstDigit(v) = FirstDigit(w) /\ v < w)

\* new Map over the rows: of the rows of one task the last stays.
Known(a) == {v \in Version : rows[a][v] # None}
LastByText(a) == CHOOSE v \in Known(a) : \A w \in Known(a) \ {v} : TextBefore(w, v)
MapRow(a) == IF Known(a) = {} THEN None
             ELSE [of |-> a, version |-> LastByText(a), status |-> rows[a][LastByText(a)]]

\* loadServer's and loadOffline's row of the task.
DashRow(version, row) ==
    [version |-> version, status |-> IF row = None THEN "new" ELSE row.status,
     stale |-> row # None /\ row.version # version]
LocalRow == [version |-> local.version, status |-> local.status, stale |-> FALSE]

\* DashboardData, of the server's mode; refused and had are history: the server
\* refused the token, the progress it had of the current version.
Data(from, row, error, n, refused, had) ==
    [mode |-> "server", from |-> from, row |-> row, error |-> error, n |-> n,
     refused |-> refused, had |-> had]

\* loadOffline: the local rows, or a message that there are none.
LoadOffline(n) ==
    LET d == IF local = None THEN Data("none", None, "no manifest", n, FALSE, None)
             ELSE Data("local", LocalRow, "", n, FALSE, None)
    IN [d EXCEPT !.mode = "offline"]

\* loadServer's catch: the local rows with the error, or the error alone.
FallBack(n, error, refused) ==
    IF local # None THEN Data("local", LocalRow, error, n, refused, None)
    ELSE Data("none", None, error, n, refused, None)

-----------------------------------------------------------------------------
(* Loads *)

Load(kind, post) == [n |-> started + 1, kind |-> kind, mode |-> mode, api |-> api, post |-> post,
                     step |-> "list", version |-> None, account |-> token[api]]
Start(kind, post) == started + (IF panel /\ ~ready /\ ~post THEN 1 ELSE 0) < MaxLoads + opens /\ started' = started + 1
                     /\ loads' = loads \cup {Load(kind, post)}
Leaves(l) == loads' = loads \ {l}

\* refresh and its event: VS Code asks for the children again.
TreeRefresh == offlineTasks' = FALSE
\* treeProvider.loadTasks offline: the cached tasks, or the files.
TreeOffline(l) ==
    /\ progressMap' = IF offlineTasks THEN progressMap
                      ELSE IF local = None \/ local.status = "new" THEN None
                      ELSE [of |-> None, version |-> local.version, status |-> local.status]
    /\ offlineTasks' = TRUE
    /\ tree' = progressMap'
    /\ Leaves(l)

\* dashboard.refresh ends: kept, and posted to a page that is ready; the
\* handler of the page's ready message posts it again.
\* A page that is not there yet may miss what is posted.
DashEnds(l, data) ==
    /\ lastData' = data
    /\ dash' \in CASE panel /\ ready -> {data}
                  [] panel /\ ~ready /\ l.post -> {dash, data}
                  [] OTHER -> {dash}
    /\ Leaves(l) /\ UNCHANGED <<panel, ready, opens>>

\* A load that began in offline mode reads the files.
ReadLocal(l) ==
    /\ l.step = "list" /\ l.mode = "offline"
    /\ \/ l.kind = "tree" /\ TreeOffline(l) /\ UNCHANGED dashVars
       \/ l.kind = "dash" /\ DashEnds(l, LoadOffline(l.n)) /\ UNCHANGED treeVars
    /\ UNCHANGED <<mode, local, server, api, token, started, checks>>

\* listTasks answers: the progress is asked for, the tree with the API object of
\* now, the dashboard with the one it was called with.
ListAnswers(l) ==
    /\ l.step = "list" /\ l.mode = "server"
    /\ LET asks == IF l.kind = "tree" THEN api ELSE l.api IN
       loads' = (loads \ {l}) \cup {[l EXCEPT !.step = "progress", !.version = current,
                                              !.account = token[asks]]}
    /\ UNCHANGED <<mode, local, server, api, token, started, checks, treeVars, dashVars>>

\* listTasks fails, for the token or otherwise.
ListFails(l, refused) ==
    /\ l.step = "list" /\ l.mode = "server"
    /\ \/ l.kind = "tree" /\ TreeOffline(l) /\ UNCHANGED dashVars
       \/ /\ l.kind = "dash"
          /\ DashEnds(l, FallBack(l.n, IF refused THEN "expired" ELSE "unavailable", refused))
          /\ UNCHANGED treeVars
    /\ UNCHANGED <<mode, local, server, api, token, started, checks>>

\* me and getProgress answer with the rows of the account that asked.
ProgressAnswers(l) ==
    /\ l.step = "progress" /\ l.account # None
    /\ \/ /\ l.kind = "tree" /\ progressMap' = MapRow(l.account) /\ tree' = progressMap'
          /\ Leaves(l) /\ UNCHANGED <<offlineTasks, dashVars>>
       \/ /\ l.kind = "dash"
          /\ DashEnds(l, Data("server", DashRow(l.version, MapRow(l.account)), "", l.n, FALSE,
                              rows[l.account][l.version]))
          /\ UNCHANGED treeVars
    /\ UNCHANGED <<mode, local, server, api, token, started, checks>>

\* me or getProgress fails: for the tree progress is optional, for the dashboard
\* it is unless the token was refused.
\* Variant: a refused token is passed over too.
ProgressDataLax(l, refused) == Data("server", DashRow(l.version, None), "", l.n, refused, None)
ProgressData(l, refused) ==
    IF refused THEN FallBack(l.n, "expired", TRUE)
    ELSE Data("server", DashRow(l.version, None), "", l.n, FALSE, None)
ProgressFails(l, refused) ==
    /\ l.step = "progress"
    /\ \/ l.kind = "tree" /\ tree' = progressMap /\ Leaves(l) /\ UNCHANGED <<progressMap, offlineTasks, dashVars>>
       \/ l.kind = "dash" /\ DashEnds(l, ProgressData(l, refused)) /\ UNCHANGED treeVars
    /\ UNCHANGED <<mode, local, server, api, token, started, checks>>

-----------------------------------------------------------------------------
(* The student, the server and VS Code *)

\* DashboardView.show: a new page, or a refresh of the one that is there.
ShowPanel ==
    /\ ~panel /\ opens < MaxOpens /\ opens' = opens + 1
    /\ panel' = TRUE /\ ready' = FALSE /\ dash' = None
    /\ UNCHANGED <<mode, local, server, api, token, loads, started, checks, treeVars, lastData>>
ClosePanel ==
    /\ panel /\ panel' = FALSE /\ ready' = FALSE /\ dash' = None
    /\ UNCHANGED <<mode, local, server, api, token, loads, started, checks, treeVars, lastData, opens>>
\* The page's ready message; the other loads leave it one of the bound.
PageReady ==
    /\ panel /\ ~ready /\ ready' = TRUE /\ Start("dash", TRUE)
    /\ UNCHANGED <<mode, local, server, api, token, checks, treeVars, panel, lastData, dash, opens>>
\* The page's Refresh, and show on an open panel.
RefreshPanel ==
    /\ panel /\ ready /\ Start("dash", FALSE)
    /\ UNCHANGED <<mode, local, server, api, token, checks, treeVars, dashVars>>

\* The tree is refreshed, and the dashboard when it is open.
Refreshes == TreeRefresh /\ IF panel THEN Start("dash", FALSE) ELSE Start("tree", FALSE)

\* A check of the current version is stored, by the server or in the files.
Checked(status) ==
    /\ checks < MaxChecks /\ checks' = checks + 1 /\ status \in Status \ {"stale"}
    /\ \/ /\ mode = "server" /\ token[api] # None
          /\ rows' = [rows EXCEPT ![token[api]][current] = status] /\ UNCHANGED local
       \/ /\ mode = "offline" /\ local # None
          /\ local' = [local EXCEPT !.status = status] /\ UNCHANGED rows
    /\ Refreshes
    /\ UNCHANGED <<mode, current, api, token, progressMap, tree, dashVars>>

\* applyOfflineMode and applyServerMode, which take the api's token and give it
\* one; the waits for the student and the server before are EditorSession's.
SwitchMode(a) ==
    /\ checks < MaxChecks /\ checks' = checks + 1
    /\ mode' = IF mode = "offline" THEN "server" ELSE "offline"
    /\ token' = [token EXCEPT ![api] = IF mode' = "offline" THEN None ELSE a]
    /\ Refreshes
    /\ UNCHANGED <<local, server, api, progressMap, tree, dashVars>>

\* The tree is shown or refreshed.
RefreshTree ==
    /\ TreeRefresh /\ Start("tree", FALSE)
    /\ UNCHANGED <<mode, local, server, api, token, checks, progressMap, tree, dashVars>>

\* cmdLogin: the API object's token is another account's, the tree is refreshed.
LogIn(a) ==
    /\ a # token[api] /\ token' = [token EXCEPT ![api] = a]
    /\ TreeRefresh /\ Start("tree", FALSE)
    /\ UNCHANGED <<mode, local, server, api, checks, progressMap, tree, dashVars>>
\* The accounts of a new api's token: offline it has none, nor before a sign-in.
Signed == IF mode = "offline" THEN {None} ELSE Account \cup {None}
\* updateApi: another object; what was known is dropped.
UpdateApi(a) ==
    /\ a \in Signed
    /\ api < MaxApi /\ api' = api + 1 /\ token' = [token EXCEPT ![api + 1] = a]
    /\ progressMap' = None /\ offlineTasks' = FALSE /\ Start("tree", FALSE)
    /\ UNCHANGED <<mode, local, server, checks, tree, dashVars>>

\* A sync publishes the task's next version; a breaking one marks all progress.
Publish(breaking) ==
    /\ checks < MaxChecks /\ checks' = checks + 1 /\ current < LastVersion
    /\ current' = current + 1
    /\ rows' = IF ~breaking THEN rows
               ELSE [a \in Account |-> [v \in Version |-> IF rows[a][v] = None THEN None ELSE "stale"]]
    /\ UNCHANGED <<mode, local, api, token, loads, started, treeVars, dashVars>>

Init ==
    /\ mode \in {"server", "offline"} /\ local \in {None} \cup {l \in Local : l.version = FirstVersion}
    /\ current = FirstVersion /\ rows = [a \in Account |-> [v \in Version |-> None]]
    /\ api = 1 /\ token \in {[i \in 1 .. MaxApi |-> a] : a \in Signed}
    /\ loads = {} /\ started = 0 /\ checks = 0
    /\ progressMap = None /\ offlineTasks = FALSE /\ tree = None
    /\ panel = FALSE /\ ready = FALSE /\ opens = 0 /\ lastData = None /\ dash = None

Answer(l) == \/ ReadLocal(l) \/ ListAnswers(l) \/ ProgressAnswers(l)
             \/ \E refused \in BOOLEAN : ListFails(l, refused) \/ ProgressFails(l, refused)
Next ==
    \/ \E l \in loads : ReadLocal(l) \/ ListAnswers(l) \/ ProgressAnswers(l)
    \/ \E l \in loads, refused \in BOOLEAN : ListFails(l, refused) \/ ProgressFails(l, refused)
    \/ ShowPanel \/ ClosePanel \/ PageReady \/ RefreshPanel \/ RefreshTree
    \/ \E status \in Status : Checked(status)
    \/ \E a \in Account : LogIn(a) \/ SwitchMode(a)
    \/ \E a \in Account \cup {None} : UpdateApi(a)
    \/ \E breaking \in BOOLEAN : Publish(breaking)
Spec == Init /\ [][Next]_vars

-----------------------------------------------------------------------------
(* Properties *)

DataOK(d) == d = None \/ /\ d.mode \in {"server", "offline"}
                         /\ d.from \in {"server", "local", "none"} /\ d.n \in 1 .. MaxLoads + MaxOpens
                         /\ (d.row = None) <=> (d.from = "none")
TypeOK ==
    /\ current \in Version /\ rows \in [Account -> [Version -> Status \cup {None}]]
    /\ api \in 1 .. MaxApi /\ token \in [1 .. MaxApi -> Account \cup {None}]
    /\ \A l, k \in loads : l.n \in 1 .. started /\ (l.n = k.n => l = k)
    /\ offlineTasks \in BOOLEAN /\ panel \in BOOLEAN /\ ready \in BOOLEAN
    /\ DataOK(lastData) /\ DataOK(dash) /\ (ready \/ dash # None => panel)

\* The dashboard never shows the tasks of a refused sign-in as if the student had
\* no progress, nor local files as if they came from the server: it says so
\* (dashboardLoader.ts:146-148,170-186).
DashboardSaysWhy ==
    dash # None => /\ dash.refused => dash.error = "expired"
                   /\ dash.mode = "server" /\ dash.from = "local" => dash.error # ""
=============================================================================
