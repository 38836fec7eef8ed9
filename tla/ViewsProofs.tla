---------------------------- MODULE ViewsProofs ----------------------------
(***************************************************************************)
(* Proofs about what the extension shows, for any number of accounts, tasks *)
(* and requests: the dashboard and the tree (TaskLists), the assistant's     *)
(* panel (AssistantPanel), the task view and the status bar (TaskView).      *)
(***************************************************************************)
EXTENDS TaskLists, WellFoundedInduction, TLAPS

-----------------------------------------------------------------------------
(* The dashboard *)

\* What the dashboard is given says why it is not the server's, or not all of it.
SaysWhy(d) == d # None => /\ d.refused => d.error = "expired"
                          /\ d.mode = "server" /\ d.from = "local" => d.error # ""

\* A load that may be under way, of one of the numbers given.
Loads == [n : 1 .. started, kind : {"tree", "dash"}, mode : {"server", "offline"},
          api : 1 .. MaxApi, post : BOOLEAN, step : {"list", "progress"},
          version : Version \cup {None}, account : Account \cup {None}]

LoadsInv ==
    /\ opens \in 0 .. MaxOpens /\ started \in 0 .. MaxLoads + opens
    /\ loads \subseteq Loads /\ \A l \in loads : l.step = "progress" => l.version \in Version
    /\ \A l, k \in loads : l.n = k.n => l = k

\* A signed-in account has the rows, of versions that were published.
RowsInv ==
    /\ current \in Version /\ rows \in [Account -> [Version -> Status \cup {None}]]
    /\ api \in 1 .. MaxApi /\ token \in [1 .. MaxApi -> Account \cup {None}]
    /\ mode \in {"server", "offline"} /\ local \in Local \cup {None}

ShownInv ==
    /\ offlineTasks \in BOOLEAN /\ panel \in BOOLEAN /\ ready \in BOOLEAN
    /\ DataOK(lastData) /\ DataOK(dash) /\ (ready \/ dash # None => panel)
    /\ SaysWhy(dash)

ListsInv == LoadsInv /\ RowsInv /\ ShownInv

LEMMA DigitRange ==
    ASSUME NEW v \in Version
    PROVE  v \in 0 .. 99 /\ FirstDigit(v) \in 0 .. 99
<1>1. v \in 0 .. 99
  BY ListsConstants DEF ListsAssumption, Version
<1>2. v \div 10 \in 0 .. 99
  BY <1>1
<1> QED BY <1>1, <1>2 DEF FirstDigit

LEMMA Greatest ==
    ASSUME NEW S, S \subseteq 0 .. 99, S # {}
    PROVE  \E m \in S : \A n \in S : n <= m
<1> DEFINE K == {99 - n : n \in S}
<1>1. K \subseteq Nat /\ K # {}
  <2>1. ASSUME NEW n \in 0 .. 99 PROVE 99 - n \in Nat
    OBVIOUS
  <2> QED BY <2>1
<1> HIDE DEF K
<1>2. PICK k \in K : \A j \in K : <<j, k>> \notin OpToRel(<, Nat)
  BY <1>1, NatLessThanWellFounded, WFMin
<1>3. \A j \in K : ~(j < k)
  <2>1. SUFFICES ASSUME NEW j \in K, j < k PROVE <<j, k>> \in OpToRel(<, Nat)
    BY <1>2
  <2>2. j \in Nat /\ k \in Nat
    BY <1>1
  <2> QED BY <2>1, <2>2 DEF OpToRel
<1>4. PICK m \in S : k = 99 - m
  BY DEF K
<1>5. ASSUME NEW n \in S PROVE n <= m
  <2>1. ~(99 - n < 99 - m)
    BY <1>3, <1>4 DEF K
  <2> QED BY <2>1
<1> QED BY <1>5

\* Of versions that are known one is the last in the order of their texts.
LEMMA LastKnown ==
    ASSUME NEW a, Known(a) # {}
    PROVE  LastByText(a) \in Known(a)
<1> DEFINE Digits == {FirstDigit(v) : v \in Known(a)}
<1>1. Known(a) \subseteq 0 .. 99 /\ \A v \in Known(a) : FirstDigit(v) \in 0 .. 99
  BY DigitRange DEF Known
<1>2. PICK d \in Digits : \A e \in Digits : e <= d
  <2>1. Digits \subseteq 0 .. 99 /\ Digits # {}
    BY <1>1
  <2> QED BY <2>1, Greatest
<1> DEFINE Last == {v \in Known(a) : FirstDigit(v) = d}
<1>3. PICK v \in Last : \A w \in Last : w <= v
  <2>1. Last \subseteq 0 .. 99 /\ Last # {}
    BY <1>1
  <2> QED BY <2>1, Greatest
<1>4. ASSUME NEW w \in Known(a) \ {v} PROVE TextBefore(w, v)
  <2>1. /\ FirstDigit(w) \in 0 .. 99 /\ FirstDigit(v) = d /\ d \in 0 .. 99
        /\ FirstDigit(w) <= d /\ v \in 0 .. 99 /\ w \in 0 .. 99
    BY <1>1, <1>2
  <2>2. FirstDigit(w) = d => w <= v
    BY <1>3, <1>4
  <2> QED BY <1>4, <2>1, <2>2 DEF TextBefore
<1> QED BY <1>4 DEF LastByText

LEMMA RowGiven ==
    ASSUME ListsInv, NEW v \in Version, NEW a \in Account \cup {None}
    PROVE  /\ DashRow(v, None) \in DashRows
           /\ a # None => DashRow(v, MapRow(a)) \in DashRows
<1>0. DashRow(v, None) \in DashRows
  BY DEF DashRow, DashRows
<1>1. CASE Known(a) = {}
  BY <1>1 DEF MapRow, DashRow, DashRows
<1>2. CASE Known(a) # {} /\ a # None
  <2>1. rows[a][LastByText(a)] \in Status
    BY <1>2, LastKnown DEF Known, ListsInv, RowsInv
  <2>2. /\ MapRow(a) = [of |-> a, version |-> LastByText(a), status |-> rows[a][LastByText(a)]]
        /\ LastByText(a) \in Version
    BY <1>2, LastKnown DEF MapRow, Known
  <2> QED BY <2>1, <2>2 DEF DashRow, DashRows
<1> QED BY <1>0, <1>1, <1>2

\* A load ends on the dashboard: what it brings is kept and may be shown.
LEMMA DashEndsKeeps ==
    ASSUME ListsInv, NEW l \in loads, NEW data, DashEnds(l, data), DataOK(data), SaysWhy(data),
           UNCHANGED <<mode, local, server, api, token, started, treeVars>>
    PROVE  ListsInv'
<1>1. /\ dash' \in {dash, data} /\ lastData' = data /\ UNCHANGED <<panel, ready, opens>>
      /\ loads' = loads \ {l}
  BY DEF DashEnds, Leaves
<1>2. dash' # dash => panel
  BY DEF DashEnds, ListsInv, ShownInv
<1>3. ShownInv'
  BY <1>1, <1>2 DEF ListsInv, ShownInv, DataOK, SaysWhy, treeVars
<1>4. LoadsInv' /\ RowsInv'
  BY <1>1 DEF ListsInv, LoadsInv, RowsInv, server, Loads
<1> QED BY <1>3, <1>4 DEF ListsInv

LEMMA DataGiven ==
    ASSUME ListsInv, NEW l \in loads, NEW refused \in BOOLEAN
    PROVE  /\ LET d == LoadOffline(l.n) IN DataOK(d) /\ SaysWhy(d)
           /\ LET d == FallBack(l.n, IF refused THEN "expired" ELSE "unavailable", refused)
              IN DataOK(d) /\ SaysWhy(d)
           /\ l.step = "progress" =>
                LET d == ProgressData(l, refused)
                    e == Data("server", DashRow(l.version, MapRow(l.account)), "", l.n, FALSE,
                              rows[l.account][l.version])
                IN DataOK(d) /\ SaysWhy(d) /\ (l.account # None => DataOK(e) /\ SaysWhy(e))
<1>1. l.n \in 1 .. MaxLoads + MaxOpens /\ l.account \in Account \cup {None}
  BY ListsConstants DEF ListsAssumption, ListsInv, LoadsInv, Loads
<1>2. local # None => LocalRow \in DashRows
  BY DEF LocalRow, DashRows, ListsInv, RowsInv, Local
<1>3. /\ LET d == LoadOffline(l.n) IN DataOK(d) /\ SaysWhy(d)
      /\ LET d == FallBack(l.n, IF refused THEN "expired" ELSE "unavailable", refused)
         IN DataOK(d) /\ SaysWhy(d)
      /\ LET d == FallBack(l.n, "expired", TRUE) IN DataOK(d) /\ SaysWhy(d)
  BY <1>1, <1>2, ListsConstants
     DEF ListsAssumption, LoadOffline, FallBack, Data, DataOK, SaysWhy
<1>4. ASSUME l.step = "progress"
      PROVE  LET d == ProgressData(l, refused)
                 e == Data("server", DashRow(l.version, MapRow(l.account)), "", l.n, FALSE,
                           rows[l.account][l.version])
             IN DataOK(d) /\ SaysWhy(d) /\ (l.account # None => DataOK(e) /\ SaysWhy(e))
  <2>1. /\ DashRow(l.version, None) # None
        /\ l.account # None => DashRow(l.version, MapRow(l.account)) # None
    BY <1>1, <1>4, RowGiven, ListsConstants DEF ListsAssumption, ListsInv, LoadsInv
  <2> QED BY <1>1, <1>3, <2>1 DEF ProgressData, Data, DataOK, SaysWhy
<1> QED BY <1>3, <1>4

LEMMA StartKeeps ==
    ASSUME ListsInv, NEW kind \in {"tree", "dash"}, NEW post \in BOOLEAN, Start(kind, post),
           opens' = opens
    PROVE  LoadsInv'
<1>1. Load(kind, post) \in [n : 1 .. started + 1, kind : {"tree", "dash"},
                            mode : {"server", "offline"}, api : 1 .. MaxApi, post : BOOLEAN,
                            step : {"list", "progress"}, version : Version \cup {None},
                            account : Account \cup {None}]
  BY DEF Load, ListsInv, RowsInv, LoadsInv
<1>2. started' = started + 1 /\ loads' = loads \cup {Load(kind, post)} /\ started < MaxLoads + opens
  BY ListsConstants DEF Start, ListsAssumption, ListsInv, LoadsInv
<1>3. Load(kind, post).n = started + 1 /\ Load(kind, post).step = "list"
  BY DEF Load
<1>4. started' \in 0 .. MaxLoads + opens' /\ opens' \in 0 .. MaxOpens
  BY <1>2, ListsConstants DEF ListsAssumption, ListsInv, LoadsInv
<1>5. loads' \subseteq Loads'
  BY <1>1, <1>2 DEF ListsInv, LoadsInv, Loads
<1>6. \A l, k \in loads' : l.n = k.n => l = k
  BY <1>2, <1>3 DEF ListsInv, LoadsInv, Loads
<1> QED BY <1>2, <1>3, <1>4, <1>5, <1>6 DEF ListsInv, LoadsInv

LEMMA AnswerKeeps ==
    ASSUME ListsInv, NEW l \in loads, NEW refused \in BOOLEAN,
           \/ ReadLocal(l) \/ ListAnswers(l) \/ ProgressAnswers(l)
           \/ ListFails(l, refused) \/ ProgressFails(l, refused)
    PROVE  ListsInv'
<1>1. ASSUME TreeOffline(l) \/ (UNCHANGED offlineTasks /\ Leaves(l)), UNCHANGED dashVars,
             UNCHANGED <<mode, local, server, api, token, started, checks>>
      PROVE  ListsInv'
  <2>1. offlineTasks' \in BOOLEAN /\ loads' \subseteq loads
    BY <1>1 DEF TreeOffline, Leaves, ListsInv, ShownInv
  <2>2. ShownInv'
    BY <1>1, <2>1 DEF ListsInv, ShownInv, dashVars, DataOK, SaysWhy
  <2>3. LoadsInv' /\ RowsInv'
    BY <1>1, <2>1 DEF ListsInv, LoadsInv, RowsInv, server, dashVars, Loads
  <2> QED BY <2>2, <2>3 DEF ListsInv
<1>2. CASE ReadLocal(l)
  BY <1>1, <1>2, DataGiven, DashEndsKeeps DEF ReadLocal
<1>3. CASE ListAnswers(l)
  <2>1. PICK asks \in 1 .. MaxApi :
           loads' = (loads \ {l}) \cup {[l EXCEPT !.step = "progress", !.version = current,
                                                  !.account = token[asks]]}
    BY <1>3 DEF ListAnswers, ListsInv, RowsInv, LoadsInv, Loads
  <2>2. UNCHANGED <<mode, local, server, api, token, started, checks, treeVars, dashVars>>
    BY <1>3 DEF ListAnswers
  <2> DEFINE k == [l EXCEPT !.step = "progress", !.version = current, !.account = token[asks]]
  <2>3. k \in Loads /\ k.n = l.n /\ k.version \in Version
    <3>1. l \in Loads /\ current \in Version /\ token[asks] \in Account \cup {None}
      BY DEF ListsInv, LoadsInv, RowsInv
    <3> QED BY <3>1 DEF Loads
  <2>4. loads' = (loads \ {l}) \cup {k}
    BY <2>1
  <2> HIDE DEF k
  <2>5. ShownInv' /\ RowsInv'
    BY <2>2 DEF ListsInv, ShownInv, RowsInv, dashVars, treeVars, server, DataOK, SaysWhy
  <2>6. LoadsInv'
    BY <2>2, <2>3, <2>4 DEF ListsInv, LoadsInv, Loads, dashVars
  <2> QED BY <2>5, <2>6 DEF ListsInv
<1>4. CASE ProgressAnswers(l)
  <2>1. CASE l.kind = "tree"
    BY <1>1, <1>4, <2>1 DEF ProgressAnswers
  <2>2. CASE l.kind = "dash"
    BY <1>4, <2>2, DataGiven, DashEndsKeeps DEF ProgressAnswers
  <2> QED BY <1>4, <2>1, <2>2 DEF ProgressAnswers
<1>5. CASE ListFails(l, refused)
  BY <1>1, <1>5, DataGiven, DashEndsKeeps DEF ListFails
<1>6. CASE ProgressFails(l, refused)
  BY <1>1, <1>6, DataGiven, DashEndsKeeps DEF ProgressFails
<1> QED BY <1>2, <1>3, <1>4, <1>5, <1>6

LEMMA ShownStays ==
    ASSUME ListsInv, UNCHANGED dashVars, offlineTasks' \in BOOLEAN
    PROVE  ShownInv'
BY DEF ListsInv, ShownInv, dashVars, DataOK, SaysWhy

LEMMA UserKeeps ==
    ASSUME ListsInv,
           \/ ShowPanel \/ ClosePanel \/ PageReady \/ RefreshPanel \/ RefreshTree
           \/ \E status \in Status : Checked(status)
           \/ \E a \in Account : LogIn(a) \/ SwitchMode(a)
           \/ \E a \in Account \cup {None} : UpdateApi(a)
           \/ \E breaking \in BOOLEAN : Publish(breaking)
           \/ UNCHANGED vars
    PROVE  ListsInv'
<1>0. offlineTasks \in BOOLEAN /\ FALSE \in BOOLEAN
  BY DEF ListsInv, ShownInv
<1>1. CASE ShowPanel \/ ClosePanel
  <2>1. LoadsInv'
    BY <1>1, ListsConstants
       DEF ShowPanel, ClosePanel, ListsAssumption, ListsInv, LoadsInv, Loads
  <2>2. RowsInv'
    BY <1>1 DEF ShowPanel, ClosePanel, ListsInv, RowsInv, server
  <2>3. ShownInv'
    BY <1>1 DEF ShowPanel, ClosePanel, ListsInv, ShownInv, treeVars, DataOK, SaysWhy
  <2> QED BY <2>1, <2>2, <2>3 DEF ListsInv
<1>2. CASE PageReady \/ RefreshPanel \/ RefreshTree
  <2>1. LoadsInv'
    BY <1>2, StartKeeps DEF PageReady, RefreshPanel, RefreshTree, dashVars
  <2>2. RowsInv'
    BY <1>2 DEF PageReady, RefreshPanel, RefreshTree, ListsInv, RowsInv, server
  <2>3. ShownInv'
    <3>1. CASE PageReady
      BY <3>1 DEF PageReady, ListsInv, ShownInv, treeVars, DataOK, SaysWhy
    <3>2. CASE RefreshPanel \/ RefreshTree
      BY <1>0, <3>2, ShownStays DEF RefreshPanel, RefreshTree, TreeRefresh, treeVars
    <3> QED BY <1>2, <3>1, <3>2
  <2> QED BY <2>1, <2>2, <2>3 DEF ListsInv
<1>3. ASSUME NEW status \in Status, Checked(status) PROVE ListsInv'
  <2>1. LoadsInv'
    BY <1>3, StartKeeps DEF Checked, Refreshes, dashVars
  <2>2. RowsInv'
    <3>1. UNCHANGED <<api, token, current, mode>>
      BY <1>3 DEF Checked
    <3>2. CASE mode = "server" /\ token[api] # None
               /\ rows' = [rows EXCEPT ![token[api]][current] = status] /\ local' = local
      <4>1. token[api] \in Account
        BY <3>2 DEF ListsInv, RowsInv
      <4>2. rows' \in [Account -> [Version -> Status \cup {None}]]
        BY <3>2, <4>1 DEF ListsInv, RowsInv
      <4> QED BY <3>1, <3>2, <4>2 DEF ListsInv, RowsInv
    <3>3. CASE local # None /\ local' = [local EXCEPT !.status = status] /\ rows' = rows
      BY <3>1, <3>3 DEF ListsInv, RowsInv, Local
    <3> QED BY <1>3, <3>2, <3>3 DEF Checked
  <2>3. ShownInv'
    BY <1>0, <1>3, ShownStays DEF Checked, Refreshes, TreeRefresh
  <2> QED BY <2>1, <2>2, <2>3 DEF ListsInv
<1>4. ASSUME NEW a \in Account \cup {None}, (a \in Account /\ (LogIn(a) \/ SwitchMode(a))) \/ UpdateApi(a)
      PROVE  ListsInv'
  <2>1. LoadsInv'
    BY <1>4, StartKeeps DEF LogIn, SwitchMode, Refreshes, UpdateApi, dashVars
  <2>2. RowsInv'
    <3>1. /\ UNCHANGED <<local, server>> /\ api' \in 1 .. MaxApi /\ mode' \in {"server", "offline"}
          /\ \E i \in 1 .. MaxApi, b \in {a, None} : token' = [token EXCEPT ![i] = b]
      <4>1. CASE LogIn(a)
        BY <4>1 DEF LogIn, ListsInv, RowsInv
      <4>2. CASE UpdateApi(a)
        <5>1. api + 1 \in 1 .. MaxApi
          BY <4>2, ListsConstants DEF ListsAssumption, UpdateApi, ListsInv, RowsInv
        <5> QED BY <4>2, <5>1 DEF UpdateApi, ListsInv, RowsInv
      <4>3. CASE SwitchMode(a)
        BY <4>3 DEF SwitchMode, ListsInv, RowsInv
      <4> QED BY <1>4, <4>1, <4>2, <4>3
    <3>2. token' \in [1 .. MaxApi -> Account \cup {None}]
      BY <3>1 DEF ListsInv, RowsInv
    <3> QED BY <3>1, <3>2 DEF ListsInv, RowsInv, server
  <2>3. ShownInv'
    BY <1>0, <1>4, ShownStays DEF LogIn, SwitchMode, Refreshes, UpdateApi, TreeRefresh
  <2> QED BY <2>1, <2>2, <2>3 DEF ListsInv
<1>5. ASSUME NEW breaking \in BOOLEAN, Publish(breaking) PROVE ListsInv'
  <2>1. RowsInv'
    <3>1. /\ UNCHANGED <<mode, api, token, local>> /\ current' \in Version
          /\ \/ rows' = rows
             \/ rows' = [a \in Account |-> [v \in Version |->
                           IF rows[a][v] = None THEN None ELSE "stale"]]
      BY <1>5, ListsConstants DEF ListsAssumption, Publish, ListsInv, RowsInv, Version
    <3>2. rows' \in [Account -> [Version -> Status \cup {None}]]
      BY <3>1 DEF ListsInv, RowsInv, Status
    <3> QED BY <3>1, <3>2 DEF ListsInv, RowsInv
  <2>2. LoadsInv'
    BY <1>5 DEF Publish, ListsInv, LoadsInv, dashVars, Loads
  <2>3. ShownInv'
    BY <1>0, <1>5, ShownStays DEF Publish, treeVars
  <2> QED BY <2>1, <2>2, <2>3 DEF ListsInv
<1>6. CASE UNCHANGED vars
  <2>1. LoadsInv' /\ RowsInv'
    BY <1>6 DEF ListsInv, LoadsInv, RowsInv, vars, server, dashVars, Loads
  <2>2. ShownInv'
    BY <1>0, <1>6, ShownStays DEF vars, treeVars
  <2> QED BY <2>1, <2>2 DEF ListsInv
<1> QED BY <1>1, <1>2, <1>3, <1>4, <1>5, <1>6

LEMMA ListsInit == Init => ListsInv
<1> SUFFICES ASSUME Init PROVE ListsInv
  OBVIOUS
<1>1. LoadsInv
  BY ListsConstants DEF Init, ListsAssumption, LoadsInv
<1>2. RowsInv
  <2>1. /\ current \in Version /\ rows \in [Account -> [Version -> Status \cup {None}]]
        /\ local \in Local \cup {None}
    BY ListsConstants DEF Init, ListsAssumption, Version
  <2>2. /\ api \in 1 .. MaxApi /\ token \in [1 .. MaxApi -> Account \cup {None}]
        /\ mode \in {"server", "offline"}
    BY ListsConstants DEF Init, Signed, ListsAssumption
  <2> QED BY <2>1, <2>2 DEF RowsInv
<1>3. ShownInv
  BY DEF Init, ShownInv, DataOK, SaysWhy
<1> QED BY <1>1, <1>2, <1>3 DEF ListsInv

LEMMA ListsHold == Spec => []ListsInv
<1>1. ListsInv /\ [Next]_vars => ListsInv'
  BY AnswerKeeps, UserKeeps DEF Next
<1> QED BY <1>1, ListsInit, PTL DEF Spec

\* Every variable keeps to its values: the loads under way are told apart, and the
\* dashboard shows nothing while it is closed (dashboardView.ts).
THEOREM ListsTyped == Spec => []TypeOK
<1>1. ListsInv => TypeOK
  BY DEF ListsInv, LoadsInv, RowsInv, ShownInv, Loads, TypeOK
<1> QED BY <1>1, ListsHold, PTL

\* dashboardLoader.ts:146-148, 170-186: whatever loads end in any order, the dashboard
\* says that the sign-in was refused, and that it shows local files.
THEOREM DashboardTellsWhy == Spec => []DashboardSaysWhy
<1>1. ListsInv => DashboardSaysWhy
  BY DEF ListsInv, ShownInv, SaysWhy, DashboardSaysWhy
<1> QED BY <1>1, ListsHold, PTL

-----------------------------------------------------------------------------
(* The assistant's panel *)

CONSTANTS Task, Code, Student, Slot

VARIABLES buffer, passed, checking, student, signingIn, panelOffline, ctx, contexts,
          panelCurrent, showing, panelView, panelScreen, panelInbox

N == INSTANCE AssistantPanel WITH
         offline <- panelOffline, current <- panelCurrent, view <- panelView,
         screen <- panelScreen, inbox <- panelInbox

\* What a context holds is about its task, and so is what its operation holds.
CoreOK(c) ==
    /\ c \in N!Context
    /\ c.task = None => c = N!Blank
    /\ c.session # None => c.session.task = c.task
    /\ c.subm # None => c.hash = c.subm
    /\ c.text # None => c.text = c.task
OpOK(c) ==
    /\ c.op \in {"sendCode", "send"} => c.using # None /\ c.using.task = c.task
    /\ c.op = "create" /\ c.mode = "defend" => c.asked \in {c.read, None}
    /\ c.text # None => c.op \in {"code", "create", "sendCode", "send", "recover"}
    /\ c.text # None /\ c.op \in {"code", "create"} => c.mode = "hint"
ContextOK(c) == CoreOK(c) /\ OpOK(c)

EditInv ==
    /\ buffer \in [Task -> Code] /\ passed \in [Task -> SUBSET Code]
    /\ checking \in [Task -> Code \cup {None}]
    /\ student \in Student /\ {signingIn, panelOffline} \subseteq BOOLEAN
CtxInv == ctx \in [Slot -> N!Context] /\ \A i \in Slot : ContextOK(ctx[i])
MapInv ==
    /\ contexts \in [Task -> Slot \cup {0}]
    /\ panelCurrent = 0 \/ N!Attached(panelCurrent)
    /\ \A t \in Task : contexts[t] # 0 => ctx[contexts[t]].task = t
PanelInv == EditInv /\ CtxInv /\ MapInv /\ N!ScreenUpToDate

-----------------------------------------------------------------------------
(* Rows *)

LEMMA PanelConstants ==
    ASSUME N!PanelAssumption
    PROVE  /\ Slot \subseteq Nat \ {0}
           /\ None \notin Task /\ None \notin Code /\ None \notin Student
           /\ None \notin N!Session
BY DEF N!PanelAssumption

LEMMA BlankOK ==
    ASSUME N!PanelAssumption
    PROVE  /\ ContextOK(N!Blank) /\ N!Blank.task = None /\ N!Blank.op = "idle"
           /\ \A t \in Task : /\ ContextOK([N!Blank EXCEPT !.task = t])
                              /\ [N!Blank EXCEPT !.task = t].task = t
                              /\ [N!Blank EXCEPT !.task = t].op = "idle"
<1>1. N!Blank \in N!Context
  BY DEF N!Blank, N!Context, N!Ops
<1>2. /\ N!Blank.task = None /\ N!Blank.session = None /\ N!Blank.subm = None
      /\ N!Blank.text = None /\ N!Blank.op = "idle"
  BY DEF N!Blank
<1>3. ContextOK(N!Blank)
  BY <1>1, <1>2 DEF ContextOK, CoreOK, OpOK
<1>4. ASSUME NEW t \in Task
      PROVE  /\ ContextOK([N!Blank EXCEPT !.task = t]) /\ [N!Blank EXCEPT !.task = t].task = t
             /\ [N!Blank EXCEPT !.task = t].op = "idle"
  <2>1. PICK r : r = [N!Blank EXCEPT !.task = t]
    OBVIOUS
  <2>2. r \in N!Context
    BY <2>1 DEF N!Blank, N!Context, N!Ops
  <2>3. r.task = t /\ r.session = None /\ r.subm = None /\ r.text = None /\ r.op = "idle"
    BY <2>1 DEF N!Blank
  <2>4. t # None
    BY PanelConstants
  <2> QED BY <2>1, <2>2, <2>3, <2>4 DEF ContextOK, CoreOK, OpOK
<1> QED BY <1>2, <1>3, <1>4

\* Fields that are given values of theirs leave a context a context.
LEMMA MarksOK ==
    ASSUME NEW c \in N!Context
    PROVE  /\ [c EXCEPT !.error = FALSE] \in N!Context /\ [c EXCEPT !.auto = FALSE] \in N!Context
           /\ [c EXCEPT !.account = "none", !.error = FALSE] \in N!Context
           /\ [c EXCEPT !.op = "account", !.error = FALSE] \in N!Context
           /\ \A x \in Code \cup {None} : [c EXCEPT !.subm = x, !.hash = x] \in N!Context
           /\ \A x \in Code \cup {None}, y \in Code \cup {None}, b \in BOOLEAN,
                 e \in N!Session \cup {None} :
                 [c EXCEPT !.subm = x, !.hash = y, !.auto = b, !.session = e] \in N!Context
<1>1. [c EXCEPT !.error = FALSE] \in N!Context
  BY DEF N!Context
<1>2. [c EXCEPT !.auto = FALSE] \in N!Context
  BY DEF N!Context
<1>3. ASSUME NEW x \in Code \cup {None} PROVE [c EXCEPT !.subm = x, !.hash = x] \in N!Context
  BY DEF N!Context
<1>4. ASSUME NEW x \in Code \cup {None}, NEW y \in Code \cup {None}, NEW b \in BOOLEAN,
             NEW e \in N!Session \cup {None}
      PROVE  [c EXCEPT !.subm = x, !.hash = y, !.auto = b, !.session = e] \in N!Context
  BY DEF N!Context
<1>5. [c EXCEPT !.account = "none", !.error = FALSE] \in N!Context
  BY DEF N!Context
<1>6. [c EXCEPT !.op = "account", !.error = FALSE] \in N!Context
  BY DEF N!Context, N!Ops
<1> QED BY <1>1, <1>2, <1>3, <1>4, <1>5, <1>6

\* select() drops a submission of another code, and a dialogue only with it.
LEMMA SelectedOK ==
    ASSUME N!PanelAssumption, NEW c, ContextOK(c), c.task \in Task, NEW code \in Code,
           NEW subm \in {None, code}
    PROVE  /\ ContextOK(N!Selected(c, code, subm))
           /\ N!Selected(c, code, subm).task = c.task
           /\ N!Selected(c, code, subm).op = c.op
<1> DEFINE stale == subm = None /\ c.hash # None /\ c.hash # code
           fresh == subm # None /\ subm # c.subm
           sub == IF stale THEN None ELSE IF fresh THEN subm ELSE c.subm
           hash == IF stale THEN None ELSE IF subm # None THEN code ELSE c.hash
           lost == \/ fresh
                   \/ stale /\ c.session # None /\ c.session.mode = "defend"
           ses == IF lost THEN None ELSE c.session
           auto == c.auto /\ ~stale
<1>2. PICK r : r = [c EXCEPT !.subm = sub, !.hash = hash, !.auto = auto, !.session = ses]
  OBVIOUS
<1>3. r = N!Selected(c, code, subm)
  BY <1>2, Zenon DEF N!Selected
<1>4. /\ c \in N!Context /\ None \notin Code /\ None \notin Task
      /\ c.subm \in Code \cup {None} /\ c.hash \in Code \cup {None}
      /\ c.session \in N!Session \cup {None} /\ c.auto \in BOOLEAN
  BY PanelConstants DEF ContextOK, CoreOK, N!Context
<1>5. sub \in Code \cup {None} /\ hash \in Code \cup {None} /\ ses \in N!Session \cup {None}
  BY <1>4
<1>6. auto \in BOOLEAN
  BY <1>4
<1>7. sub # None => hash = sub
  BY <1>4 DEF ContextOK, CoreOK
<1>8. ses # None => ses.task = c.task
  BY DEF ContextOK, CoreOK
<1> HIDE DEF sub, hash, ses, auto, lost, stale, fresh
<1>9. r \in N!Context
  BY <1>2, <1>4, <1>5, <1>6, MarksOK
<1>10. /\ r.task = c.task /\ r.op = c.op /\ r.mode = c.mode /\ r.read = c.read
       /\ r.asked = c.asked /\ r.text = c.text /\ r.using = c.using
       /\ r.subm = sub /\ r.hash = hash /\ r.session = ses
  BY <1>2, <1>4 DEF N!Context
<1>11. r.task # None
  BY <1>4, <1>10
<1> QED BY <1>3, <1>7, <1>8, <1>9, <1>10, <1>11 DEF ContextOK, CoreOK, OpOK

LEMMA RefreshOK ==
    ASSUME N!PanelAssumption, NEW c, ContextOK(c), c.task \in Task
    PROVE  /\ ContextOK(N!Refresh(c)) /\ N!Refresh(c).task = c.task
           /\ N!Refresh(c).op \in {c.op, "account"}
<1>1. CASE N!Busy(c)
  BY <1>1 DEF N!Refresh
<1>2. CASE ~N!Busy(c)
  <2>1. PICK r : r = N!Refresh(c)
    OBVIOUS
  <2>2. r = [c EXCEPT !.account = "none", !.error = FALSE] \/ r = [c EXCEPT !.op = "account", !.error = FALSE]
    BY <1>2, <2>1 DEF N!Refresh, N!Refreshed
  <2>3. c \in N!Context /\ c.task # None
    BY PanelConstants DEF ContextOK, CoreOK
  <2>4. r \in N!Context
    BY <2>2, <2>3, MarksOK
  <2>5. /\ r.task = c.task /\ r.op \in {c.op, "account"} /\ r.mode = c.mode /\ r.read = c.read
        /\ r.asked = c.asked /\ r.text = c.text /\ r.using = c.using
        /\ r.subm = c.subm /\ r.hash = c.hash /\ r.session = c.session
    BY <2>2, <2>3 DEF N!Context
  <2>6. c.text = None
    BY <1>2 DEF ContextOK, OpOK, N!Busy
  <2> QED BY <2>1, <2>3, <2>4, <2>5, <2>6 DEF ContextOK, CoreOK, OpOK
<1> QED BY <1>1, <1>2

LEMMA EndedOK ==
    ASSUME N!PanelAssumption, NEW c, CoreOK(c), c.task \in Task, NEW i
    PROVE  /\ ContextOK(N!Ended(i, c)) /\ N!Ended(i, c).op = "idle"
           /\ N!Attached(i) => N!Ended(i, c).task = c.task
<1>1. CASE ~N!Attached(i)
  BY <1>1, BlankOK DEF N!Ended
<1>2. CASE N!Attached(i)
  <2>1. PICK r : r = [c EXCEPT !.op = "idle", !.mode = "hint", !.read = None, !.asked = None,
                              !.text = None, !.using = None]
    OBVIOUS
  <2>2. r = N!Ended(i, c)
    BY <1>2, <2>1 DEF N!Ended
  <2>3. c \in N!Context /\ c.task # None
    BY PanelConstants DEF CoreOK
  <2>4. r \in N!Context
    BY <2>1, <2>3 DEF N!Context, N!Ops
  <2>5. /\ r.task = c.task /\ r.op = "idle" /\ r.text = None
        /\ r.subm = c.subm /\ r.hash = c.hash /\ r.session = c.session
    BY <2>1, <2>3 DEF N!Context
  <2> QED BY <2>2, <2>3, <2>4, <2>5 DEF ContextOK, CoreOK, OpOK
<1> QED BY <1>1, <1>2

-----------------------------------------------------------------------------
(* Steps *)

\* The current context, and one whose operation goes on, has a task.
LEMMA HasTask ==
    ASSUME N!PanelAssumption, PanelInv, NEW i \in Slot, N!Attached(i) \/ ctx[i].op # "idle"
    PROVE  ctx[i].task \in Task
<1>1. ctx[i].task \in Task \cup {None} /\ (ctx[i].task = None => ctx[i] = N!Blank)
  BY DEF PanelInv, CtxInv, ContextOK, CoreOK, N!Context
<1>2. CASE N!Attached(i)
  <2>1. PICK t \in Task : contexts[t] = i
    BY <1>2 DEF N!Attached
  <2> QED BY <2>1, PanelConstants DEF PanelInv, MapInv
<1>3. CASE ctx[i].op # "idle"
  BY <1>1, <1>3, BlankOK
<1> QED BY <1>2, <1>3

LEMMA CurrentSlot ==
    ASSUME N!PanelAssumption, PanelInv, panelCurrent # 0
    PROVE  panelCurrent \in Slot /\ N!Attached(panelCurrent)
<1>1. PICK t \in Task : contexts[t] = panelCurrent
  BY DEF PanelInv, MapInv, N!Attached
<1> QED BY <1>1 DEF PanelInv, MapInv, N!Attached

\* A context changes in place.
LEMMA SetKeeps ==
    ASSUME N!PanelAssumption, PanelInv, NEW i \in Slot, NEW c, ContextOK(c),
           c.task = ctx[i].task \/ ~N!Attached(i),
           N!Set(i, c), contexts' = contexts, panelCurrent' = panelCurrent
    PROVE  CtxInv' /\ MapInv'
<1>1. /\ ctx' = [ctx EXCEPT ![i] = c] /\ ctx \in [Slot -> N!Context] /\ c \in N!Context
  BY DEF N!Set, PanelInv, CtxInv, ContextOK, CoreOK
<1>2. ctx' \in [Slot -> N!Context] /\ ctx'[i] = c /\ \A j \in Slot \ {i} : ctx'[j] = ctx[j]
  BY <1>1
<1>3. CtxInv'
  <2>1. ASSUME NEW j \in Slot PROVE ContextOK(ctx'[j])
    BY <1>2 DEF PanelInv, CtxInv
  <2>2. ASSUME NEW j \in Slot PROVE ContextOK(ctx[j])'
    BY <2>1 DEF ContextOK, CoreOK, OpOK, N!Context, N!Blank, N!Session, N!Ops
  <2> QED BY <1>2, <2>2 DEF CtxInv, N!Context, N!Session, N!Ops
<1>4. MapInv'
  <2>1. ASSUME NEW t \in Task, contexts[t] # 0 PROVE ctx'[contexts[t]].task = t
    <3>1. contexts[t] \in Slot /\ ctx[contexts[t]].task = t
      BY <2>1 DEF PanelInv, MapInv
    <3>2. contexts[t] = i => N!Attached(i)
      BY DEF N!Attached
    <3> QED BY <1>2, <3>1, <3>2
  <2> QED BY <2>1 DEF PanelInv, MapInv, N!Attached
<1> QED BY <1>3, <1>4

\* A context is made, or selected, for a task.
LEMMA PlacedKeeps ==
    ASSUME N!PanelAssumption, PanelInv, NEW t \in Task, NEW i \in Slot, N!SlotOf(t, i),
           NEW c, ContextOK(c), c.task = t, N!Set(i, c),
           contexts' = [contexts EXCEPT ![t] = i], panelCurrent' = i
    PROVE  CtxInv' /\ MapInv'
<1>1. /\ ctx' = [ctx EXCEPT ![i] = c] /\ ctx \in [Slot -> N!Context] /\ c \in N!Context
      /\ contexts \in [Task -> Slot \cup {0}] /\ i # 0
  BY PanelConstants DEF N!Set, PanelInv, CtxInv, MapInv, ContextOK, CoreOK
<1>2. ctx' \in [Slot -> N!Context] /\ ctx'[i] = c /\ \A j \in Slot \ {i} : ctx'[j] = ctx[j]
  BY <1>1
<1>3. CtxInv'
  <2>1. ASSUME NEW j \in Slot PROVE ContextOK(ctx'[j])
    BY <1>2 DEF PanelInv, CtxInv
  <2>2. ASSUME NEW j \in Slot PROVE ContextOK(ctx[j])'
    BY <2>1 DEF ContextOK, CoreOK, OpOK, N!Context, N!Blank, N!Session, N!Ops
  <2> QED BY <1>2, <2>2 DEF CtxInv, N!Context, N!Session, N!Ops
<1>4. /\ contexts' \in [Task -> Slot \cup {0}] /\ contexts'[t] = i
      /\ \A u \in Task \ {t} : contexts'[u] = contexts[u]
  BY <1>1
<1>5. ASSUME NEW u \in Task \ {t}, contexts[u] # 0 PROVE contexts[u] # i
  <2>1. CASE contexts[t] # 0
    <3>1. i = contexts[t] /\ ctx[i].task = t
      BY <2>1 DEF N!SlotOf, PanelInv, MapInv
    <3> QED BY <1>5, <3>1 DEF PanelInv, MapInv
  <2>2. CASE contexts[t] = 0
    BY <2>2 DEF N!SlotOf, N!FreeSlot, N!Attached
  <2> QED BY <2>1, <2>2
<1>6. ASSUME NEW u \in Task, contexts'[u] # 0 PROVE ctx'[contexts'[u]].task = u
  <2>1. CASE u = t
    BY <1>2, <1>4, <2>1
  <2>2. CASE u # t
    <3>1. contexts[u] \in Slot \ {i} /\ ctx[contexts[u]].task = u /\ contexts'[u] = contexts[u]
      BY <1>1, <1>4, <1>5, <1>6, <2>2 DEF PanelInv, MapInv
    <3> QED BY <1>2, <3>1
  <2> QED BY <2>1, <2>2
<1>7. MapInv'
  BY <1>4, <1>6 DEF MapInv, N!Attached
<1> QED BY <1>3, <1>7

\* publish() shows the current context.
LEMMA PublishShows ==
    ASSUME N!Publish
    PROVE  N!ScreenUpToDate'
<1>1. SUFFICES ASSUME N!Ready' PROVE /\ panelCurrent' = 0 => panelScreen'.task = None
                                     /\ panelCurrent' # 0 => panelScreen' = N!Data(ctx'[panelCurrent'])
  BY DEF N!ScreenUpToDate, N!Data, N!Busy
<1>2. panelScreen' = IF panelCurrent' = 0 THEN N!Data(N!Blank) ELSE N!Data(ctx'[panelCurrent'])
  BY <1>1 DEF N!Publish, N!Ready
<1> QED BY <1>2 DEF N!Data, N!Blank

\* A context that stays busy, with its task, is shown as it was.
LEMMA QuietShows ==
    ASSUME PanelInv, NEW i \in Slot, NEW c, N!Set(i, c), c.op # "idle", c.task = ctx[i].task,
           panelCurrent' = panelCurrent, panelView' = panelView, panelScreen' = panelScreen
    PROVE  N!ScreenUpToDate'
<1>1. ctx'[i] = c /\ \A j : j # i => ctx'[j] = ctx[j]
  BY DEF N!Set, PanelInv, CtxInv
<1>2. N!Ready' = N!Ready
  BY DEF N!Ready
<1> QED BY <1>1, <1>2 DEF PanelInv, N!ScreenUpToDate, N!Data, N!Busy

\* No context but i begins to call a model, and i only while it is attached.
LEMMA SetPays ==
    ASSUME PanelInv, NEW i \in Slot, NEW c, N!Set(i, c),
           c.op \in {"create", "send"} /\ c.op # ctx[i].op => N!Attached(i)
    PROVE  N!StopsPaying
<1>1. ctx'[i] = c /\ \A j \in Slot : j # i => ctx'[j] = ctx[j]
  BY DEF N!Set, PanelInv, CtxInv
<1> QED BY <1>1 DEF N!StopsPaying

LEMMA EditKeeps ==
    ASSUME EditInv, UNCHANGED <<N!editVars, N!userVars>>
    PROVE  EditInv'
BY DEF EditInv, N!editVars, N!userVars

\* A step that leaves the contexts alone.
LEMMA ContextsKept ==
    ASSUME PanelInv, ctx' = ctx, contexts' = contexts, panelCurrent' = panelCurrent
    PROVE  CtxInv' /\ MapInv' /\ N!StopsPaying
<1>1. CtxInv'
  BY DEF PanelInv, CtxInv, ContextOK, CoreOK, OpOK, N!Context, N!Blank, N!Session, N!Ops
<1>2. MapInv'
  BY DEF PanelInv, MapInv, N!Attached
<1> QED BY <1>1, <1>2 DEF N!StopsPaying

LEMMA ScreenKept ==
    ASSUME PanelInv, ctx' = ctx, panelCurrent' = panelCurrent, panelScreen' = panelScreen,
           N!Ready' => N!Ready
    PROVE  N!ScreenUpToDate'
BY DEF PanelInv, N!ScreenUpToDate, N!Data, N!Busy

-----------------------------------------------------------------------------
(* The student's steps *)

LEMMA ContextOfOK ==
    ASSUME N!PanelAssumption, PanelInv, NEW t \in Task, NEW i \in Slot, N!SlotOf(t, i)
    PROVE  /\ ContextOK(N!ContextOf(t)) /\ N!ContextOf(t).task = t
           /\ N!ContextOf(t).op # "idle" => N!ContextOf(t) = ctx[i] /\ N!Attached(i)
<1>1. CASE contexts[t] = 0
  BY <1>1, BlankOK DEF N!ContextOf
<1>2. CASE contexts[t] # 0
  <2>1. i = contexts[t] /\ N!ContextOf(t) = ctx[i] /\ N!Attached(i)
    BY <1>2 DEF N!SlotOf, N!ContextOf, N!Attached
  <2> QED BY <1>2, <2>1 DEF PanelInv, CtxInv, MapInv
<1> QED BY <1>1, <1>2

LEMMA FollowKeeps ==
    ASSUME N!PanelAssumption, PanelInv, NEW t \in Task, N!Follow(t)
    PROVE  PanelInv' /\ N!StopsPaying
<1>1. PICK i \in Slot :
        /\ N!SlotOf(t, i)
        /\ LET c == N!Selected(N!ContextOf(t), buffer[t], None)
           IN  N!Set(i, IF i # panelCurrent /\ panelView = "visible" THEN N!Refresh(c) ELSE c)
        /\ contexts' = [contexts EXCEPT ![t] = i] /\ panelCurrent' = i
        /\ UNCHANGED <<N!editVars, N!userVars>>
        /\ N!Publish
  BY DEF N!Follow
<1> DEFINE c == N!Selected(N!ContextOf(t), buffer[t], None)
<1>2. PICK d : d = IF i # panelCurrent /\ panelView = "visible" THEN N!Refresh(c) ELSE c
  OBVIOUS
<1>3. N!Set(i, d)
  BY <1>1, <1>2
<1>4. /\ ContextOK(N!ContextOf(t)) /\ N!ContextOf(t).task = t /\ buffer[t] \in Code
      /\ N!ContextOf(t).op # "idle" => N!ContextOf(t) = ctx[i] /\ N!Attached(i)
  BY <1>1, ContextOfOK DEF PanelInv, EditInv
<1>5. ContextOK(c) /\ c.task = t /\ c.op = N!ContextOf(t).op
  BY <1>4, SelectedOK
<1> HIDE DEF c
<1>6. ContextOK(d) /\ d.task = t /\ d.op \in {c.op, "account"}
  BY <1>2, <1>5, RefreshOK
<1>7. CtxInv' /\ MapInv'
  BY <1>1, <1>3, <1>6, PlacedKeeps
<1>8. N!StopsPaying
  <2>1. d.op \in {"create", "send"} /\ d.op # ctx[i].op => N!Attached(i)
    BY <1>4, <1>5, <1>6
  <2> QED BY <1>3, <2>1, SetPays
<1>9. EditInv' /\ N!ScreenUpToDate'
  BY <1>1, EditKeeps, PublishShows DEF PanelInv
<1> QED BY <1>7, <1>8, <1>9 DEF PanelInv

LEMMA ShowKeeps ==
    ASSUME N!PanelAssumption, PanelInv, NEW t \in Task, NEW code \in Code,
           NEW subm \in {None, code}, N!BeginShow(t, code, subm)
    PROVE  CtxInv' /\ MapInv' /\ N!ScreenUpToDate' /\ N!StopsPaying /\ UNCHANGED N!userVars
<1>1. PICK i \in Slot :
        /\ N!SlotOf(t, i)
        /\ N!Set(i, [N!Selected(N!ContextOf(t), code, subm) EXCEPT !.auto = subm # None])
        /\ contexts' = [contexts EXCEPT ![t] = i] /\ panelCurrent' = i
        /\ UNCHANGED N!userVars
        /\ N!Publish
  BY DEF N!BeginShow
<1>2. PICK auto \in BOOLEAN : auto = (subm # None)
  OBVIOUS
<1>3. PICK c : c = N!Selected(N!ContextOf(t), code, subm)
  OBVIOUS
<1>4. /\ ContextOK(N!ContextOf(t)) /\ N!ContextOf(t).task = t
      /\ N!ContextOf(t).op # "idle" => N!ContextOf(t) = ctx[i] /\ N!Attached(i)
  BY <1>1, ContextOfOK
<1>5. ContextOK(c) /\ c.task = t /\ c.op = N!ContextOf(t).op
  BY <1>3, <1>4, SelectedOK
<1>6. PICK d : d = [c EXCEPT !.auto = auto]
  OBVIOUS
<1>7. N!Set(i, d)
  BY <1>1, <1>2, <1>3, <1>6, Zenon
<1>8. ContextOK(d) /\ d.task = t /\ d.op = c.op
  <2>1. c \in N!Context /\ t # None
    BY <1>5, PanelConstants DEF ContextOK, CoreOK
  <2>2. d \in N!Context
    BY <1>6, <2>1 DEF N!Context
  <2>3. /\ d.task = c.task /\ d.op = c.op /\ d.mode = c.mode /\ d.read = c.read
        /\ d.asked = c.asked /\ d.text = c.text /\ d.using = c.using
        /\ d.subm = c.subm /\ d.hash = c.hash /\ d.session = c.session
    BY <1>6, <2>1 DEF N!Context
  <2> QED BY <1>5, <2>1, <2>2, <2>3 DEF ContextOK, CoreOK, OpOK
<1>9. CtxInv' /\ MapInv'
  BY <1>1, <1>7, <1>8, PlacedKeeps
<1>10. N!StopsPaying
  <2>1. d.op \in {"create", "send"} /\ d.op # ctx[i].op => N!Attached(i)
    BY <1>4, <1>5, <1>8
  <2> QED BY <1>7, <2>1, SetPays
<1>11. N!ScreenUpToDate' /\ UNCHANGED N!userVars
  BY <1>1, PublishShows
<1> QED BY <1>9, <1>10, <1>11

LEMMA TaskStepKeeps ==
    ASSUME N!PanelAssumption, PanelInv, NEW t \in Task, N!TaskStep(t)
    PROVE  PanelInv' /\ N!StopsPaying
<1> USE DEF PanelInv
<1>1. CASE N!Follow(t)
  BY <1>1, FollowKeeps
<1>2. CASE N!Edit(t)
  <2>1. /\ CtxInv' /\ MapInv' /\ N!StopsPaying /\ N!ScreenUpToDate'
    BY <1>2, ContextsKept, ScreenKept DEF N!Edit, N!Panel, N!Ready
  <2>2. EditInv'
    BY <1>2 DEF N!Edit, EditInv, N!userVars
  <2> QED BY <2>1, <2>2
<1>3. CASE N!Ask(t)
  <2>1. buffer[t] \in Code /\ N!BeginShow(t, buffer[t], None) /\ UNCHANGED N!editVars
    BY <1>3 DEF N!Ask, EditInv
  <2>2. CtxInv' /\ MapInv' /\ N!ScreenUpToDate' /\ N!StopsPaying /\ UNCHANGED N!userVars
    BY <2>1, ShowKeeps
  <2> QED BY <2>1, <2>2, EditKeeps
<1>4. CASE N!BeginCheck(t)
  <2>1. /\ CtxInv' /\ MapInv' /\ N!StopsPaying /\ N!ScreenUpToDate'
    BY <1>4, ContextsKept, ScreenKept DEF N!BeginCheck, N!Panel, N!Ready
  <2>2. EditInv'
    BY <1>4 DEF N!BeginCheck, EditInv, N!userVars
  <2> QED BY <2>1, <2>2
<1>5. CASE N!CheckPassed(t)
  <2>1. checking[t] \in Code /\ N!BeginShow(t, checking[t], checking[t])
    BY <1>5 DEF N!CheckPassed, EditInv
  <2>2. CtxInv' /\ MapInv' /\ N!ScreenUpToDate' /\ N!StopsPaying /\ UNCHANGED N!userVars
    BY <2>1, ShowKeeps
  <2>3. /\ passed' = [passed EXCEPT ![t] = @ \cup {checking[t]}]
        /\ checking' = [checking EXCEPT ![t] = None] /\ buffer' = buffer
    BY <1>5 DEF N!CheckPassed
  <2>4. EditInv'
    BY <2>1, <2>2, <2>3 DEF EditInv, N!userVars
  <2> QED BY <2>2, <2>4
<1>6. CASE N!CheckEnded(t)
  <2>1. /\ CtxInv' /\ MapInv' /\ N!StopsPaying /\ N!ScreenUpToDate'
    BY <1>6, ContextsKept, ScreenKept DEF N!CheckEnded, N!Panel, N!Ready
  <2>2. EditInv'
    BY <1>6 DEF N!CheckEnded, EditInv, N!userVars
  <2> QED BY <2>1, <2>2
<1> QED BY <1>1, <1>2, <1>3, <1>4, <1>5, <1>6 DEF N!TaskStep

\* close() forgets every context and drops those without an operation.
LEMMA CloseKeeps ==
    ASSUME N!PanelAssumption, PanelInv, N!Close
    PROVE  CtxInv' /\ MapInv' /\ N!ScreenUpToDate' /\ N!StopsPaying
<1>1. \A i \in Slot : ctx'[i] = IF N!Busy(ctx[i]) THEN ctx[i] ELSE N!Blank
  BY DEF N!Close
<1>2. ASSUME NEW i \in Slot PROVE ContextOK(ctx'[i])
  BY <1>1, BlankOK DEF PanelInv, CtxInv
<1>3. CtxInv'
  <2>1. ctx' \in [Slot -> N!Context]
    <3>1. ASSUME NEW i \in Slot PROVE (IF N!Busy(ctx[i]) THEN ctx[i] ELSE N!Blank) \in N!Context
      BY <1>1, <1>2 DEF ContextOK, CoreOK
    <3> QED BY <3>1 DEF N!Close
  <2>2. ASSUME NEW j \in Slot PROVE ContextOK(ctx[j])'
    BY <1>2 DEF ContextOK, CoreOK, OpOK, N!Context, N!Blank, N!Session, N!Ops
  <2> QED BY <2>1, <2>2 DEF CtxInv, N!Context, N!Session, N!Ops
<1>4. MapInv'
  BY DEF N!Close, MapInv
<1>5. N!StopsPaying
  <2>1. N!Blank.op = "idle"
    BY BlankOK
  <2> QED BY <1>1, <2>1 DEF N!StopsPaying
<1>6. N!ScreenUpToDate'
  BY PublishShows DEF N!Close
<1> QED BY <1>3, <1>4, <1>5, <1>6

\* A context changes in place and the panel shows it.
LEMMA ShownStep ==
    ASSUME N!PanelAssumption, PanelInv, NEW i \in Slot, NEW c, ContextOK(c),
           c.task = ctx[i].task \/ ~N!Attached(i),
           c.op \in {"create", "send"} /\ c.op # ctx[i].op => N!Attached(i),
           N!Set(i, c), contexts' = contexts, panelCurrent' = panelCurrent, N!Publish,
           UNCHANGED <<N!editVars, N!userVars>>
    PROVE  PanelInv' /\ N!StopsPaying
<1>1. CtxInv' /\ MapInv'
  BY SetKeeps
<1>2. N!ScreenUpToDate'
  BY PublishShows
<1>3. EditInv'
  BY EditKeeps DEF PanelInv
<1>4. N!StopsPaying
  BY SetPays
<1> QED BY <1>1, <1>2, <1>3, <1>4 DEF PanelInv

\* The panel shows what it did, of contexts that did not change.
LEMMA SameShown ==
    ASSUME N!PanelAssumption, PanelInv, ctx' = ctx, contexts' = contexts,
           panelCurrent' = panelCurrent, N!Publish, UNCHANGED <<N!editVars, N!userVars>>
    PROVE  PanelInv' /\ N!StopsPaying
<1>1. CtxInv' /\ MapInv' /\ N!StopsPaying
  BY ContextsKept
<1> QED BY <1>1, PublishShows, EditKeeps DEF PanelInv

LEMMA RefreshStep ==
    ASSUME N!PanelAssumption, PanelInv, NEW i \in Slot, N!Attached(i),
           N!Set(i, N!Refresh(ctx[i])), contexts' = contexts, panelCurrent' = panelCurrent,
           N!Publish, UNCHANGED <<N!editVars, N!userVars>>
    PROVE  PanelInv' /\ N!StopsPaying
<1>1. PICK c : c = N!Refresh(ctx[i])
  OBVIOUS
<1>2. ContextOK(ctx[i]) /\ ctx[i].task \in Task
  BY HasTask DEF PanelInv, CtxInv
<1>3. ContextOK(c) /\ c.task = ctx[i].task /\ N!Set(i, c)
  BY <1>1, <1>2, RefreshOK
<1> QED BY <1>3, ShownStep

LEMMA FocusedKeeps ==
    ASSUME N!PanelAssumption, PanelInv, NEW i \in Slot, N!Focused(i)
    PROVE  PanelInv' /\ N!StopsPaying
<1>1. /\ contexts' = contexts /\ panelCurrent' = panelCurrent
      /\ UNCHANGED <<N!editVars, N!userVars>> /\ N!Publish
  BY DEF N!Focused
<1>2. CASE N!Ready /\ panelCurrent = i
  <2>1. i \in Slot /\ N!Attached(i)
    BY <1>2, CurrentSlot, PanelConstants
  <2>2. N!Set(i, N!Refresh(ctx[i]))
    BY <1>2 DEF N!Focused
  <2> QED BY <1>1, <2>1, <2>2, RefreshStep
<1>3. CASE ~(N!Ready /\ panelCurrent = i)
  <2>1. ctx' = ctx
    BY <1>3 DEF N!Focused
  <2> QED BY <1>1, <2>1, SameShown
<1> QED BY <1>2, <1>3

LEMMA ViewReadyKeeps ==
    ASSUME N!PanelAssumption, PanelInv, N!ViewReady
    PROVE  PanelInv' /\ N!StopsPaying
<1>1. /\ contexts' = contexts /\ panelCurrent' = panelCurrent
      /\ UNCHANGED <<N!editVars, N!userVars>> /\ N!Publish
  BY DEF N!ViewReady
<1>2. CASE panelCurrent # 0
  <2>1. panelCurrent \in Slot /\ N!Attached(panelCurrent)
    BY <1>2, CurrentSlot
  <2>2. N!Set(panelCurrent, N!Refresh(ctx[panelCurrent]))
    BY <1>2 DEF N!ViewReady
  <2> QED BY <1>1, <2>1, <2>2, RefreshStep
<1>3. CASE panelCurrent = 0
  <2>1. ctx' = ctx
    BY <1>3 DEF N!ViewReady
  <2> QED BY <1>1, <2>1, SameShown
<1> QED BY <1>2, <1>3

-----------------------------------------------------------------------------
(* An operation goes on *)

\* A context that waits for something else stays the task's, unseen.
LEMMA QuietStep ==
    ASSUME N!PanelAssumption, PanelInv, NEW i \in Slot, NEW c, ContextOK(c),
           c.task = ctx[i].task, c.op # "idle",
           c.op \in {"create", "send"} /\ c.op # ctx[i].op => N!Attached(i),
           N!Set(i, c), UNCHANGED <<N!editVars, N!userVars, N!Panel, panelScreen>>
    PROVE  PanelInv' /\ N!StopsPaying
<1>0. contexts' = contexts /\ panelCurrent' = panelCurrent /\ panelView' = panelView
      /\ panelScreen' = panelScreen /\ UNCHANGED <<N!editVars, N!userVars>>
  BY DEF N!Panel
<1>1. CtxInv' /\ MapInv'
  BY <1>0, SetKeeps
<1>2. N!ScreenUpToDate'
  BY <1>0, QuietShows
<1>3. EditInv'
  BY <1>0, EditKeeps DEF PanelInv
<1>4. N!StopsPaying
  BY SetPays
<1> QED BY <1>1, <1>2, <1>3, <1>4 DEF PanelInv

\* The end of perform(): the panel shows what the operation left.
LEMMA EndStep ==
    ASSUME N!PanelAssumption, PanelInv, NEW i \in Slot, NEW c, CoreOK(c),
           c.task = ctx[i].task, c.task \in Task, N!End(i, c),
           UNCHANGED <<N!editVars, N!userVars, N!Panel>>
    PROVE  PanelInv' /\ N!StopsPaying
<1>1. PICK d : d = N!Ended(i, c)
  OBVIOUS
<1>2. ContextOK(d) /\ d.op = "idle" /\ (N!Attached(i) => d.task = c.task)
  BY <1>1, EndedOK
<1>3. N!Set(i, d) /\ N!Publish
  BY <1>1 DEF N!End
<1>4. contexts' = contexts /\ panelCurrent' = panelCurrent
  BY DEF N!Panel
<1> QED BY <1>2, <1>3, <1>4, ShownStep

LEMMA StartingOK ==
    ASSUME N!PanelAssumption, PanelInv, NEW c, CoreOK(c), c.task \in Task,
           NEW kind \in {"hint", "defend"}, c.text # None => kind = "hint"
    PROVE  /\ ContextOK(N!Starting(c, kind)) /\ N!Starting(c, kind).task = c.task
           /\ N!Starting(c, kind).op = "code"
<1>1. PICK d : d = [c EXCEPT !.op = "code", !.mode = kind, !.read = buffer[c.task]]
  OBVIOUS
<1>2. d = N!Starting(c, kind)
  BY <1>1 DEF N!Starting
<1>3. c \in N!Context /\ c.task # None /\ buffer[c.task] \in Code
  BY PanelConstants DEF CoreOK, PanelInv, EditInv
<1>4. d \in N!Context
  BY <1>1, <1>3 DEF N!Context, N!Ops
<1>5. /\ d.task = c.task /\ d.op = "code" /\ d.text = c.text /\ d.mode = kind
      /\ d.subm = c.subm /\ d.hash = c.hash /\ d.session = c.session
  BY <1>1, <1>3 DEF N!Context
<1> QED BY <1>2, <1>3, <1>4, <1>5 DEF ContextOK, CoreOK, OpOK

\* A text is sent in the dialogue the context has of its task.
LEMMA SendingOK ==
    ASSUME N!PanelAssumption, NEW c, CoreOK(c), c.task \in Task, c.session # None
    PROVE  /\ ContextOK(N!Sending(c)) /\ N!Sending(c).task = c.task
           /\ N!Sending(c).op \in {"send", "sendCode"}
           /\ N!Sending(c).op = "send" => c.session.mode = "defend"
<1>1. PICK op \in {"send", "sendCode"} :
        op = IF c.session.mode = "defend" THEN "send" ELSE "sendCode"
  OBVIOUS
<1>2. PICK d : d = [c EXCEPT !.op = op, !.using = c.session]
  OBVIOUS
<1>3. d = N!Sending(c)
  BY <1>1, <1>2 DEF N!Sending
<1>4. c \in N!Context /\ c.task # None /\ c.session \in N!Session
  BY PanelConstants DEF CoreOK, N!Context
<1>5. d \in N!Context
  BY <1>2, <1>4 DEF N!Context, N!Ops
<1>6. /\ d.task = c.task /\ d.op = op /\ d.text = c.text /\ d.using = c.session
      /\ d.subm = c.subm /\ d.hash = c.hash /\ d.session = c.session
  BY <1>2, <1>4 DEF N!Context
<1> QED BY <1>1, <1>3, <1>4, <1>5, <1>6 DEF ContextOK, CoreOK, OpOK

\* perform() of a click that was made for the context's task.
LEMMA PerformedOK ==
    ASSUME N!PanelAssumption, PanelInv, NEW c, CoreOK(c), c.task \in Task,
           c.text = None, NEW m, m.task = c.task
    PROVE  /\ ContextOK(N!Performed(c, m)) /\ N!Performed(c, m).task = c.task
           /\ N!Performed(c, m).op \in {"code", "send", "sendCode"}
<1>1. PICK b : b = [c EXCEPT !.error = FALSE]
  OBVIOUS
<1>2. PICK w : w = [b EXCEPT !.text = m.task]
  OBVIOUS
<1>3. c \in N!Context /\ c.task # None
  BY PanelConstants DEF CoreOK
<1>4. CoreOK(b) /\ b.task = c.task /\ b.text = None
  <2>1. b \in N!Context
    BY <1>1, <1>3, MarksOK
  <2>2. /\ b.task = c.task /\ b.text = c.text
        /\ b.subm = c.subm /\ b.hash = c.hash /\ b.session = c.session
    BY <1>1, <1>3 DEF N!Context
  <2> QED BY <1>3, <2>1, <2>2 DEF CoreOK
<1>5. CoreOK(w) /\ w.task = c.task /\ w.session = c.session
  <2>1. b \in N!Context /\ b.session = c.session
    BY <1>1, <1>3, <1>4 DEF CoreOK, N!Context
  <2>2. w \in N!Context
    BY <1>2, <2>1 DEF N!Context
  <2>3. /\ w.task = b.task /\ w.text = m.task
        /\ w.subm = b.subm /\ w.hash = b.hash /\ w.session = b.session
    BY <1>2, <2>1 DEF N!Context
  <2> QED BY <1>3, <1>4, <2>1, <2>2, <2>3 DEF CoreOK
<1>6. CASE m.type \in {"hint", "defend"}
  <2>1. N!Performed(c, m) = N!Starting(b, m.type)
    BY <1>1, <1>6 DEF N!Performed
  <2> QED BY <1>4, <1>6, <2>1, StartingOK
<1>7. CASE m.type \notin {"hint", "defend"} /\ c.session = None
  <2>1. N!Performed(c, m) = N!Starting(w, "hint")
    BY <1>1, <1>2, <1>7 DEF N!Performed
  <2> QED BY <1>5, <2>1, StartingOK
<1>8. CASE m.type \notin {"hint", "defend"} /\ c.session # None
  <2>1. N!Performed(c, m) = N!Sending(w)
    BY <1>1, <1>2, <1>8 DEF N!Performed
  <2> QED BY <1>5, <1>8, <2>1, SendingOK
<1> QED BY <1>6, <1>7, <1>8

LEMMA OnMessageKeeps ==
    ASSUME N!PanelAssumption, PanelInv, N!OnMessage
    PROVE  PanelInv' /\ N!StopsPaying
<1>1. /\ contexts' = contexts /\ panelCurrent' = panelCurrent
      /\ UNCHANGED <<N!editVars, N!userVars>> /\ N!Publish
  BY DEF N!OnMessage
<1>2. CASE ctx' = ctx
  BY <1>1, <1>2, SameShown
<1>3. CASE panelCurrent # 0 /\ N!Set(panelCurrent, N!Refresh(ctx[panelCurrent]))
  <2>1. panelCurrent \in Slot /\ N!Attached(panelCurrent)
    BY <1>3, CurrentSlot
  <2> QED BY <1>1, <1>3, <2>1, RefreshStep
<1>4. CASE /\ panelCurrent # 0 /\ N!Takes(ctx[panelCurrent], panelInbox)
           /\ N!Set(panelCurrent, N!Performed(ctx[panelCurrent], panelInbox))
  <2>1. panelCurrent \in Slot /\ N!Attached(panelCurrent)
    BY <1>4, CurrentSlot
  <2>2. /\ CoreOK(ctx[panelCurrent]) /\ ctx[panelCurrent].task \in Task
        /\ ctx[panelCurrent].text = None
    BY <1>4, <2>1, HasTask DEF PanelInv, CtxInv, ContextOK, OpOK, N!Takes, N!Busy
  <2>3. PICK d : d = N!Performed(ctx[panelCurrent], panelInbox)
    OBVIOUS
  <2>4. ContextOK(d) /\ d.task = ctx[panelCurrent].task
    BY <1>4, <2>2, <2>3, PerformedOK DEF N!Takes
  <2>5. N!Set(panelCurrent, d)
    BY <1>4, <2>3
  <2> QED BY <1>1, <2>1, <2>4, <2>5, ShownStep
<1>5. \/ ctx' = ctx
      \/ panelCurrent # 0 /\ N!Set(panelCurrent, N!Refresh(ctx[panelCurrent]))
      \/ /\ panelCurrent # 0 /\ N!Takes(ctx[panelCurrent], panelInbox)
         /\ N!Set(panelCurrent, N!Performed(ctx[panelCurrent], panelInbox))
  BY Zenon DEF N!OnMessage
<1> QED BY <1>2, <1>3, <1>4, <1>5

\* A defense that show() asked for begins, or the refresh ends.
LEMMA AutoStartStep ==
    ASSUME N!PanelAssumption, PanelInv, NEW i \in Slot, NEW c, CoreOK(c),
           c.task = ctx[i].task, c.task \in Task, c.text = None, N!AutoStart(i, c),
           UNCHANGED <<N!editVars, N!userVars, N!Panel>>
    PROVE  PanelInv' /\ N!StopsPaying
<1>1. CASE c.auto /\ c.account = "yes" /\ c.session = None
  <2>1. PICK b : b = [c EXCEPT !.auto = FALSE]
    OBVIOUS
  <2>2. c \in N!Context /\ c.task # None
    BY PanelConstants DEF CoreOK
  <2>3. CoreOK(b) /\ b.task = c.task /\ b.text = None
    <3>1. b \in N!Context
      BY <2>1, <2>2, MarksOK
    <3>2. /\ b.task = c.task /\ b.text = c.text
          /\ b.subm = c.subm /\ b.hash = c.hash /\ b.session = c.session
      BY <2>1, <2>2 DEF N!Context
    <3> QED BY <2>2, <3>1, <3>2 DEF CoreOK
  <2>4. PICK d : d = N!Starting(b, "defend")
    OBVIOUS
  <2>5. ContextOK(d) /\ d.task = c.task /\ d.op = "code"
    BY <2>3, <2>4, StartingOK
  <2>6. N!Set(i, d) /\ panelScreen' = panelScreen
    BY <1>1, <2>1, <2>4 DEF N!AutoStart
  <2> QED BY <2>5, <2>6, QuietStep
<1>2. CASE ~(c.auto /\ c.account = "yes" /\ c.session = None)
  <2>1. N!End(i, c)
    BY <1>2 DEF N!AutoStart
  <2> QED BY <2>1, EndStep
<1> QED BY <1>1, <1>2

\* An error is caught: an attached context asks for the account.
LEMMA CaughtStep ==
    ASSUME N!PanelAssumption, PanelInv, NEW i \in Slot, NEW c, CoreOK(c),
           c.task = ctx[i].task, c.task \in Task, N!Caught(i, c),
           UNCHANGED <<N!editVars, N!userVars, N!Panel>>
    PROVE  PanelInv' /\ N!StopsPaying
<1>1. CASE N!Attached(i)
  <2>1. PICK d : d = [c EXCEPT !.op = "recover", !.error = TRUE]
    OBVIOUS
  <2>2. c \in N!Context /\ c.task # None
    BY PanelConstants DEF CoreOK
  <2>3. d \in N!Context
    BY <2>1, <2>2 DEF N!Context, N!Ops
  <2>4. /\ d.task = c.task /\ d.text = c.text /\ d.op = "recover"
        /\ d.subm = c.subm /\ d.hash = c.hash /\ d.session = c.session
    BY <2>1, <2>2 DEF N!Context
  <2>5. ContextOK(d) /\ d.task = ctx[i].task
    BY <2>2, <2>3, <2>4 DEF ContextOK, CoreOK, OpOK
  <2>6. N!Set(i, d) /\ panelScreen' = panelScreen
    BY <1>1, <2>1 DEF N!Caught
  <2> QED BY <2>4, <2>5, <2>6, QuietStep
<1>2. CASE ~N!Attached(i)
  <2>1. N!End(i, c)
    BY <1>2 DEF N!Caught
  <2> QED BY <2>1, EndStep
<1> QED BY <1>1, <1>2

LEMMA AccountAnsweredKeeps ==
    ASSUME N!PanelAssumption, PanelInv, NEW i \in Slot, N!AccountAnswered(i)
    PROVE  PanelInv' /\ N!StopsPaying
<1>1. /\ ctx[i].op = "account" /\ UNCHANGED <<N!editVars, N!userVars, N!Panel>>
  BY DEF N!AccountAnswered, N!Waits
<1>2. /\ CoreOK(ctx[i]) /\ ctx[i].task \in Task /\ ctx[i] \in N!Context
      /\ ctx[i].task # None /\ ctx[i].text = None
  BY <1>1, HasTask, PanelConstants DEF PanelInv, CtxInv, ContextOK, OpOK
<1>3. PICK a \in {"yes", "no"} :
        LET c == [ctx[i] EXCEPT !.account = a]
        IN  IF ~N!Attached(i) THEN N!End(i, c)
            ELSE IF c.subm = None
            THEN N!Set(i, [c EXCEPT !.op = "lists", !.read = buffer[c.task]])
                 /\ UNCHANGED panelScreen
            ELSE N!AutoStart(i, c)
  BY DEF N!AccountAnswered
<1>4. PICK c : c = [ctx[i] EXCEPT !.account = a]
  OBVIOUS
<1>5. CoreOK(c) /\ c.task = ctx[i].task /\ c.text = None
  <2>1. c \in N!Context
    BY <1>2, <1>4 DEF N!Context
  <2>2. /\ c.task = ctx[i].task /\ c.text = ctx[i].text
        /\ c.subm = ctx[i].subm /\ c.hash = ctx[i].hash /\ c.session = ctx[i].session
    BY <1>2, <1>4 DEF N!Context
  <2> QED BY <1>2, <2>1, <2>2 DEF CoreOK
<1>6. CASE ~N!Attached(i)
  <2>1. N!End(i, c)
    BY <1>3, <1>4, <1>6
  <2> QED BY <1>1, <1>2, <1>5, <2>1, EndStep
<1>7. CASE N!Attached(i) /\ c.subm = None
  <2>1. PICK d : d = [c EXCEPT !.op = "lists", !.read = buffer[c.task]]
    OBVIOUS
  <2>2. N!Set(i, d) /\ panelScreen' = panelScreen
    BY <1>3, <1>4, <1>7, <2>1
  <2>3. c \in N!Context /\ buffer[c.task] \in Code
    BY <1>2, <1>5 DEF CoreOK, PanelInv, EditInv
  <2>4. d \in N!Context
    BY <2>1, <2>3 DEF N!Context, N!Ops
  <2>5. /\ d.task = c.task /\ d.text = c.text /\ d.op = "lists"
        /\ d.subm = c.subm /\ d.hash = c.hash /\ d.session = c.session
    BY <2>1, <2>3 DEF N!Context
  <2>6. ContextOK(d) /\ d.task = ctx[i].task
    BY <1>2, <1>5, <2>4, <2>5 DEF ContextOK, CoreOK, OpOK
  <2> QED BY <1>1, <2>2, <2>5, <2>6, QuietStep
<1>8. CASE N!Attached(i) /\ c.subm # None
  <2>1. N!AutoStart(i, c)
    BY <1>3, <1>4, <1>8
  <2> QED BY <1>1, <1>2, <1>5, <2>1, AutoStartStep
<1> QED BY <1>6, <1>7, <1>8

LEMMA ListsAnsweredKeeps ==
    ASSUME N!PanelAssumption, PanelInv, NEW i \in Slot, N!ListsAnswered(i)
    PROVE  PanelInv' /\ N!StopsPaying
<1>1. /\ ctx[i].op = "lists" /\ UNCHANGED <<N!editVars, N!userVars, N!Panel>>
  BY DEF N!ListsAnswered, N!Waits
<1>2. /\ CoreOK(ctx[i]) /\ ctx[i].task \in Task /\ ctx[i] \in N!Context
      /\ ctx[i].task # None /\ ctx[i].text = None
  BY <1>1, HasTask, PanelConstants DEF PanelInv, CtxInv, ContextOK, OpOK
<1>3. CASE ~N!Attached(i)
  <2>1. N!End(i, ctx[i])
    BY <1>3 DEF N!ListsAnswered
  <2> QED BY <1>1, <1>2, <2>1, EndStep
<1>4. CASE N!Attached(i)
  <2>1. PICK found \in {None} \cup ({ctx[i].read} \cap passed[ctx[i].task]) :
          N!AutoStart(i, [ctx[i] EXCEPT !.subm = found, !.hash = found])
    BY <1>4 DEF N!ListsAnswered
  <2>2. found \in Code \cup {None}
    BY <1>2, <2>1 DEF PanelInv, EditInv
  <2>3. PICK c : c = [ctx[i] EXCEPT !.subm = found, !.hash = found]
    OBVIOUS
  <2>4. c \in N!Context
    BY <1>2, <2>2, <2>3, MarksOK
  <2>5. /\ c.task = ctx[i].task /\ c.text = ctx[i].text
        /\ c.subm = found /\ c.hash = found /\ c.session = ctx[i].session
    BY <1>2, <2>3 DEF N!Context
  <2>6. CoreOK(c) /\ N!AutoStart(i, c)
    BY <1>2, <2>1, <2>3, <2>4, <2>5 DEF CoreOK
  <2> QED BY <1>1, <1>2, <2>5, <2>6, AutoStartStep
<1> QED BY <1>3, <1>4

\* start() with the code: a defense is of the code its submission was checked with.
LEMMA CodeReadKeeps ==
    ASSUME N!PanelAssumption, PanelInv, NEW i \in Slot, N!CodeRead(i)
    PROVE  PanelInv' /\ N!StopsPaying
<1>1. /\ ctx[i].op = "code" /\ UNCHANGED <<N!editVars, N!userVars, N!Panel>>
  BY DEF N!CodeRead, N!Waits
<1>2. CoreOK(ctx[i]) /\ ctx[i].task \in Task /\ ctx[i] \in N!Context /\ ctx[i].task # None
  BY <1>1, HasTask, PanelConstants DEF PanelInv, CtxInv, ContextOK
<1>3. CASE ~N!Attached(i)
  <2>1. N!End(i, ctx[i])
    BY <1>3 DEF N!CodeRead
  <2> QED BY <1>1, <1>2, <2>1, EndStep
<1>4. CASE N!Attached(i) /\ ctx[i].mode = "defend" /\ ctx[i].hash # ctx[i].read
  <2>1. PICK c : c = [ctx[i] EXCEPT !.subm = None]
    OBVIOUS
  <2>2. c \in N!Context
    BY <1>2, <2>1 DEF N!Context
  <2>3. /\ c.task = ctx[i].task /\ c.text = ctx[i].text
        /\ c.subm = None /\ c.session = ctx[i].session
    BY <1>2, <2>1 DEF N!Context
  <2>4. CoreOK(c) /\ N!Caught(i, c)
    BY <1>2, <1>4, <2>1, <2>2, <2>3 DEF CoreOK, N!CodeRead
  <2> QED BY <1>1, <1>2, <2>3, <2>4, CaughtStep
<1>5. CASE N!Attached(i) /\ ~(ctx[i].mode = "defend" /\ ctx[i].hash # ctx[i].read)
  <2>1. PICK d : d = [ctx[i] EXCEPT !.op = "create", !.asked = ctx[i].subm]
    OBVIOUS
  <2>2. N!Set(i, d) /\ panelScreen' = panelScreen
    BY <1>5, <2>1 DEF N!CodeRead
  <2>3. ctx[i].subm \in Code \cup {None}
    BY <1>2 DEF N!Context
  <2>4. d \in N!Context
    BY <1>2, <2>1, <2>3 DEF N!Context, N!Ops
  <2>5. /\ d.task = ctx[i].task /\ d.text = ctx[i].text /\ d.op = "create"
        /\ d.mode = ctx[i].mode /\ d.read = ctx[i].read /\ d.asked = ctx[i].subm
        /\ d.subm = ctx[i].subm /\ d.hash = ctx[i].hash /\ d.session = ctx[i].session
    BY <1>2, <2>1 DEF N!Context
  <2>6. ContextOK(d)
    <3>1. ctx[i].text # None => ctx[i].mode = "hint"
      BY <1>1 DEF PanelInv, CtxInv, ContextOK, OpOK
    <3> QED BY <1>2, <1>5, <2>4, <2>5, <3>1 DEF ContextOK, CoreOK, OpOK
  <2> QED BY <1>1, <1>5, <2>2, <2>5, <2>6, QuietStep
<1> QED BY <1>3, <1>4, <1>5

LEMMA CreatedKeeps ==
    ASSUME N!PanelAssumption, PanelInv, NEW i \in Slot, N!Created(i)
    PROVE  PanelInv' /\ N!StopsPaying
<1>1. /\ ctx[i].op = "create" /\ UNCHANGED <<N!editVars, N!userVars, N!Panel>>
  BY DEF N!Created, N!Waits
<1>2. CoreOK(ctx[i]) /\ ctx[i].task \in Task /\ ctx[i] \in N!Context /\ ctx[i].task # None
  BY <1>1, HasTask, PanelConstants DEF PanelInv, CtxInv, ContextOK
<1>3. PICK s : s = N!NewSession(ctx[i])
  OBVIOUS
<1>4. s \in N!Session /\ s.task = ctx[i].task /\ s # None
  <2>1. /\ ctx[i].mode \in {"hint", "defend"} /\ ctx[i].asked \in Code \cup {None}
        /\ student \in Student
    BY <1>2 DEF N!Context, PanelInv, EditInv
  <2>2. s \in N!Session /\ s.task = ctx[i].task
    BY <1>2, <1>3, <2>1 DEF N!NewSession, N!Session
  <2> QED BY <2>2, PanelConstants
<1>5. PICK c : c = [ctx[i] EXCEPT !.session = s]
  OBVIOUS
<1>6. PICK empty \in BOOLEAN : N!AfterCreate(i, c, empty)
  BY <1>3, <1>5 DEF N!Created
<1>7. c \in N!Context
  BY <1>2, <1>4, <1>5 DEF N!Context
<1>8. /\ c.task = ctx[i].task /\ c.text = ctx[i].text /\ c.mode = ctx[i].mode
      /\ c.subm = ctx[i].subm /\ c.hash = ctx[i].hash /\ c.session = s
  BY <1>2, <1>5 DEF N!Context
<1>9. CoreOK(c) /\ c.session # None /\ c.task \in Task
  BY <1>2, <1>4, <1>7, <1>8 DEF CoreOK
<1>10. CASE N!Attached(i) /\ c.mode = "defend" /\ empty
  <2>1. PICK d : d = [c EXCEPT !.op = "send", !.using = s]
    OBVIOUS
  <2>2. N!Set(i, d) /\ panelScreen' = panelScreen
    BY <1>6, <1>8, <1>10, <2>1 DEF N!AfterCreate
  <2>3. d \in N!Context
    BY <1>4, <1>7, <2>1 DEF N!Context, N!Ops
  <2>4. /\ d.task = c.task /\ d.text = c.text /\ d.op = "send" /\ d.using = s
        /\ d.subm = c.subm /\ d.hash = c.hash /\ d.session = c.session
    BY <1>7, <2>1 DEF N!Context
  <2>5. ContextOK(d) /\ d.task = ctx[i].task
    BY <1>2, <1>4, <1>8, <1>9, <2>3, <2>4 DEF ContextOK, CoreOK, OpOK
  <2> QED BY <1>1, <1>10, <2>2, <2>4, <2>5, QuietStep
<1>11. CASE ~(N!Attached(i) /\ c.mode = "defend" /\ empty) /\ c.text # None
  <2>1. PICK d : d = N!Sending(c)
    OBVIOUS
  <2>2. ContextOK(d) /\ d.task = ctx[i].task /\ d.op \in {"send", "sendCode"}
    BY <1>8, <1>9, <2>1, SendingOK
  <2>3. N!Set(i, d) /\ panelScreen' = panelScreen
    BY <1>6, <1>11, <2>1 DEF N!AfterCreate
  <2>4. d.op = "sendCode"
    <3>1. ctx[i].mode = "hint"
      BY <1>1, <1>8, <1>11 DEF PanelInv, CtxInv, ContextOK, OpOK
    <3>2. c.session.mode = "hint"
      BY <1>3, <1>8, <3>1 DEF N!NewSession
    <3> QED BY <1>9, <2>1, <2>2, <3>2, SendingOK
  <2> QED BY <1>1, <2>2, <2>3, <2>4, QuietStep
<1>12. CASE ~(N!Attached(i) /\ c.mode = "defend" /\ empty) /\ c.text = None
  <2>1. N!End(i, c)
    BY <1>6, <1>12 DEF N!AfterCreate
  <2> QED BY <1>1, <1>8, <1>9, <2>1, EndStep
<1> QED BY <1>10, <1>11, <1>12

LEMMA SendCodeReadKeeps ==
    ASSUME N!PanelAssumption, PanelInv, NEW i \in Slot, N!SendCodeRead(i)
    PROVE  PanelInv' /\ N!StopsPaying
<1>1. /\ ctx[i].op = "sendCode" /\ UNCHANGED <<N!editVars, N!userVars, N!Panel>>
  BY DEF N!SendCodeRead, N!Waits
<1>2. CoreOK(ctx[i]) /\ ctx[i].task \in Task /\ ctx[i] \in N!Context /\ ctx[i].task # None
  BY <1>1, HasTask, PanelConstants DEF PanelInv, CtxInv, ContextOK
<1>3. CASE ~N!Attached(i)
  <2>1. N!End(i, ctx[i])
    BY <1>3 DEF N!SendCodeRead
  <2> QED BY <1>1, <1>2, <2>1, EndStep
<1>4. CASE N!Attached(i)
  <2>1. PICK d : d = [ctx[i] EXCEPT !.op = "send"]
    OBVIOUS
  <2>2. N!Set(i, d) /\ panelScreen' = panelScreen
    BY <1>4, <2>1 DEF N!SendCodeRead
  <2>3. d \in N!Context
    BY <1>2, <2>1 DEF N!Context, N!Ops
  <2>4. /\ d.task = ctx[i].task /\ d.text = ctx[i].text /\ d.op = "send"
        /\ d.using = ctx[i].using
        /\ d.subm = ctx[i].subm /\ d.hash = ctx[i].hash /\ d.session = ctx[i].session
    BY <1>2, <2>1 DEF N!Context
  <2>5. ctx[i].using # None /\ ctx[i].using.task = ctx[i].task
    BY <1>1 DEF PanelInv, CtxInv, ContextOK, OpOK
  <2>6. ContextOK(d)
    BY <1>2, <2>3, <2>4, <2>5 DEF ContextOK, CoreOK, OpOK
  <2> QED BY <1>1, <1>4, <2>2, <2>4, <2>6, QuietStep
<1> QED BY <1>3, <1>4

\* The dialogue that was answered is kept with the task it is about.
LEMMA AnsweredKeeps ==
    ASSUME N!PanelAssumption, PanelInv, NEW i \in Slot, N!Answered(i)
    PROVE  PanelInv' /\ N!StopsPaying
<1>1. /\ ctx[i].op = "send" /\ UNCHANGED <<N!editVars, N!userVars, N!Panel>>
  BY DEF N!Answered, N!Waits
<1>2. CoreOK(ctx[i]) /\ ctx[i].task \in Task /\ ctx[i] \in N!Context /\ ctx[i].task # None
  BY <1>1, HasTask, PanelConstants DEF PanelInv, CtxInv, ContextOK
<1>3. ctx[i].using \in N!Session /\ ctx[i].using.task = ctx[i].task
  BY <1>1, <1>2 DEF PanelInv, CtxInv, ContextOK, OpOK, N!Context
<1>4. PICK open \in {TRUE, ctx[i].using.mode # "defend"}, a \in {"yes", "no"} :
        N!End(i, [ctx[i] EXCEPT !.session = [ctx[i].using EXCEPT !.open = open],
                                !.account = a])
  BY DEF N!Answered
<1>5. PICK s : s = [ctx[i].using EXCEPT !.open = open]
  OBVIOUS
<1>6. s \in N!Session /\ s.task = ctx[i].task
  <2>1. open \in BOOLEAN
    OBVIOUS
  <2> QED BY <1>3, <1>5, <2>1 DEF N!Session
<1>7. PICK c : c = [ctx[i] EXCEPT !.session = s, !.account = a]
  OBVIOUS
<1>8. c \in N!Context
  BY <1>2, <1>6, <1>7 DEF N!Context
<1>9. /\ c.task = ctx[i].task /\ c.text = ctx[i].text
      /\ c.subm = ctx[i].subm /\ c.hash = ctx[i].hash /\ c.session = s
  BY <1>2, <1>7 DEF N!Context
<1>10. CoreOK(c) /\ N!End(i, c)
  BY <1>2, <1>4, <1>5, <1>6, <1>7, <1>8, <1>9 DEF CoreOK
<1> QED BY <1>1, <1>2, <1>9, <1>10, EndStep

LEMMA RecoveredKeeps ==
    ASSUME N!PanelAssumption, PanelInv, NEW i \in Slot, N!Recovered(i)
    PROVE  PanelInv' /\ N!StopsPaying
<1>1. /\ ctx[i].op = "recover" /\ UNCHANGED <<N!editVars, N!userVars, N!Panel>>
  BY DEF N!Recovered, N!Waits
<1>2. CoreOK(ctx[i]) /\ ctx[i].task \in Task /\ ctx[i] \in N!Context /\ ctx[i].task # None
  BY <1>1, HasTask, PanelConstants DEF PanelInv, CtxInv, ContextOK
<1>3. PICK a \in {"yes", "no", ctx[i].account} : N!End(i, [ctx[i] EXCEPT !.account = a])
  BY DEF N!Recovered
<1>4. a \in {"none", "yes", "no"}
  BY <1>2 DEF N!Context
<1>5. PICK c : c = [ctx[i] EXCEPT !.account = a]
  OBVIOUS
<1>6. c \in N!Context
  BY <1>2, <1>4, <1>5 DEF N!Context
<1>7. /\ c.task = ctx[i].task /\ c.text = ctx[i].text
      /\ c.subm = ctx[i].subm /\ c.hash = ctx[i].hash /\ c.session = ctx[i].session
  BY <1>2, <1>5 DEF N!Context
<1>8. CoreOK(c) /\ N!End(i, c)
  BY <1>2, <1>3, <1>5, <1>6, <1>7 DEF CoreOK
<1> QED BY <1>1, <1>2, <1>7, <1>8, EndStep

LEMMA RequestFailedKeeps ==
    ASSUME N!PanelAssumption, PanelInv, NEW i \in Slot, N!RequestFailed(i)
    PROVE  PanelInv' /\ N!StopsPaying
<1>1. /\ ctx[i].op \in {"account", "lists", "create", "send"} /\ N!Caught(i, ctx[i])
      /\ UNCHANGED <<N!editVars, N!userVars, N!Panel>>
  BY DEF N!RequestFailed
<1>2. CoreOK(ctx[i]) /\ ctx[i].task \in Task
  BY <1>1, HasTask DEF PanelInv, CtxInv, ContextOK
<1> QED BY <1>1, <1>2, CaughtStep

\* Steps of the editor and the page that no context takes part in.
LEMMA AsideKeeps ==
    ASSUME N!PanelAssumption, PanelInv,
           \/ N!Login \/ N!Hide \/ N!Unhide \/ N!Dispose
           \/ N!ClickStart \/ N!ClickSend \/ N!ClickRefresh
    PROVE  PanelInv' /\ N!StopsPaying
<1>1. ctx' = ctx /\ contexts' = contexts /\ panelCurrent' = panelCurrent
  BY DEF N!Login, N!Hide, N!Unhide, N!Dispose, N!ClickStart, N!ClickSend, N!ClickRefresh,
         N!Click, N!Panel
<1>2. EditInv'
  <2>1. CASE N!Login
    BY <2>1 DEF N!Login, PanelInv, EditInv, N!editVars
  <2>2. CASE ~N!Login
    BY <2>2, EditKeeps DEF N!Hide, N!Unhide, N!Dispose, N!ClickStart, N!ClickSend,
         N!ClickRefresh, N!Click, PanelInv
  <2> QED BY <2>1, <2>2
<1>3. N!ScreenUpToDate'
  <2>1. CASE N!Dispose
    BY <2>1 DEF N!Dispose, N!ScreenUpToDate, N!Ready
  <2>2. CASE ~N!Dispose
    <3>1. panelScreen' = panelScreen /\ (N!Ready' => N!Ready)
      BY <2>2 DEF N!Login, N!Hide, N!Unhide, N!ClickStart, N!ClickSend, N!ClickRefresh,
           N!Click, N!Panel, N!Ready
    <3> QED BY <1>1, <3>1, ScreenKept
  <2> QED BY <2>1, <2>2
<1> QED BY <1>1, <1>2, <1>3, ContextsKept DEF PanelInv

LEMMA PanelKeeps ==
    ASSUME N!PanelAssumption, PanelInv, N!Next
    PROVE  PanelInv' /\ N!StopsPaying
<1>1. CASE \E t \in Task : N!TaskStep(t)
  BY <1>1, TaskStepKeeps
<1>2. CASE \E i \in Slot : N!Focused(i)
  BY <1>2, FocusedKeeps
<1>3. ASSUME NEW i \in Slot, N!OperationStep(i) PROVE PanelInv' /\ N!StopsPaying
  BY <1>3, AccountAnsweredKeeps, ListsAnsweredKeeps, CodeReadKeeps, CreatedKeeps,
     SendCodeReadKeeps, AnsweredKeeps, RequestFailedKeeps, RecoveredKeeps DEF N!OperationStep
<1>4. CASE N!BeginLogin
  <2>1. CtxInv' /\ MapInv' /\ N!ScreenUpToDate' /\ N!StopsPaying
    BY <1>4, CloseKeeps DEF N!BeginLogin
  <2>2. EditInv'
    BY <1>4 DEF N!BeginLogin, PanelInv, EditInv, N!editVars
  <2> QED BY <2>1, <2>2 DEF PanelInv
<1>5. CASE N!RecreateApi
  <2>1. CtxInv' /\ MapInv' /\ N!ScreenUpToDate' /\ N!StopsPaying
    BY <1>5, CloseKeeps DEF N!RecreateApi
  <2>2. EditInv'
    BY <1>5 DEF N!RecreateApi, PanelInv, EditInv, N!editVars
  <2> QED BY <2>1, <2>2 DEF PanelInv
<1>6. CASE \/ N!Login \/ N!Hide \/ N!Unhide \/ N!Dispose
           \/ N!ClickStart \/ N!ClickSend \/ N!ClickRefresh
  BY <1>6, AsideKeeps
<1>7. CASE N!ViewReady
  BY <1>7, ViewReadyKeeps
<1>8. CASE N!OnMessage
  BY <1>8, OnMessageKeeps
<1> QED BY <1>1, <1>2, <1>3, <1>4, <1>5, <1>6, <1>7, <1>8 DEF N!Next

LEMMA PanelStays ==
    ASSUME N!PanelAssumption, PanelInv, UNCHANGED N!vars
    PROVE  PanelInv' /\ N!StopsPaying
<1>1. /\ ctx' = ctx /\ contexts' = contexts /\ panelCurrent' = panelCurrent
      /\ panelScreen' = panelScreen /\ panelView' = panelView
      /\ UNCHANGED <<N!editVars, N!userVars>>
  BY DEF N!vars, N!editVars, N!userVars
<1> QED BY <1>1, ContextsKept, ScreenKept, EditKeeps DEF PanelInv, N!Ready

LEMMA PanelInit ==
    ASSUME N!PanelAssumption, N!Init
    PROVE  PanelInv
<1>1. EditInv
  BY DEF N!Init, EditInv
<1>2. CtxInv
  <2>1. ContextOK(N!Blank) /\ N!Blank \in N!Context
    BY BlankOK DEF ContextOK, CoreOK
  <2> QED BY <2>1 DEF N!Init, CtxInv
<1>3. MapInv
  BY DEF N!Init, MapInv
<1>4. N!ScreenUpToDate
  BY DEF N!Init, N!ScreenUpToDate, N!Ready
<1> QED BY <1>1, <1>2, <1>3, <1>4 DEF PanelInv

LEMMA PanelTells ==
    ASSUME N!PanelAssumption, PanelInv
    PROVE  /\ N!TypeOK /\ N!MessageGoesToItsTask /\ N!DefendsCheckedCode
           /\ N!SessionOfTask /\ N!ScreenUpToDate
<1>1. N!TypeOK
  BY DEF PanelInv, EditInv, CtxInv, MapInv, ContextOK, CoreOK, N!TypeOK
<1>2. N!MessageGoesToItsTask /\ N!DefendsCheckedCode /\ N!SessionOfTask
  BY DEF PanelInv, CtxInv, ContextOK, CoreOK, OpOK, N!MessageGoesToItsTask,
         N!DefendsCheckedCode, N!SessionOfTask
<1> QED BY <1>1, <1>2 DEF PanelInv

\* assistantPanel.ts:54-76, 93-97, 128-185: a text goes to the dialogue of the task it was
\* typed for, a defense is of the code that was checked, a dialogue is kept with its task,
\* and the page shows the current context, whatever was opened while an answer was awaited.
THEOREM PanelIsOfItsTask ==
    ASSUME N!PanelAssumption
    PROVE  N!Spec => [](/\ N!TypeOK /\ N!MessageGoesToItsTask /\ N!DefendsCheckedCode
                        /\ N!SessionOfTask /\ N!ScreenUpToDate)
<1>1. N!Init => PanelInv
  BY PanelInit
<1>2. PanelInv /\ [N!Next]_N!vars => PanelInv'
  BY PanelKeeps, PanelStays
<1>3. PanelInv => /\ N!TypeOK /\ N!MessageGoesToItsTask /\ N!DefendsCheckedCode
                  /\ N!SessionOfTask /\ N!ScreenUpToDate
  BY PanelTells
<1> QED BY <1>1, <1>2, <1>3, PTL DEF N!Spec

\* assistantPanel.ts:47-52, 99-101, 128-149: after close() an operation that was running
\* calls no model any more.
THEOREM ClosedCallsNobody ==
    ASSUME N!PanelAssumption
    PROVE  N!Spec => [][N!StopsPaying]_N!vars
<1>1. N!Init => PanelInv
  BY PanelInit
<1>2. PanelInv /\ [N!Next]_N!vars => PanelInv' /\ [N!StopsPaying]_N!vars
  BY PanelKeeps, PanelStays
<1> QED BY <1>1, <1>2, PTL DEF N!Spec

-----------------------------------------------------------------------------
(* The task view, the status bar and the results of checks *)

CONSTANTS Op, MaxActs

VARIABLES acts, offline, files, editor, choice, view, viewCurrent, results, screen, inbox,
          bar, separate, op

V == INSTANCE TaskView WITH current <- viewCurrent

MaybeTask == Task \cup {None}
ViewKinds == {"idle", "manifest", "meta", "open", "focus", "load", "check", "defend"}
Thens == {"end", "bar", "py", "defend"}
Functions == [kind : ViewKinds, task : Task \cup {None}, fresh : BOOLEAN, then : Thens,
              run : 0 .. MaxActs, of : Task \cup {None}]
Bars == [task : Task \cup {None}, score : Task \cup {None}, checking : BOOLEAN, error : BOOLEAN]
Screens == [task : Task \cup {None}, status : 0 .. MaxActs, result : 0 .. MaxActs,
            loading : BOOLEAN, error : BOOLEAN]
Refs == [task : Task \cup {None}, status : 0 .. MaxActs]

\* A load that is not outdated is of the current task, in a side bar that is ready.
FreshLoad(f) == f.kind = "load" /\ f.fresh
FreshInv == \A s \in Op : FreshLoad(op[s]) =>
                view = "ready" /\ op[s].of = viewCurrent.task /\ op[s].of # None
\* Every function but a load is about a task.
NamedInv == \A s \in Op : op[s].kind \in {"manifest", "meta", "open", "focus", "check"}
                            => op[s].task \in Task
\* A side bar that is not ready shows nothing; of a task's results it shows the last,
\* or none while the task's data is on its way.
ScreenInv ==
    /\ view # "ready" => screen = V!Blank
    /\ screen.task # None => screen.result \in {0, results[screen.task]}
\* What a function that waits, f, keeps when another goes on.
Alike(f, g) == /\ f.kind = g.kind /\ f.task = g.task /\ f.of = g.of
               /\ f.kind = "load" => f.fresh = g.fresh
Put(o, s, f) == [o EXCEPT ![s] = f]
\* Slot s alone changed between o and p.
Only(o, p, s) == \A j \in Op : j # s => Alike(p[j], o[j])

-----------------------------------------------------------------------------
(* Slots *)

LEMMA Outdated ==
    ASSUME NEW o \in [Op -> Functions], NEW kind
    PROVE  /\ V!Outdate(o, kind) \in [Op -> Functions]
           /\ \A s \in Op :
                /\ V!Outdate(o, kind)[s].kind = o[s].kind /\ V!Outdate(o, kind)[s].task = o[s].task
                /\ V!Outdate(o, kind)[s].of = o[s].of
                /\ V!Outdate(o, kind)[s].fresh = (o[s].fresh /\ o[s].kind # kind)
<1>1. ASSUME NEW s \in Op
      PROVE  /\ V!Outdate(o, kind)[s] \in Functions
             /\ V!Outdate(o, kind)[s].kind = o[s].kind /\ V!Outdate(o, kind)[s].task = o[s].task
             /\ V!Outdate(o, kind)[s].of = o[s].of
             /\ V!Outdate(o, kind)[s].fresh = (o[s].fresh /\ o[s].kind # kind)
  <2>1. PICK f \in Functions : f = o[s]
    OBVIOUS
  <2>2. PICK b \in BOOLEAN : b = (f.fresh /\ f.kind # kind)
    OBVIOUS
  <2>3. V!Outdate(o, kind)[s] = [f EXCEPT !.fresh = b]
    BY <2>1, <2>2, Zenon DEF V!Outdate
  <2>4. [f EXCEPT !.fresh = b] \in Functions
    BY DEF Functions
  <2>5. /\ [f EXCEPT !.fresh = b].kind = f.kind /\ [f EXCEPT !.fresh = b].task = f.task
        /\ [f EXCEPT !.fresh = b].of = f.of /\ [f EXCEPT !.fresh = b].fresh = b
    BY DEF Functions
  <2> QED BY <2>1, <2>2, <2>3, <2>4, <2>5
<1>2. V!Outdate(o, kind) \in [Op -> Functions]
  <2>1. V!Outdate(o, kind) = [s \in Op |-> V!Outdate(o, kind)[s]]
    BY DEF V!Outdate
  <2> QED BY <1>1, <2>1
<1> QED BY <1>1, <1>2

LEMMA Waits ==
    ASSUME NEW o \in [Op -> Functions], NEW s \in Op, NEW kind \in ViewKinds,
           NEW t \in MaybeTask, NEW then \in Thens, NEW run \in 0 .. MaxActs,
           NEW u \in MaybeTask,
           NEW p, p = Put(o, s, V!Waiting(kind, t, then, run, u))
    PROVE  /\ p \in [Op -> Functions]
           /\ p[s].kind = kind /\ p[s].task = t /\ p[s].fresh /\ p[s].of = u /\ p[s].run = run
           /\ Only(o, p, s)
<1>1. PICK f : f = V!Waiting(kind, t, then, run, u)
  OBVIOUS
<1>2. f \in Functions
  BY <1>1 DEF Functions, V!Waiting, MaybeTask
<1>3. f.kind = kind /\ f.task = t /\ f.fresh /\ f.of = u /\ f.run = run
  BY <1>1 DEF V!Waiting
<1>4. p \in [Op -> Functions] /\ p[s] = f /\ \A j \in Op : j # s => p[j] = o[j]
  BY <1>1, <1>2 DEF Put
<1>5. Only(o, p, s)
  BY <1>4 DEF Only, Alike
<1> QED BY <1>3, <1>4, <1>5

LEMMA BarsGiven ==
    ASSUME NEW b \in Bars, NEW t \in Task \cup {None}
    PROVE  /\ V!SetTask(b, t) \in Bars /\ ~V!SetTask(b, t).checking
           /\ V!SetChecking(b) \in Bars
           /\ V!SetCheckResult(t) \in Bars /\ ~V!SetCheckResult(t).checking
           /\ V!SetError(b) \in Bars /\ ~V!SetError(b).checking
<1>1. V!SetTask(b, t) \in Bars /\ ~V!SetTask(b, t).checking
  BY DEF V!SetTask, Bars
<1>2. V!SetChecking(b) \in Bars
  BY DEF V!SetChecking, Bars
<1>3. V!SetCheckResult(t) \in Bars /\ ~V!SetCheckResult(t).checking
  BY DEF V!SetCheckResult, Bars
<1>4. V!SetError(b) \in Bars /\ ~V!SetError(b).checking
  BY DEF V!SetError, Bars
<1> QED BY <1>1, <1>2, <1>3, <1>4

LEMMA Freed ==
    ASSUME V!TaskViewAssumption, NEW o \in [Op -> Functions], NEW s \in Op
    PROVE  /\ [o EXCEPT ![s] = V!Idle] \in [Op -> Functions]
           /\ [o EXCEPT ![s] = V!Idle][s].kind = "idle"
           /\ Only(o, [o EXCEPT ![s] = V!Idle], s)
<1>1. V!Idle \in Functions /\ V!Idle.kind = "idle"
  <2>1. 0 \in 0 .. MaxActs
    BY DEF V!TaskViewAssumption
  <2> QED BY <2>1 DEF Functions, V!Idle, ViewKinds, Thens
<1> QED BY <1>1 DEF Only, Alike

\* followEditor: the editor's manifest is read.
LEMMA Followed ==
    ASSUME V!TaskViewAssumption, NEW o \in [Op -> Functions], NEW s \in Op, NEW t \in Task,
           op' = V!FollowEditor(o, s, t)
    PROVE  /\ op' \in [Op -> Functions] /\ op'[s].kind = "manifest" /\ op'[s].task = t
           /\ Only(o, op', s)
<1>1. PICK q : q = V!Outdate(o, "manifest")
  OBVIOUS
<1>2. /\ q \in [Op -> Functions]
      /\ \A j \in Op : /\ q[j].kind = o[j].kind /\ q[j].task = o[j].task /\ q[j].of = o[j].of
                       /\ q[j].fresh = (o[j].fresh /\ o[j].kind # "manifest")
  BY <1>1, Outdated
<1>3. op' = Put(q, s, V!Waiting("manifest", t, "bar", 0, None))
  BY <1>1, Zenon DEF V!FollowEditor, V!Wait, Put
<1>4. op' \in [Op -> Functions] /\ op'[s].kind = "manifest" /\ op'[s].task = t /\ Only(q, op', s)
  <2>1. /\ "manifest" \in ViewKinds /\ "bar" \in Thens /\ t \in MaybeTask
        /\ 0 \in 0 .. MaxActs /\ None \in MaybeTask
    BY DEF ViewKinds, Thens, V!TaskViewAssumption, MaybeTask
  <2> QED BY <1>2, <1>3, <2>1, Waits
<1>5. \A j \in Op : o[j].fresh \in BOOLEAN
  BY DEF Functions
<1>6. Only(o, op', s)
  BY <1>2, <1>4, <1>5 DEF Only, Alike
<1> QED BY <1>4, <1>6

\* A file that comes to the front is followed; else the function is over.
LEMMA Opened ==
    ASSUME V!TaskViewAssumption, NEW o \in [Op -> Functions], NEW s \in Op, NEW t,
           editor \in Task \cup {None}, files' \subseteq Task, V!OpenTaskPy(o, s, t)
    PROVE  /\ op' \in [Op -> Functions] /\ editor' \in Task \cup {None}
           /\ op'[s].kind \in {"idle", "manifest"}
           /\ op'[s].kind = "manifest" => op'[s].task \in Task
           /\ Only(o, op', s)
<1>1. CASE t \in files' /\ editor # t
  <2>1. t \in Task /\ editor' = t /\ op' = V!FollowEditor(o, s, t)
    BY <1>1 DEF V!OpenTaskPy
  <2>2. /\ op' \in [Op -> Functions] /\ op'[s].kind = "manifest" /\ op'[s].task = t
        /\ Only(o, op', s)
    BY <2>1, Followed
  <2> QED BY <2>1, <2>2
<1>2. CASE ~(t \in files' /\ editor # t)
  <2>1. editor' = editor /\ op' = [o EXCEPT ![s] = V!Idle]
    BY <1>2 DEF V!OpenTaskPy
  <2> QED BY <2>1, Freed
<1> QED BY <1>1, <1>2

LEMMA Continued ==
    ASSUME V!TaskViewAssumption, NEW o \in [Op -> Functions], NEW s \in Op,
           NEW t \in Task \cup {None}, NEW then \in Thens, NEW b \in Bars,
           editor \in Task \cup {None}, files' \subseteq Task, V!Continue(o, s, t, then, b)
    PROVE  /\ op' \in [Op -> Functions] /\ editor' \in Task \cup {None} /\ bar' \in Bars
           /\ op'[s].kind \in {"idle", "manifest"}
           /\ op'[s].kind = "manifest" => op'[s].task \in Task
           /\ Only(o, op', s)
           /\ bar'.checking => b.checking
<1>1. bar' \in Bars /\ (bar'.checking => b.checking)
  BY BarsGiven DEF V!Continue
<1>2. CASE then = "py"
  <2>1. V!OpenTaskPy(o, s, t)
    BY <1>2 DEF V!Continue
  <2> QED BY <1>1, <2>1, Opened
<1>3. CASE then # "py"
  <2>1. editor' = editor /\ op' = [o EXCEPT ![s] = V!Idle]
    BY <1>3 DEF V!Continue
  <2> QED BY <1>1, <2>1, Freed
<1> QED BY <1>2, <1>3

LEMMA ResultGiven ==
    ASSUME NEW scr \in Screens, NEW t, NEW run \in 0 .. MaxActs
    PROVE  /\ V!SetResult(scr, t, run) \in Screens
           /\ V!SetResult(scr, t, run).task = scr.task
           /\ V!SetResult(scr, t, run).loading = scr.loading
           /\ V!SetResult(scr, t, run).error = scr.error
           /\ V!SetResult(scr, t, run).result = run
           /\ scr.task = t => V!SetResult(scr, t, run).status = run
<1>1. PICK m \in 0 .. MaxActs : m = IF scr.task = t THEN run ELSE scr.status
  BY DEF Screens
<1>2. PICK r : r = [scr EXCEPT !.result = run, !.status = m]
  OBVIOUS
<1>3. r = V!SetResult(scr, t, run)
  BY <1>1, <1>2 DEF V!SetResult, Screens
<1>4. /\ r \in Screens /\ r.task = scr.task /\ r.loading = scr.loading
      /\ r.error = scr.error /\ r.result = run /\ r.status = m
  BY <1>2 DEF Screens
<1> QED BY <1>1, <1>3, <1>4

\* pushData: the side bar waits for the data of the task it shows now, or it has nothing
\* to show and the function goes on.
LEMMA Pushed ==
    ASSUME V!TaskViewAssumption, NEW o \in [Op -> Functions], NEW s \in Op,
           NEW t \in Task \cup {None}, NEW then \in Thens, NEW b \in Bars,
           editor \in Task \cup {None}, files' \subseteq Task, viewCurrent' \in Refs,
           V!PushData(o, s, t, then, b)
    PROVE  /\ op' \in [Op -> Functions] /\ editor' \in Task \cup {None} /\ bar' \in Bars
           /\ op'[s].kind \in {"idle", "manifest", "load"}
           /\ op'[s].kind = "manifest" => op'[s].task \in Task
           /\ Only(o, op', s)
           /\ bar'.checking => b.checking
           /\ \/ /\ view' = "ready" /\ viewCurrent'.task # None
                 /\ screen' = V!SetData(screen, viewCurrent', TRUE, FALSE)
                 /\ FreshLoad(op'[s]) /\ op'[s].of = viewCurrent'.task
              \/ /\ view' # "ready" \/ viewCurrent'.task = None
                 /\ screen' = screen /\ op'[s].kind # "load"
<1>1. CASE view' = "ready" /\ viewCurrent'.task # None
  <2>1. /\ screen' = V!SetData(screen, viewCurrent', TRUE, FALSE)
        /\ op' = Put(o, s, V!Waiting("load", t, then, viewCurrent'.status, viewCurrent'.task))
        /\ bar' = b /\ editor' = editor
    BY <1>1, Zenon DEF V!PushData, Put
  <2>2. /\ viewCurrent'.status \in 0 .. MaxActs /\ viewCurrent'.task \in MaybeTask
        /\ "load" \in ViewKinds /\ t \in MaybeTask
    BY DEF Refs, ViewKinds, MaybeTask
  <2>3. /\ op' \in [Op -> Functions] /\ op'[s].kind = "load" /\ op'[s].fresh
        /\ op'[s].of = viewCurrent'.task /\ Only(o, op', s)
    BY <2>1, <2>2, Waits
  <2> QED BY <1>1, <2>1, <2>3 DEF FreshLoad
<1>2. CASE ~(view' = "ready" /\ viewCurrent'.task # None)
  <2>1. screen' = screen /\ V!Continue(o, s, t, then, b)
    BY <1>2 DEF V!PushData
  <2> QED BY <1>2, <2>1, Continued
<1> QED BY <1>1, <1>2

\* The parts of the state a function may change as it goes on.
MovedTypes == /\ editor \in Task \cup {None} /\ bar \in Bars /\ screen \in Screens
              /\ op \in [Op -> Functions]
\* The others.
HeldTypes ==
    /\ acts \in 0 .. MaxActs /\ offline \in BOOLEAN /\ files \subseteq Task
    /\ choice \in Task \cup {None} /\ view \in {"closed", "loading", "ready"}
    /\ viewCurrent \in Refs /\ results \in [Task -> 0 .. MaxActs] /\ separate \in 0 .. MaxActs
    /\ inbox \in [what : {"none", "check", "openPy"}, task : Task \cup {None}]

LEMMA ViewTypes == V!TypeOK <=> MovedTypes /\ HeldTypes
BY DEF V!TypeOK, MovedTypes, HeldTypes, Functions, ViewKinds, Thens, Bars, Screens, Refs

\* What waits is about the current task where it must be, after slot s went on.
Told == /\ FreshInv /\ NamedInv /\ ScreenInv /\ V!ShownTaskIsCurrent /\ V!LoadingMeansLoad
        /\ V!LastResultShown /\ V!SpinnerMeansCheck

ViewInv == MovedTypes /\ HeldTypes /\ Told

LEMMA NamedKept ==
    ASSUME NEW o \in [Op -> Functions], NEW s \in Op, Only(o, op', s),
           \A j \in Op : o[j].kind = op[j].kind /\ o[j].task = op[j].task,
           NamedInv,
           op'[s].kind \in {"manifest", "meta", "open", "focus", "check"} => op'[s].task \in Task
    PROVE  NamedInv'
BY DEF NamedInv, Only, Alike

LEMMA SpinKept ==
    ASSUME NEW o \in [Op -> Functions], NEW s \in Op, Only(o, op', s),
           \A j \in Op : o[j].kind = op[j].kind, V!SpinnerMeansCheck,
           op[s].kind \notin {"check", "defend"}, bar'.checking => bar.checking
    PROVE  V!SpinnerMeansCheck'
BY DEF V!SpinnerMeansCheck, Only, Alike

LEMMA LoadsOutdated ==
    ASSUME op \in [Op -> Functions], NEW o, o = V!Outdate(op, "load")
    PROVE  /\ o \in [Op -> Functions]
           /\ \A j \in Op : o[j].kind = op[j].kind /\ o[j].task = op[j].task /\ o[j].of = op[j].of
           /\ \A j \in Op : ~FreshLoad(o[j])
<1>1. /\ V!Outdate(op, "load") \in [Op -> Functions]
      /\ \A s \in Op :
           /\ V!Outdate(op, "load")[s].kind = op[s].kind
           /\ V!Outdate(op, "load")[s].task = op[s].task
           /\ V!Outdate(op, "load")[s].of = op[s].of
           /\ V!Outdate(op, "load")[s].fresh = (op[s].fresh /\ op[s].kind # "load")
  BY Outdated
<1> QED BY <1>1 DEF FreshLoad

LEMMA PushKeeps ==
    ASSUME V!TaskViewAssumption, MovedTypes, HeldTypes, Told, NEW s \in Op,
           op[s].kind \notin {"load", "check", "defend"},
           NEW o, o = op \/ o = V!Outdate(op, "load"),
           NEW t \in Task \cup {None}, NEW then \in Thens, NEW b \in Bars,
           b.checking => bar.checking,
           files' \subseteq Task, viewCurrent' \in Refs, results' = results,
           view' = view \/ (view = "loading" /\ view' = "ready"),
           viewCurrent' = viewCurrent \/ (o = V!Outdate(op, "load") /\ viewCurrent'.task # None),
           V!PushData(o, s, t, then, b)
    PROVE  MovedTypes' /\ Told'
<1>1. /\ o \in [Op -> Functions]
      /\ \A j \in Op : o[j].kind = op[j].kind /\ o[j].task = op[j].task /\ o[j].of = op[j].of
      /\ o = V!Outdate(op, "load") => \A j \in Op : ~FreshLoad(o[j])
  <2>0. op \in [Op -> Functions]
    BY DEF MovedTypes
  <2>1. o = V!Outdate(op, "load") => \A j \in Op : ~FreshLoad(o[j])
    BY <2>0, LoadsOutdated
  <2>2. CASE o = V!Outdate(op, "load")
    BY <2>0, <2>1, <2>2, LoadsOutdated
  <2>3. CASE o = op
    BY <2>0, <2>1, <2>3
  <2> QED BY <2>2, <2>3
<1>2. /\ op' \in [Op -> Functions] /\ editor' \in Task \cup {None} /\ bar' \in Bars
      /\ op'[s].kind \in {"idle", "manifest", "load"}
      /\ op'[s].kind = "manifest" => op'[s].task \in Task
      /\ Only(o, op', s)
      /\ bar'.checking => b.checking
      /\ \/ /\ view' = "ready" /\ viewCurrent'.task # None
            /\ screen' = V!SetData(screen, viewCurrent', TRUE, FALSE)
            /\ FreshLoad(op'[s]) /\ op'[s].of = viewCurrent'.task
         \/ /\ view' # "ready" \/ viewCurrent'.task = None
            /\ screen' = screen /\ op'[s].kind # "load"
  BY <1>1, Pushed DEF MovedTypes
<1>3. ASSUME NEW j \in Op \ {s}, FreshLoad(op'[j])
      PROVE  FreshLoad(op[j]) /\ op'[j].of = op[j].of /\ o = op /\ o # V!Outdate(op, "load")
  <2>1. FreshLoad(o[j]) /\ op'[j].of = o[j].of
    BY <1>2, <1>3 DEF Only, Alike, FreshLoad
  <2>2. o # V!Outdate(op, "load")
    BY <1>1, <2>1
  <2> QED BY <2>1, <2>2
<1>4. FreshInv'
  <2>1. ASSUME NEW j \in Op \ {s}, FreshLoad(op'[j])
        PROVE  view' = "ready" /\ op'[j].of = viewCurrent'.task /\ op'[j].of # None
    <3>1. FreshLoad(op[j]) /\ op'[j].of = op[j].of /\ o # V!Outdate(op, "load")
      BY <1>3, <2>1
    <3>2. view = "ready" /\ op[j].of = viewCurrent.task /\ op[j].of # None
      BY <3>1 DEF Told, FreshInv
    <3>3. viewCurrent' = viewCurrent
      BY <3>1
    <3> QED BY <3>1, <3>2, <3>3
  <2>2. FreshLoad(op'[s]) => view' = "ready" /\ op'[s].of = viewCurrent'.task /\ op'[s].of # None
    BY <1>2 DEF FreshLoad
  <2>3. \A j \in Op : FreshLoad(op'[j])
             => view' = "ready" /\ op'[j].of = viewCurrent'.task /\ op'[j].of # None
    BY <2>1, <2>2
  <2> QED BY <2>3 DEF FreshInv, FreshLoad
<1>5. NamedInv'
  BY <1>1, <1>2, NamedKept DEF Told
<1>6. V!SpinnerMeansCheck'
  BY <1>1, <1>2, SpinKept DEF Told
<1>7. CASE /\ view' = "ready" /\ viewCurrent'.task # None
           /\ screen' = V!SetData(screen, viewCurrent', TRUE, FALSE)
           /\ FreshLoad(op'[s]) /\ op'[s].of = viewCurrent'.task
  <2>1. /\ screen' \in Screens /\ screen'.task = viewCurrent'.task /\ screen'.loading
        /\ screen'.result = IF screen.task = viewCurrent'.task THEN screen.result ELSE 0
    <3>1. /\ screen \in Screens /\ viewCurrent' \in Refs /\ MaxActs \in Nat
      BY DEF MovedTypes, V!TaskViewAssumption
    <3>2. PICK d : d = V!SetData(screen, viewCurrent', TRUE, FALSE)
      OBVIOUS
    <3>3. /\ d \in Screens /\ d.task = viewCurrent'.task /\ d.loading = TRUE
          /\ d.result = IF screen.task = viewCurrent'.task THEN screen.result ELSE 0
      BY <3>1, <3>2 DEF V!SetData, Screens, Refs
    <3> QED BY <1>7, <3>2, <3>3
  <2>2. ScreenInv'
    BY <1>7, <2>1 DEF ScreenInv, Told
  <2>3. V!ShownTaskIsCurrent' /\ V!LastResultShown'
    BY <2>1 DEF V!ShownTaskIsCurrent, V!LastResultShown
  <2>4. V!LoadingMeansLoad'
    BY <1>7, <2>1 DEF V!LoadingMeansLoad, FreshLoad
  <2> QED BY <1>2, <1>4, <1>5, <1>6, <2>1, <2>2, <2>3, <2>4 DEF MovedTypes, Told
<1>8. CASE /\ view' # "ready" \/ viewCurrent'.task = None
           /\ screen' = screen /\ op'[s].kind # "load"
  <2>1. view # "ready" => screen = V!Blank
    BY DEF Told, ScreenInv
  <2>2. view' = "ready" => screen.task = None /\ ~screen.loading
    <3>1. SUFFICES ASSUME view' = "ready" PROVE screen.task = None /\ ~screen.loading
      OBVIOUS
    <3>2. viewCurrent' = viewCurrent /\ viewCurrent.task = None
      BY <1>8, <3>1
    <3>3. CASE view = "ready"
      BY <3>2, <3>3 DEF Told, FreshInv, V!ShownTaskIsCurrent, V!LoadingMeansLoad, FreshLoad
    <3>4. CASE view # "ready"
      BY <2>1, <3>4 DEF V!Blank
    <3> QED BY <3>3, <3>4
  <2>3. ScreenInv' /\ V!ShownTaskIsCurrent' /\ V!LastResultShown' /\ V!LoadingMeansLoad'
    <3>1. view' # "ready" => view # "ready"
      OBVIOUS
    <3>2. view' # "ready" => screen = V!Blank /\ ~screen.loading
      BY <2>1, <3>1 DEF V!Blank
    <3>3. view' = "ready" => viewCurrent'.task = None
      BY <1>8
    <3> QED BY <1>8, <2>2, <3>2, <3>3 DEF Told, ScreenInv, V!ShownTaskIsCurrent,
              V!LastResultShown, V!LoadingMeansLoad, V!Blank
  <2> QED BY <1>2, <1>4, <1>5, <1>6, <1>8, <2>3 DEF MovedTypes, Told
<1> QED BY <1>2, <1>7, <1>8

\* A function goes on, its part of the side bar done: the screen is told nothing.
LEMMA ContinueKeeps ==
    ASSUME V!TaskViewAssumption, MovedTypes, HeldTypes, Told, NEW s \in Op,
           op[s].kind \notin {"check", "defend"}, ~FreshLoad(op[s]),
           NEW t \in Task \cup {None}, NEW then \in Thens, NEW b \in Bars,
           b.checking => bar.checking, files' \subseteq Task,
           UNCHANGED <<results, view, viewCurrent, screen>>, V!Continue(op, s, t, then, b)
    PROVE  MovedTypes' /\ Told'
<1>1. /\ op' \in [Op -> Functions] /\ editor' \in Task \cup {None} /\ bar' \in Bars
      /\ op'[s].kind \in {"idle", "manifest"}
      /\ op'[s].kind = "manifest" => op'[s].task \in Task
      /\ Only(op, op', s)
      /\ bar'.checking => b.checking
  BY Continued DEF MovedTypes
<1>2. \A j \in Op : /\ FreshLoad(op'[j]) => FreshLoad(op[j]) /\ op'[j].of = op[j].of
                    /\ FreshLoad(op[j]) => FreshLoad(op'[j]) /\ op'[j].of = op[j].of
  BY <1>1 DEF Only, Alike, FreshLoad
<1>3. FreshInv' /\ V!LoadingMeansLoad'
  BY <1>2 DEF Told, FreshInv, V!LoadingMeansLoad, FreshLoad
<1>4. NamedInv'
  BY <1>1, NamedKept DEF Told, MovedTypes
<1>5. V!SpinnerMeansCheck'
  BY <1>1, SpinKept DEF Told, MovedTypes
<1>6. ScreenInv' /\ V!ShownTaskIsCurrent' /\ V!LastResultShown'
  BY DEF Told, ScreenInv, V!ShownTaskIsCurrent, V!LastResultShown, V!Blank
<1> QED BY <1>1, <1>3, <1>4, <1>5, <1>6 DEF MovedTypes, Told

\* show(): the side bar is told to load the task, or VS Code to open it.
LEMMA ShowTaskKeeps ==
    ASSUME V!TaskViewAssumption, ViewInv, NEW s \in Op,
           op[s].kind \notin {"load", "check", "defend"}, NEW t \in Task, NEW then \in Thens,
           NEW b \in Bars, b.checking => bar.checking, files' \subseteq Task,
           results' = results, view' = view, V!Show(s, t, then, b)
    PROVE  MovedTypes' /\ Told' /\ viewCurrent' \in Refs
<1>1. viewCurrent' \in Refs /\ viewCurrent'.task = t /\ t # None
  <2>1. viewCurrent' = [task |-> t, status |-> 0]
    BY DEF V!Show
  <2> QED BY <2>1 DEF Refs, V!TaskViewAssumption
<1>2. CASE view # "closed"
  <2>1. PICK o : o = V!Outdate(op, "load")
    OBVIOUS
  <2>2. V!PushData(o, s, t, then, b) /\ t \in Task \cup {None}
    BY <1>2, <2>1 DEF V!Show
  <2>3. MovedTypes /\ HeldTypes /\ Told
    BY DEF ViewInv
  <2> QED BY <1>1, <2>1, <2>2, <2>3, PushKeeps
<1>3. CASE view = "closed"
  <2>1. PICK o : o = V!Outdate(op, "load")
    OBVIOUS
  <2>2. /\ o \in [Op -> Functions]
        /\ \A j \in Op : o[j].kind = op[j].kind /\ o[j].task = op[j].task /\ o[j].of = op[j].of
        /\ \A j \in Op : ~FreshLoad(o[j])
    BY <2>1, LoadsOutdated DEF ViewInv, MovedTypes
  <2>3. /\ op' = Put(o, s, V!Waiting("focus", t, then, 0, None))
        /\ bar' = b /\ screen' = screen /\ editor' = editor
    BY <1>3, <2>1, Zenon DEF V!Show, V!Wait, Put
  <2>4. /\ op' \in [Op -> Functions] /\ op'[s].kind = "focus" /\ op'[s].task = t
        /\ Only(o, op', s)
    <3>1. /\ "focus" \in ViewKinds /\ t \in MaybeTask /\ 0 \in 0 .. MaxActs /\ None \in MaybeTask
      BY DEF ViewKinds, V!TaskViewAssumption, MaybeTask
    <3> QED BY <2>2, <2>3, <3>1, Waits
  <2>5. MovedTypes'
    BY <2>3, <2>4 DEF ViewInv, MovedTypes
  <2>6. FreshInv'
    BY <2>2, <2>4 DEF FreshInv, FreshLoad, Only, Alike
  <2>7. NamedInv'
    BY <2>2, <2>4, NamedKept DEF ViewInv, Told
  <2>8. V!SpinnerMeansCheck'
    BY <2>2, <2>3, <2>4, SpinKept DEF ViewInv, Told
  <2>9. /\ screen' = V!Blank /\ view' # "ready"
    BY <1>3, <2>3 DEF ViewInv, Told, ScreenInv
  <2>10. ScreenInv' /\ V!ShownTaskIsCurrent' /\ V!LoadingMeansLoad' /\ V!LastResultShown'
    BY <2>9 DEF ScreenInv, V!ShownTaskIsCurrent, V!LoadingMeansLoad, V!LastResultShown, V!Blank
  <2> QED BY <1>1, <2>5, <2>6, <2>7, <2>8, <2>10 DEF Told
<1> QED BY <1>2, <1>3

LEMMA FollowTaskKeeps ==
    ASSUME V!TaskViewAssumption, ViewInv, NEW s \in Op, op[s].kind = "manifest",
           NEW t \in Task, files' = files, results' = results, view' = view,
           V!FollowTask(op, s, t)
    PROVE  MovedTypes' /\ Told' /\ viewCurrent' \in Refs
<1>1. MovedTypes /\ HeldTypes /\ Told /\ bar \in Bars /\ files' \subseteq Task /\ "bar" \in Thens
  BY DEF ViewInv, MovedTypes, HeldTypes, Thens
<1>2. CASE viewCurrent.task = t
  <2>1. V!Continue(op, s, t, "bar", bar) /\ UNCHANGED <<results, view, viewCurrent, screen>>
    BY <1>2 DEF V!FollowTask
  <2>2. viewCurrent' \in Refs
    BY <1>1, <2>1 DEF HeldTypes
  <2>3. op[s].kind \notin {"check", "defend"} /\ ~FreshLoad(op[s]) /\ t \in Task \cup {None}
    BY DEF FreshLoad
  <2> QED BY <1>1, <2>1, <2>2, <2>3, ContinueKeeps
<1>3. CASE viewCurrent.task # t
  <2>1. PICK o : o = V!Outdate(op, "load")
    OBVIOUS
  <2>2. V!PushData(o, s, t, "bar", bar) /\ viewCurrent' = [task |-> t, status |-> 0]
    BY <1>3, <2>1 DEF V!FollowTask
  <2>3. viewCurrent' \in Refs /\ viewCurrent'.task # None /\ t \in Task \cup {None}
    BY <2>2 DEF Refs, V!TaskViewAssumption
  <2> QED BY <1>1, <2>1, <2>2, <2>3, PushKeeps
<1> QED BY <1>2, <1>3

\* Told of nothing: the functions, the side bar and the status bar are as they were.
LEMMA UntoldKeeps ==
    ASSUME Told, UNCHANGED <<op, view, viewCurrent, results, screen, bar>>
    PROVE  Told'
BY DEF Told, FreshInv, NamedInv, ScreenInv, V!ShownTaskIsCurrent, V!LoadingMeansLoad,
       V!LastResultShown, V!SpinnerMeansCheck, V!Blank

\* A function begins, or another than a load goes on, of slot s alone.
LEMMA SlotKeeps ==
    ASSUME Told, op \in [Op -> Functions], NEW s \in Op, op[s].kind # "load",
           op'[s].kind # "load", op' \in [Op -> Functions], Only(op, op', s),
           op'[s].kind \in {"manifest", "meta", "open", "focus", "check"} => op'[s].task \in Task,
           \/ op[s].kind \notin {"check", "defend"} /\ (bar'.checking => bar.checking)
           \/ op'[s].kind \in {"check", "defend"}
           \/ ~bar'.checking,
           UNCHANGED <<view, viewCurrent, results, screen>>
    PROVE  Told'
<1>1. FreshInv' /\ V!LoadingMeansLoad'
  BY DEF Told, FreshInv, V!LoadingMeansLoad, FreshLoad, Only, Alike
<1>2. NamedInv'
  BY NamedKept DEF Told
<1>3. V!SpinnerMeansCheck'
  BY DEF Told, V!SpinnerMeansCheck, Only, Alike
<1>4. ScreenInv' /\ V!ShownTaskIsCurrent' /\ V!LastResultShown'
  BY DEF Told, ScreenInv, V!ShownTaskIsCurrent, V!LastResultShown, V!Blank
<1> QED BY <1>1, <1>2, <1>3, <1>4 DEF Told

LEMMA RunCheckKeeps ==
    ASSUME V!TaskViewAssumption, ViewInv, NEW s \in Op, op[s].kind = "idle", NEW t \in Task,
           V!RunCheck(op, s, t), acts' \in 0 .. MaxActs, editor' = editor,
           UNCHANGED <<view, viewCurrent, results, screen>>
    PROVE  MovedTypes' /\ Told' /\ op'[s].task = t /\ Only(op, op', s)
<1>1. op' = Put(op, s, V!Waiting("check", t, IF offline THEN "end" ELSE "defend", acts', None)) /\ bar' = V!SetChecking(bar)
  BY Zenon DEF V!RunCheck, Put
<1>2. op \in [Op -> Functions] /\ Told /\ bar' \in Bars
  BY <1>1, BarsGiven DEF ViewInv, MovedTypes, V!SetChecking, Bars
<1>3. /\ "check" \in ViewKinds /\ (IF offline THEN "end" ELSE "defend") \in Thens
      /\ t \in MaybeTask /\ None \in MaybeTask
  BY DEF ViewKinds, Thens, MaybeTask
<1>4. /\ op' \in [Op -> Functions] /\ op'[s].kind = "check" /\ op'[s].task = t
      /\ Only(op, op', s)
  BY <1>1, <1>2, <1>3, Waits
<1>5. MovedTypes'
  BY <1>2, <1>4 DEF ViewInv, MovedTypes
<1> QED BY <1>2, <1>4, <1>5, SlotKeeps

-----------------------------------------------------------------------------
(* The student's acts *)

LEMMA ActTypes ==
    ASSUME V!TaskViewAssumption, ViewInv, V!Act
    PROVE  acts' \in 0 .. MaxActs
BY DEF V!Act, V!TaskViewAssumption, ViewInv, HeldTypes

\* The parts of the state that hold their values through a step.
LEMMA HeldKept ==
    ASSUME HeldTypes, acts' \in 0 .. MaxActs, viewCurrent' \in Refs, choice' \in Task \cup {None},
           UNCHANGED <<offline, files, view, results, inbox, separate>>
    PROVE  HeldTypes'
BY DEF HeldTypes

LEMMA SelectKeeps ==
    ASSUME V!TaskViewAssumption, ViewInv, NEW s \in Op, NEW t \in Task \cup {None}, V!Select(s, t)
    PROVE  ViewInv' /\ inbox' = inbox
<1>1. /\ op[s].kind = "idle" /\ t \in files \cup {None} /\ editor' = t
      /\ UNCHANGED <<offline, files, view, viewCurrent, results, screen, inbox, bar, separate>>
      /\ IF t = None THEN UNCHANGED <<op, choice>>
         ELSE op' = V!FollowEditor(op, s, t) /\ choice' = t
  BY DEF V!Select, V!Free
<1>2. HeldTypes'
  <2>1. acts' \in 0 .. MaxActs
    BY ActTypes DEF V!Select
  <2>2. viewCurrent' \in Refs /\ choice' \in Task \cup {None}
    BY <1>1 DEF ViewInv, HeldTypes
  <2> QED BY <1>1, <2>1, <2>2, HeldKept DEF ViewInv
<1>3. CASE t = None
  <2>1. MovedTypes' /\ op' = op
    BY <1>1, <1>3 DEF ViewInv, MovedTypes
  <2> QED BY <1>1, <1>2, <2>1, UntoldKeeps DEF ViewInv
<1>4. CASE t # None
  <2>1. t \in Task /\ op' = V!FollowEditor(op, s, t)
    BY <1>1, <1>4
  <2>2. /\ op' \in [Op -> Functions] /\ op'[s].kind = "manifest" /\ op'[s].task = t
        /\ Only(op, op', s)
    BY <2>1, Followed DEF ViewInv, MovedTypes
  <2>3. MovedTypes'
    BY <1>1, <2>2 DEF ViewInv, MovedTypes
  <2>4. Told'
    BY <1>1, <2>1, <2>2, SlotKeeps DEF ViewInv, MovedTypes
  <2> QED BY <1>1, <1>2, <2>3, <2>4 DEF ViewInv
<1> QED BY <1>3, <1>4

LEMMA OpenTaskViewKeeps ==
    ASSUME V!TaskViewAssumption, ViewInv, NEW s \in Op, V!OpenTaskView(s)
    PROVE  ViewInv' /\ inbox' = inbox
<1>1. /\ op[s].kind = "idle" /\ editor # None /\ choice' = editor
      /\ UNCHANGED <<offline, files, view, results, inbox, separate>>
      /\ IF offline THEN V!Show(s, editor, "end", V!SetTask(bar, editor))
         ELSE /\ op' = V!Wait(op, s, "meta", editor, "end")
              /\ bar' = V!SetTask(bar, editor)
              /\ UNCHANGED <<editor, viewCurrent, screen>>
  BY DEF V!OpenTaskView, V!Free
<1>2. /\ editor \in Task /\ acts' \in 0 .. MaxActs /\ files' \subseteq Task
      /\ choice' \in Task \cup {None} /\ "end" \in Thens
  BY <1>1, ActTypes DEF V!OpenTaskView, ViewInv, MovedTypes, HeldTypes, Thens
<1>3. V!SetTask(bar, editor) \in Bars /\ ~V!SetTask(bar, editor).checking
  BY <1>2, BarsGiven DEF ViewInv, MovedTypes
<1>4. MovedTypes' /\ Told' /\ viewCurrent' \in Refs
  <2>1. CASE offline
    BY <1>1, <1>2, <1>3, <2>1, ShowTaskKeeps
  <2>2. CASE ~offline
    <3>1. op' = Put(op, s, V!Waiting("meta", editor, "end", 0, None)) /\ bar' = V!SetTask(bar, editor)
      BY <1>1, <2>2, Zenon DEF V!Wait, Put
    <3>2. /\ "meta" \in ViewKinds /\ editor \in MaybeTask /\ 0 \in 0 .. MaxActs
          /\ None \in MaybeTask /\ op \in [Op -> Functions]
      BY <1>2 DEF ViewKinds, MaybeTask, V!TaskViewAssumption, ViewInv, MovedTypes
    <3>3. /\ op' \in [Op -> Functions] /\ op'[s].kind = "meta" /\ op'[s].task = editor
          /\ Only(op, op', s)
      BY <1>2, <3>1, <3>2, Waits
    <3>4. UNCHANGED <<view, viewCurrent, results, screen, editor>>
      BY <1>1, <2>2
    <3>5. Told'
      BY <1>1, <1>2, <1>3, <3>1, <3>2, <3>3, <3>4, SlotKeeps DEF ViewInv
    <3>6. MovedTypes' /\ viewCurrent' \in Refs
      BY <1>3, <3>1, <3>3, <3>4 DEF ViewInv, MovedTypes, HeldTypes
    <3> QED BY <3>5, <3>6
  <2> QED BY <2>1, <2>2
<1> QED BY <1>1, <1>2, <1>4, HeldKept DEF ViewInv

LEMMA OpenTaskKeeps ==
    ASSUME V!TaskViewAssumption, ViewInv, NEW s \in Op, NEW t \in Task, V!OpenTask(s, t)
    PROVE  ViewInv' /\ inbox' = inbox
<1>1. /\ op[s].kind = "idle" /\ choice' = t
      /\ UNCHANGED <<offline, files, view, results, inbox, separate>>
      /\ IF t \in files THEN V!Show(s, t, "py", V!SetTask(bar, t))
         ELSE /\ op' = V!Wait(op, s, "open", t, "py")
              /\ UNCHANGED <<editor, viewCurrent, screen, bar>>
  BY DEF V!OpenTask, V!Free
<1>2. /\ acts' \in 0 .. MaxActs /\ files' \subseteq Task
      /\ choice' \in Task \cup {None} /\ "py" \in Thens
  BY <1>1, ActTypes DEF V!OpenTask, ViewInv, MovedTypes, HeldTypes, Thens
<1>3. V!SetTask(bar, t) \in Bars /\ ~V!SetTask(bar, t).checking
  BY BarsGiven DEF ViewInv, MovedTypes
<1>4. MovedTypes' /\ Told' /\ viewCurrent' \in Refs
  <2>1. CASE t \in files
    BY <1>1, <1>2, <1>3, <2>1, ShowTaskKeeps
  <2>2. CASE t \notin files
    <3>1. op' = Put(op, s, V!Waiting("open", t, "py", 0, None))
      BY <1>1, <2>2, Zenon DEF V!Wait, Put
    <3>2. /\ "open" \in ViewKinds /\ t \in MaybeTask /\ 0 \in 0 .. MaxActs
          /\ None \in MaybeTask /\ op \in [Op -> Functions]
      BY <1>2 DEF ViewKinds, MaybeTask, V!TaskViewAssumption, ViewInv, MovedTypes
    <3>3. /\ op' \in [Op -> Functions] /\ op'[s].kind = "open" /\ op'[s].task = t
          /\ Only(op, op', s)
      BY <1>2, <3>1, <3>2, Waits
    <3>4. UNCHANGED <<view, viewCurrent, results, screen, editor, bar>>
      BY <1>1, <2>2
    <3>5. Told'
      BY <1>1, <1>2, <3>1, <3>2, <3>3, <3>4, SlotKeeps DEF ViewInv
    <3>6. MovedTypes' /\ viewCurrent' \in Refs
      BY <3>1, <3>3, <3>4 DEF ViewInv, MovedTypes, HeldTypes
    <3> QED BY <3>5, <3>6
  <2> QED BY <2>1, <2>2
<1> QED BY <1>1, <1>2, <1>4, HeldKept DEF ViewInv

LEMMA HintsKeeps ==
    ASSUME V!TaskViewAssumption, ViewInv, NEW s \in Op, NEW t \in Task, V!Hints(s, t)
    PROVE  ViewInv' /\ inbox' = inbox
<1>1. /\ op[s].kind = "idle" /\ choice' = t
      /\ UNCHANGED <<offline, files, view, results, inbox, separate>>
      /\ V!Show(s, t, "end", V!SetTask(bar, t))
  BY DEF V!Hints, V!Free
<1>2. /\ acts' \in 0 .. MaxActs /\ files' \subseteq Task
      /\ choice' \in Task \cup {None} /\ "end" \in Thens
  BY <1>1, ActTypes DEF V!Hints, ViewInv, MovedTypes, HeldTypes, Thens
<1>3. V!SetTask(bar, t) \in Bars /\ ~V!SetTask(bar, t).checking
  BY BarsGiven DEF ViewInv, MovedTypes
<1>4. MovedTypes' /\ Told' /\ viewCurrent' \in Refs
  BY <1>1, <1>2, <1>3, ShowTaskKeeps
<1> QED BY <1>1, <1>2, <1>4, HeldKept DEF ViewInv

LEMMA CheckKeeps ==
    ASSUME V!TaskViewAssumption, ViewInv, NEW s \in Op, NEW t \in Task, V!Check(s, t)
    PROVE  ViewInv' /\ inbox' = inbox
<1>1. /\ op[s].kind = "idle" /\ V!RunCheck(op, s, t)
      /\ UNCHANGED <<offline, files, editor, choice, view, viewCurrent, results,
                     screen, inbox, separate>>
  BY DEF V!Check, V!Free
<1>2. acts' \in 0 .. MaxActs
  BY ActTypes DEF V!Check
<1>3. MovedTypes' /\ Told'
  BY <1>1, <1>2, RunCheckKeeps
<1>4. viewCurrent' \in Refs /\ choice' \in Task \cup {None}
  BY <1>1 DEF ViewInv, HeldTypes
<1> QED BY <1>1, <1>2, <1>3, <1>4, HeldKept DEF ViewInv

LEMMA ClickKeeps ==
    ASSUME V!TaskViewAssumption, ViewInv, NEW what \in {"check", "openPy"}, V!Click(what)
    PROVE  ViewInv' /\ op' = op
<1>1. /\ inbox' = [what |-> what, task |-> screen.task]
      /\ UNCHANGED <<offline, files, editor, choice, view, viewCurrent, results,
                     screen, bar, separate, op>>
  BY DEF V!Click
<1>2. acts' \in 0 .. MaxActs
  BY ActTypes DEF V!Click
<1>3. screen.task \in Task \cup {None}
  BY DEF ViewInv, MovedTypes, Screens
<1>4. HeldTypes'
  BY <1>1, <1>2, <1>3 DEF ViewInv, HeldTypes
<1>5. MovedTypes'
  BY <1>1 DEF ViewInv, MovedTypes
<1> QED BY <1>1, <1>4, <1>5, UntoldKeeps DEF ViewInv

LEMMA DisposeKeeps ==
    ASSUME V!TaskViewAssumption, ViewInv, V!Dispose
    PROVE  ViewInv' /\ \A s \in Op : op'[s].kind = op[s].kind
<1>1. /\ view' = "closed" /\ screen' = V!Blank /\ inbox' = [what |-> "none", task |-> None]
      /\ op' = V!Outdate(op, "load")
      /\ UNCHANGED <<offline, files, editor, choice, viewCurrent, results, bar, separate>>
  BY DEF V!Dispose
<1>2. acts' \in 0 .. MaxActs
  BY ActTypes DEF V!Dispose
<1>3. /\ op' \in [Op -> Functions]
      /\ \A j \in Op : op'[j].kind = op[j].kind /\ op'[j].task = op[j].task /\ op'[j].of = op[j].of
      /\ \A j \in Op : ~FreshLoad(op'[j])
  BY <1>1, LoadsOutdated DEF ViewInv, MovedTypes
<1>4. HeldTypes'
  BY <1>1, <1>2 DEF ViewInv, HeldTypes
<1>5. MovedTypes'
  <2>1. screen' \in Screens
    BY <1>1 DEF V!Blank, Screens, V!TaskViewAssumption
  <2> QED BY <1>1, <1>3, <2>1 DEF ViewInv, MovedTypes
<1>6. FreshInv' /\ NamedInv' /\ V!SpinnerMeansCheck'
  BY <1>1, <1>3 DEF ViewInv, Told, FreshInv, FreshLoad, NamedInv, V!SpinnerMeansCheck
<1>7. ScreenInv' /\ V!ShownTaskIsCurrent' /\ V!LoadingMeansLoad' /\ V!LastResultShown'
  BY <1>1 DEF ScreenInv, V!ShownTaskIsCurrent, V!LoadingMeansLoad, V!LastResultShown, V!Blank
<1> QED BY <1>3, <1>4, <1>5, <1>6, <1>7 DEF ViewInv, Told

LEMMA CloseResultsKeeps ==
    ASSUME V!TaskViewAssumption, ViewInv, V!CloseResults \/ V!SwitchMode \/ V!ResolveView
    PROVE  ViewInv' /\ inbox' = inbox
<1>1. CASE V!CloseResults
  <2>1. acts' \in 0 .. MaxActs
    BY <1>1, ActTypes DEF V!CloseResults
  <2>2. HeldTypes' /\ MovedTypes' /\ inbox' = inbox
    BY <1>1, <2>1 DEF V!CloseResults, ViewInv, HeldTypes, MovedTypes, V!TaskViewAssumption
  <2> QED BY <1>1, <2>2, UntoldKeeps DEF V!CloseResults, ViewInv
<1>2. CASE V!SwitchMode
  <2>1. acts' \in 0 .. MaxActs
    BY <1>2, ActTypes DEF V!SwitchMode
  <2>2. HeldTypes' /\ MovedTypes' /\ inbox' = inbox
    BY <1>2, <2>1 DEF V!SwitchMode, ViewInv, HeldTypes, MovedTypes
  <2> QED BY <1>2, <2>2, UntoldKeeps DEF V!SwitchMode, ViewInv
<1>3. CASE V!ResolveView
  <2>1. /\ view = "closed" /\ view' = "loading"
        /\ UNCHANGED <<acts, offline, files, editor, choice, viewCurrent, results, screen,
                       inbox, bar, separate, op>>
    BY <1>3 DEF V!ResolveView
  <2>2. HeldTypes' /\ MovedTypes'
    BY <2>1 DEF ViewInv, HeldTypes, MovedTypes
  <2>3. Told'
    BY <2>1 DEF ViewInv, Told, FreshInv, FreshLoad, NamedInv, ScreenInv, V!ShownTaskIsCurrent,
         V!LoadingMeansLoad, V!LastResultShown, V!SpinnerMeansCheck, V!Blank
  <2> QED BY <2>1, <2>2, <2>3 DEF ViewInv
<1> QED BY <1>1, <1>2, <1>3

-----------------------------------------------------------------------------
(* Answers and clicks *)

LEMMA ViewIsReadyKeeps ==
    ASSUME V!TaskViewAssumption, ViewInv, NEW s \in Op, V!ViewReady(s)
    PROVE  ViewInv' /\ inbox' = inbox
<1>1. /\ view = "loading" /\ view' = "ready" /\ op[s].kind = "idle"
      /\ UNCHANGED <<acts, offline, files, choice, viewCurrent, results, inbox, separate>>
      /\ V!PushData(op, s, viewCurrent.task, "end", bar)
  BY DEF V!ViewReady, V!Free
<1>2. /\ viewCurrent \in Refs /\ viewCurrent.task \in Task \cup {None} /\ "end" \in Thens
      /\ bar \in Bars /\ files' \subseteq Task /\ viewCurrent' \in Refs
      /\ MovedTypes /\ HeldTypes /\ Told
  BY <1>1 DEF ViewInv, HeldTypes, MovedTypes, Refs, Thens
<1>3. MovedTypes' /\ Told'
  BY <1>1, <1>2, PushKeeps
<1>4. HeldTypes'
  BY <1>1 DEF ViewInv, HeldTypes
<1> QED BY <1>1, <1>3, <1>4 DEF ViewInv

\* A click for the current task checks it or opens its code; another is dropped.
LEMMA DeliverKeeps ==
    ASSUME V!TaskViewAssumption, ViewInv, NEW s \in Op, V!Deliver(s)
    PROVE  ViewInv' /\ V!ClickChecks
<1>1. /\ op[s].kind = "idle" /\ inbox' = [what |-> "none", task |-> None]
      /\ UNCHANGED <<acts, offline, files, view, viewCurrent, results, separate>>
  BY DEF V!Deliver, V!Free
<1>2. HeldTypes /\ MovedTypes /\ Told /\ op \in [Op -> Functions] /\ acts' \in 0 .. MaxActs
  BY <1>1 DEF ViewInv, MovedTypes, HeldTypes
<1>3. CASE /\ inbox.what = "check" /\ V!Accepts(inbox) /\ V!HasPy(viewCurrent.task)
           /\ V!RunCheck(op, s, viewCurrent.task) /\ UNCHANGED <<editor, choice, screen>>
  <2>1. viewCurrent.task \in Task
    BY <1>2, <1>3 DEF V!HasPy, HeldTypes
  <2>2. MovedTypes' /\ Told' /\ op'[s].task = viewCurrent.task /\ Only(op, op', s)
    BY <1>1, <1>2, <1>3, <2>1, RunCheckKeeps
  <2>3. HeldTypes'
    BY <1>1, <1>3 DEF ViewInv, HeldTypes
  <2>4. V!ClickChecks
    BY <1>3, <2>2 DEF V!ClickChecks, V!Accepts, Only, Alike
  <2> QED BY <2>2, <2>3, <2>4 DEF ViewInv
<1>4. CASE /\ inbox.what = "openPy" /\ choice' = viewCurrent.task
           /\ V!OpenTaskPy(op, s, viewCurrent.task) /\ UNCHANGED <<screen, bar>>
  <2>1. editor \in Task \cup {None} /\ files' \subseteq Task
    BY <1>1, <1>2 DEF MovedTypes, HeldTypes
  <2>2. /\ op' \in [Op -> Functions] /\ editor' \in Task \cup {None}
        /\ op'[s].kind \in {"idle", "manifest"}
        /\ op'[s].kind = "manifest" => op'[s].task \in Task
        /\ Only(op, op', s)
    BY <1>2, <1>4, <2>1, Opened
  <2>3. Told'
    BY <1>1, <1>2, <1>4, <2>2, SlotKeeps
  <2>4. MovedTypes'
    BY <1>2, <1>4, <2>2 DEF MovedTypes
  <2>5. HeldTypes'
    BY <1>1, <1>4 DEF ViewInv, HeldTypes, Refs
  <2> QED BY <1>4, <2>3, <2>4, <2>5 DEF ViewInv, V!ClickChecks
<1>5. CASE UNCHANGED <<editor, choice, screen, bar, op>>
  <2>1. HeldTypes' /\ MovedTypes'
    BY <1>1, <1>5 DEF ViewInv, HeldTypes, MovedTypes
  <2> QED BY <1>1, <1>5, <2>1, UntoldKeeps DEF ViewInv, V!ClickChecks
<1> QED BY <1>3, <1>4, <1>5 DEF V!Deliver

LEMMA ManifestReadKeeps ==
    ASSUME V!TaskViewAssumption, ViewInv, NEW s \in Op, V!ManifestRead(s)
    PROVE  ViewInv' /\ inbox' = inbox
<1>1. /\ op[s].kind = "manifest"
      /\ UNCHANGED <<acts, offline, files, choice, view, results, inbox, separate>>
      /\ IF op[s].fresh THEN V!FollowTask(op, s, op[s].task)
         ELSE op' = [op EXCEPT ![s] = V!Idle] /\ UNCHANGED <<editor, viewCurrent, screen, bar>>
  BY DEF V!ManifestRead
<1>2. op[s].task \in Task /\ op \in [Op -> Functions] /\ Told
  BY <1>1 DEF ViewInv, Told, NamedInv, MovedTypes
<1>3. MovedTypes' /\ Told' /\ viewCurrent' \in Refs
  <2>1. CASE op[s].fresh
    BY <1>1, <1>2, <2>1, FollowTaskKeeps
  <2>2. CASE ~op[s].fresh
    <3>1. /\ op' = [op EXCEPT ![s] = V!Idle] /\ UNCHANGED <<editor, viewCurrent, screen, bar>>
      BY <1>1, <2>2
    <3>2. op' \in [Op -> Functions] /\ op'[s].kind = "idle" /\ Only(op, op', s)
      BY <1>2, <3>1, Freed
    <3>3. Told'
      BY <1>1, <1>2, <3>1, <3>2, SlotKeeps
    <3> QED BY <3>1, <3>2, <3>3 DEF ViewInv, MovedTypes, HeldTypes
  <2> QED BY <2>1, <2>2
<1>4. acts' \in 0 .. MaxActs /\ choice' \in Task \cup {None}
  BY <1>1 DEF ViewInv, HeldTypes
<1> QED BY <1>1, <1>3, <1>4, HeldKept DEF ViewInv

LEMMA MetaAnsweredKeeps ==
    ASSUME V!TaskViewAssumption, ViewInv, NEW s \in Op, V!MetaAnswered(s)
    PROVE  ViewInv' /\ inbox' = inbox
<1>1. /\ op[s].kind = "meta"
      /\ UNCHANGED <<acts, offline, files, choice, view, results, inbox, separate>>
      /\ V!Show(s, op[s].task, "end", bar)
  BY DEF V!MetaAnswered
<1>2. /\ op[s].task \in Task /\ bar \in Bars /\ files' \subseteq Task /\ "end" \in Thens
      /\ acts' \in 0 .. MaxActs /\ choice' \in Task \cup {None}
  BY <1>1 DEF ViewInv, Told, NamedInv, MovedTypes, HeldTypes, Thens
<1>3. MovedTypes' /\ Told' /\ viewCurrent' \in Refs
  BY <1>1, <1>2, ShowTaskKeeps
<1> QED BY <1>1, <1>2, <1>3, HeldKept DEF ViewInv

LEMMA OpenAnsweredKeeps ==
    ASSUME V!TaskViewAssumption, ViewInv, NEW s \in Op, V!OpenAnswered(s)
    PROVE  ViewInv' /\ inbox' = inbox
<1>1. /\ op[s].kind = "open" /\ files' = files \cup {op[s].task}
      /\ UNCHANGED <<acts, offline, choice, view, results, inbox, separate>>
      /\ V!Show(s, op[s].task, "py", V!SetTask(bar, op[s].task))
  BY DEF V!OpenAnswered
<1>2. /\ op[s].task \in Task /\ bar \in Bars /\ files' \subseteq Task /\ "py" \in Thens
  BY <1>1 DEF ViewInv, Told, NamedInv, MovedTypes, HeldTypes, Thens
<1>3. V!SetTask(bar, op[s].task) \in Bars /\ ~V!SetTask(bar, op[s].task).checking
  BY <1>2, BarsGiven
<1>4. MovedTypes' /\ Told' /\ viewCurrent' \in Refs
  BY <1>1, <1>2, <1>3, ShowTaskKeeps
<1>5. HeldTypes'
  BY <1>1, <1>2, <1>4 DEF ViewInv, HeldTypes
<1> QED BY <1>1, <1>4, <1>5 DEF ViewInv

LEMMA OpenFailedKeeps ==
    ASSUME V!TaskViewAssumption, ViewInv, NEW s \in Op, V!OpenFailed(s)
    PROVE  ViewInv' /\ inbox' = inbox
<1>1. /\ op[s].kind = "open" /\ op' = [op EXCEPT ![s] = V!Idle] /\ choice' = None
      /\ UNCHANGED <<acts, offline, files, editor, view, viewCurrent, results,
                     screen, inbox, bar, separate>>
  BY DEF V!OpenFailed
<1>2. op \in [Op -> Functions] /\ Told
  BY DEF ViewInv, MovedTypes
<1>3. op' \in [Op -> Functions] /\ op'[s].kind = "idle" /\ Only(op, op', s)
  BY <1>1, <1>2, Freed
<1>4. Told'
  BY <1>1, <1>2, <1>3, SlotKeeps
<1>5. MovedTypes' /\ HeldTypes'
  BY <1>1, <1>3 DEF ViewInv, MovedTypes, HeldTypes
<1> QED BY <1>1, <1>4, <1>5 DEF ViewInv

LEMMA ViewFocusedKeeps ==
    ASSUME V!TaskViewAssumption, ViewInv, NEW s \in Op, V!Focused(s)
    PROVE  ViewInv' /\ inbox' = inbox
<1>1. /\ op[s].kind = "focus"
      /\ UNCHANGED <<acts, offline, files, choice, view, viewCurrent, results, inbox, separate>>
      /\ V!PushData(op, s, op[s].task, op[s].then, bar)
  BY DEF V!Focused
<1>2. /\ op[s].task \in Task \cup {None} /\ op[s].then \in Thens
      /\ bar \in Bars /\ files' \subseteq Task /\ viewCurrent' \in Refs
      /\ MovedTypes /\ HeldTypes /\ Told
  BY <1>1 DEF ViewInv, HeldTypes, MovedTypes, Functions
<1>3. MovedTypes' /\ Told'
  BY <1>1, <1>2, PushKeeps
<1>4. HeldTypes'
  BY <1>1 DEF ViewInv, HeldTypes
<1> QED BY <1>1, <1>3, <1>4 DEF ViewInv

\* A load of the current task tells the screen the task's last result, or an error.
LEMMA DataShown ==
    ASSUME V!TaskViewAssumption, ViewInv, NEW s \in Op, FreshLoad(op[s]),
           V!Loaded(s) \/ V!LoadError(s)
    PROVE  /\ screen' \in Screens /\ ~screen'.loading /\ screen'.task = viewCurrent.task
           /\ viewCurrent.task \in Task /\ view = "ready"
           /\ screen'.result \in {0, results[screen'.task]}
           /\ ~screen'.error => /\ screen'.result = results[screen'.task]
                                /\ screen'.result # 0 => screen'.status = screen'.result
<1>1. /\ view = "ready" /\ op[s].of = viewCurrent.task /\ op[s].of \in Task
      /\ op[s].run \in 0 .. MaxActs /\ results[op[s].of] \in 0 .. MaxActs
      /\ screen \in Screens
  <2>1. /\ op[s] \in Functions /\ screen \in Screens /\ results \in [Task -> 0 .. MaxActs]
        /\ view = "ready" /\ op[s].of = viewCurrent.task /\ op[s].of # None
    BY DEF ViewInv, MovedTypes, HeldTypes, Told, FreshInv
  <2> QED BY <2>1 DEF Functions
<1>2. screen.task = op[s].of /\ screen.result \in {0, results[op[s].of]}
  BY <1>1 DEF ViewInv, Told, V!ShownTaskIsCurrent, ScreenInv, V!TaskViewAssumption
<1>3. PICK t, run : t = op[s].of /\ run = results[op[s].of]
  OBVIOUS
<1>4. CASE V!Loaded(s)
  <2>1. CASE run # 0
    <3>1. PICK d : d = [task |-> t, status |-> run, loading |-> FALSE, error |-> FALSE,
                        result |-> screen.result]
      OBVIOUS
    <3>2. screen' = V!SetResult(d, t, run)
      BY <1>2, <1>3, <1>4, <2>1, <3>1 DEF V!Loaded, V!SetData
    <3>3. d \in Screens /\ d.task = t /\ ~d.loading /\ ~d.error
      BY <1>1, <1>2, <1>3, <3>1 DEF Screens
    <3>4. /\ screen' \in Screens /\ screen'.task = t /\ ~screen'.loading
          /\ screen'.result = run /\ screen'.status = run
      BY <1>1, <1>3, <3>2, <3>3, ResultGiven
    <3> QED BY <1>1, <1>3, <3>4
  <2>2. CASE run = 0
    <3>1. screen' = [task |-> t, status |-> op[s].run, loading |-> FALSE, error |-> FALSE,
                     result |-> screen.result]
      BY <1>2, <1>3, <1>4, <2>2 DEF V!Loaded, V!SetData
    <3>2. /\ screen' \in Screens /\ screen'.task = t /\ ~screen'.loading
          /\ screen'.result = 0
      BY <1>1, <1>2, <1>3, <2>2, <3>1 DEF Screens
    <3> QED BY <1>1, <1>3, <2>2, <3>2
  <2> QED BY <2>1, <2>2
<1>5. CASE V!LoadError(s)
  <2>1. screen' = [task |-> t, status |-> op[s].run, loading |-> FALSE, error |-> TRUE,
                   result |-> screen.result]
    BY <1>2, <1>3, <1>5 DEF V!LoadError, V!SetData
  <2>2. /\ screen' \in Screens /\ screen'.task = t /\ ~screen'.loading /\ screen'.error
        /\ screen'.result = screen.result
    BY <1>1, <1>3, <2>1 DEF Screens
  <2> QED BY <1>1, <1>2, <1>3, <2>2
<1> QED BY <1>4, <1>5

LEMMA LoadEndsKeeps ==
    ASSUME V!TaskViewAssumption, ViewInv, NEW s \in Op, V!LoadEnds(s)
    PROVE  ViewInv' /\ inbox' = inbox
<1>1. /\ op[s].kind = "load"
      /\ UNCHANGED <<acts, offline, files, choice, view, viewCurrent, results, inbox, separate>>
      /\ IF op[s].fresh THEN V!Loaded(s) \/ V!LoadError(s) ELSE screen' = screen
      /\ V!Continue(op, s, op[s].task, op[s].then, bar)
  BY DEF V!LoadEnds, V!IsCurrent
<1>2. /\ op[s].task \in Task \cup {None} /\ op[s].then \in Thens /\ op \in [Op -> Functions]
      /\ bar \in Bars /\ files' \subseteq Task /\ editor \in Task \cup {None}
      /\ MovedTypes /\ HeldTypes /\ Told
  BY <1>1 DEF ViewInv, HeldTypes, MovedTypes, Functions
<1>3. MovedTypes' /\ Told'
  <2>1. CASE op[s].fresh
    <3>1. /\ screen' \in Screens /\ ~screen'.loading /\ screen'.task = viewCurrent.task
          /\ viewCurrent.task \in Task /\ view = "ready"
          /\ screen'.result \in {0, results[screen'.task]}
          /\ ~screen'.error => /\ screen'.result = results[screen'.task]
                               /\ screen'.result # 0 => screen'.status = screen'.result
      <4>1. FreshLoad(op[s]) /\ (V!Loaded(s) \/ V!LoadError(s))
        BY <1>1, <2>1 DEF FreshLoad
      <4> QED BY <4>1, DataShown
    <3>2. /\ op' \in [Op -> Functions] /\ editor' \in Task \cup {None} /\ bar' \in Bars
          /\ op'[s].kind \in {"idle", "manifest"}
          /\ op'[s].kind = "manifest" => op'[s].task \in Task
          /\ Only(op, op', s)
          /\ bar'.checking => bar.checking
      BY <1>1, <1>2, Continued
    <3>3. FreshInv'
      BY <1>1, <1>2, <3>2 DEF Told, FreshInv, FreshLoad, Only, Alike
    <3>4. NamedInv'
      BY <1>2, <3>2, NamedKept DEF Told
    <3>5. V!SpinnerMeansCheck'
      BY <1>1, <1>2, <3>2, SpinKept DEF Told
    <3>6. ScreenInv' /\ V!ShownTaskIsCurrent' /\ V!LastResultShown' /\ V!LoadingMeansLoad'
      BY <1>1, <3>1 DEF ScreenInv, V!ShownTaskIsCurrent, V!LastResultShown, V!LoadingMeansLoad
    <3> QED BY <3>1, <3>2, <3>3, <3>4, <3>5, <3>6 DEF MovedTypes, Told
  <2>2. CASE ~op[s].fresh
    BY <1>1, <1>2, <2>2, ContinueKeeps DEF FreshLoad
  <2> QED BY <2>1, <2>2
<1>4. HeldTypes'
  BY <1>1 DEF ViewInv, HeldTypes
<1> QED BY <1>1, <1>3, <1>4 DEF ViewInv

\* A result is kept for its task, and shown where the side bar shows that task.
LEMMA ResultKeeps ==
    ASSUME V!TaskViewAssumption, ViewInv, NEW t \in Task, NEW run \in 0 .. MaxActs,
           view' = view, V!ShowCheckResult(t, run)
    PROVE  /\ results' \in [Task -> 0 .. MaxActs] /\ viewCurrent' \in Refs
           /\ separate' \in 0 .. MaxActs /\ screen' \in Screens
           /\ viewCurrent'.task = viewCurrent.task /\ screen'.task = screen.task
           /\ screen'.loading = screen.loading
           /\ ScreenInv' /\ V!ShownTaskIsCurrent' /\ V!LastResultShown'
<1>1. /\ screen \in Screens /\ viewCurrent \in Refs /\ results \in [Task -> 0 .. MaxActs]
      /\ separate \in 0 .. MaxActs /\ ScreenInv /\ V!ShownTaskIsCurrent /\ V!LastResultShown
  BY DEF ViewInv, MovedTypes, HeldTypes, Told
<1>2. CASE viewCurrent.task = None
  <2>1. separate' = run /\ UNCHANGED <<viewCurrent, results, screen, view>>
    BY <1>2 DEF V!ShowCheckResult
  <2> QED BY <1>1, <2>1 DEF ScreenInv, V!ShownTaskIsCurrent, V!LastResultShown, V!Blank
<1>3. CASE viewCurrent.task # None
  <2>1. /\ results' = [results EXCEPT ![t] = run] /\ separate' = separate
        /\ viewCurrent' = IF viewCurrent.task = t THEN [viewCurrent EXCEPT !.status = run]
                          ELSE viewCurrent
        /\ screen' = IF viewCurrent.task = t /\ view = "ready"
                     THEN V!SetResult(screen, t, run) ELSE screen
    BY <1>3 DEF V!ShowCheckResult, V!PostResult
  <2>2. /\ results' \in [Task -> 0 .. MaxActs] /\ results'[t] = run
        /\ \A u \in Task : u # t => results'[u] = results[u]
    BY <1>1, <2>1
  <2>3. viewCurrent' \in Refs /\ viewCurrent'.task = viewCurrent.task
    <3>1. CASE viewCurrent.task = t
      <4>1. PICK r : r = [viewCurrent EXCEPT !.status = run]
        OBVIOUS
      <4>2. r \in Refs /\ r.task = viewCurrent.task
        BY <1>1, <4>1 DEF Refs
      <4> QED BY <2>1, <3>1, <4>1, <4>2
    <3>2. CASE viewCurrent.task # t
      BY <1>1, <2>1, <3>2
    <3> QED BY <3>1, <3>2
  <2>4. screen.task \in Task \cup {None}
    BY <1>1 DEF Screens
  <2>5. CASE viewCurrent.task = t /\ view = "ready"
    <3>1. screen.task = t /\ screen' = V!SetResult(screen, t, run)
      BY <1>1, <2>1, <2>5 DEF V!ShownTaskIsCurrent
    <3>2. /\ screen' \in Screens /\ screen'.task = t /\ screen'.loading = screen.loading
          /\ screen'.result = run /\ screen'.status = run
      BY <1>1, <3>1, ResultGiven
    <3> QED BY <1>1, <2>1, <2>2, <2>3, <2>5, <3>1, <3>2
          DEF ScreenInv, V!ShownTaskIsCurrent, V!LastResultShown
  <2>6. CASE ~(viewCurrent.task = t /\ view = "ready")
    <3>1. screen' = screen
      BY <2>1, <2>6
    <3>2. screen.task # None => screen.task # t /\ view = "ready"
      BY <1>1, <2>6 DEF ScreenInv, V!ShownTaskIsCurrent, V!Blank
    <3>3. screen.task # None => results'[screen.task] = results[screen.task]
      BY <2>2, <2>4, <3>2
    <3> QED BY <1>1, <2>1, <2>2, <2>3, <3>1, <3>2, <3>3
          DEF ScreenInv, V!ShownTaskIsCurrent, V!LastResultShown, V!Blank
  <2> QED BY <2>5, <2>6
<1> QED BY <1>2, <1>3

LEMMA CheckAnsweredKeeps ==
    ASSUME V!TaskViewAssumption, ViewInv, NEW s \in Op, V!CheckAnswered(s)
    PROVE  ViewInv' /\ inbox' = inbox
<1>1. /\ op[s].kind = "check" /\ V!ShowCheckResult(op[s].task, op[s].run)
      /\ \/ op' = [op EXCEPT ![s] = V!Idle] /\ bar' = V!SetCheckResult(op[s].task)
         \/ op' = [op EXCEPT ![s].kind = "defend"] /\ bar' = bar
      /\ UNCHANGED <<acts, offline, files, editor, choice, view, inbox>>
  BY DEF V!CheckAnswered
<1>2. /\ op[s].task \in Task /\ op[s].run \in 0 .. MaxActs /\ op \in [Op -> Functions]
      /\ bar \in Bars /\ editor' \in Task \cup {None} /\ Told
  BY <1>1 DEF ViewInv, Told, NamedInv, MovedTypes, Functions
<1>3. /\ results' \in [Task -> 0 .. MaxActs] /\ viewCurrent' \in Refs
      /\ separate' \in 0 .. MaxActs /\ screen' \in Screens
      /\ viewCurrent'.task = viewCurrent.task /\ screen'.task = screen.task
      /\ screen'.loading = screen.loading
      /\ ScreenInv' /\ V!ShownTaskIsCurrent' /\ V!LastResultShown'
  BY <1>1, <1>2, ResultKeeps
<1>4. /\ op' \in [Op -> Functions] /\ bar' \in Bars /\ Only(op, op', s)
      /\ op'[s].kind \in {"idle", "defend"}
      /\ op'[s].kind = "defend" \/ ~bar'.checking
  <2>1. CASE op' = [op EXCEPT ![s] = V!Idle] /\ bar' = V!SetCheckResult(op[s].task)
    <3>1. op' \in [Op -> Functions] /\ op'[s].kind = "idle" /\ Only(op, op', s)
      BY <1>2, <2>1, Freed
    <3>2. bar' \in Bars /\ ~bar'.checking
      BY <1>2, <2>1, BarsGiven
    <3> QED BY <3>1, <3>2
  <2>2. CASE op' = [op EXCEPT ![s].kind = "defend"] /\ bar' = bar
    <3>1. PICK f : f = [op[s] EXCEPT !.kind = "defend"]
      OBVIOUS
    <3>2. f \in Functions /\ f.kind = "defend"
      BY <1>2, <3>1 DEF Functions, ViewKinds
    <3>3. op' \in [Op -> Functions] /\ op'[s] = f /\ \A j \in Op : j # s => op'[j] = op[j]
      BY <1>2, <2>2, <3>1, <3>2
    <3> QED BY <1>2, <2>2, <3>2, <3>3 DEF Only, Alike
  <2> QED BY <1>1, <2>1, <2>2
<1>5. FreshInv' /\ V!LoadingMeansLoad'
  BY <1>1, <1>2, <1>3, <1>4 DEF Told, FreshInv, V!LoadingMeansLoad, FreshLoad, Only, Alike
<1>6. NamedInv'
  BY <1>2, <1>4, NamedKept DEF Told
<1>7. V!SpinnerMeansCheck'
  BY <1>1, <1>2, <1>4 DEF V!SpinnerMeansCheck
<1>8. MovedTypes' /\ HeldTypes'
  BY <1>1, <1>2, <1>3, <1>4 DEF ViewInv, MovedTypes, HeldTypes
<1> QED BY <1>1, <1>3, <1>5, <1>6, <1>7, <1>8 DEF ViewInv, Told

\* A check is over, with its result shown or without one.
LEMMA CheckOverKeeps ==
    ASSUME V!TaskViewAssumption, ViewInv, NEW s \in Op, V!DefenseShown(s) \/ V!CheckFailed(s)
    PROVE  ViewInv' /\ inbox' = inbox
<1>1. /\ op[s].kind \in {"check", "defend"} /\ op' = [op EXCEPT ![s] = V!Idle]
      /\ UNCHANGED <<acts, offline, files, editor, choice, view, viewCurrent, results,
                     screen, inbox, separate>>
      /\ bar' = V!SetCheckResult(op[s].task) \/ bar' = V!SetError(bar)
  BY DEF V!DefenseShown, V!CheckFailed
<1>2. /\ op \in [Op -> Functions] /\ bar \in Bars /\ Told /\ op[s].task \in Task \cup {None}
  BY DEF ViewInv, MovedTypes, Functions
<1>3. bar' \in Bars /\ ~bar'.checking
  BY <1>1, <1>2, BarsGiven
<1>4. op' \in [Op -> Functions] /\ op'[s].kind = "idle" /\ Only(op, op', s)
  BY <1>1, <1>2, Freed
<1>5. Told'
  BY <1>1, <1>2, <1>3, <1>4, SlotKeeps
<1>6. MovedTypes' /\ HeldTypes'
  BY <1>1, <1>3, <1>4 DEF ViewInv, MovedTypes, HeldTypes
<1> QED BY <1>1, <1>5, <1>6 DEF ViewInv

LEMMA ViewAnswerKeeps ==
    ASSUME V!TaskViewAssumption, ViewInv, NEW s \in Op, V!Answer(s)
    PROVE  ViewInv' /\ inbox' = inbox
BY ManifestReadKeeps, MetaAnsweredKeeps, OpenAnsweredKeeps, OpenFailedKeeps,
   ViewFocusedKeeps, LoadEndsKeeps, CheckAnsweredKeeps, CheckOverKeeps DEF V!Answer

-----------------------------------------------------------------------------
(* The task view *)

LEMMA ViewInit == ASSUME V!TaskViewAssumption, V!Init PROVE ViewInv
<1>1. 0 \in 0 .. MaxActs
  BY DEF V!TaskViewAssumption
<1>2. /\ V!Idle \in Functions /\ V!Idle.kind = "idle" /\ V!NoRef \in Refs
      /\ V!Blank \in Screens /\ V!Blank.task = None /\ ~V!Blank.loading
  BY <1>1 DEF Functions, V!Idle, ViewKinds, Thens, V!NoRef, Refs, V!Blank, Screens
<1>3. bar \in Bars /\ ~bar.checking
  BY DEF V!Init, Bars
<1>4. MovedTypes
  BY <1>2, <1>3 DEF V!Init, MovedTypes
<1>5. HeldTypes
  BY <1>1, <1>2 DEF V!Init, HeldTypes
<1>6. \A s \in Op : op[s].kind = "idle"
  BY <1>2 DEF V!Init
<1>7. Told
  BY <1>2, <1>3, <1>6 DEF V!Init, Told, FreshInv, FreshLoad, NamedInv, ScreenInv,
     V!ShownTaskIsCurrent, V!LoadingMeansLoad, V!LastResultShown, V!SpinnerMeansCheck
<1> QED BY <1>4, <1>5, <1>7 DEF ViewInv

LEMMA ViewStutters == ASSUME ViewInv, UNCHANGED V!vars PROVE ViewInv' /\ V!ClickChecks
<1>1. HeldTypes' /\ MovedTypes' /\ op' = op
  BY DEF V!vars, ViewInv, HeldTypes, MovedTypes
<1>2. Told'
  BY UntoldKeeps DEF V!vars, ViewInv
<1> QED BY <1>1, <1>2 DEF ViewInv, V!ClickChecks

LEMMA ViewNext == ASSUME V!TaskViewAssumption, ViewInv, V!Next PROVE ViewInv' /\ V!ClickChecks
<1>1. inbox' = inbox => V!ClickChecks
  BY DEF V!ClickChecks
<1>2. CASE \E s \in Op, t \in Task : V!OpenTask(s, t) \/ V!Hints(s, t) \/ V!Check(s, t)
  BY <1>1, <1>2, OpenTaskKeeps, HintsKeeps, CheckKeeps
<1>3. CASE \E s \in Op, t \in Task \cup {None} : V!Select(s, t)
  BY <1>1, <1>3, SelectKeeps
<1>4. CASE \E s \in Op : V!OpenTaskView(s)
  BY <1>1, <1>4, OpenTaskViewKeeps
<1>5. CASE \E what \in {"check", "openPy"} : V!Click(what)
  BY <1>5, ClickKeeps DEF V!ClickChecks
<1>6. CASE V!Dispose
  BY <1>6, DisposeKeeps DEF V!ClickChecks
<1>7. CASE V!CloseResults \/ V!SwitchMode \/ V!ResolveView
  BY <1>1, <1>7, CloseResultsKeeps
<1>8. CASE \E s \in Op : V!ViewReady(s) \/ V!Deliver(s) \/ V!Answer(s)
  BY <1>1, <1>8, ViewIsReadyKeeps, DeliverKeeps, ViewAnswerKeeps
<1> QED BY <1>2, <1>3, <1>4, <1>5, <1>6, <1>7, <1>8 DEF V!Next, V!Student

\* However late the server answers and whatever the student opens meanwhile, a side bar
\* that is ready shows the current task (pushData's generation in taskView.ts), "loading"
\* is only shown while a load of that task is under way that will replace it, the result and
\* the badge are those of the task's last check (postResult), and the status bar spins only
\* while a check is under way.
THEOREM TaskViewTellsNow ==
    ASSUME V!TaskViewAssumption
    PROVE  V!Spec => [](/\ V!TypeOK /\ V!ShownTaskIsCurrent /\ V!LoadingMeansLoad
                        /\ V!LastResultShown /\ V!SpinnerMeansCheck)
<1>1. V!Init => ViewInv
  BY ViewInit
<1>2. ViewInv /\ [V!Next]_V!vars => ViewInv'
  BY ViewNext, ViewStutters
<1>3. ViewInv => /\ V!TypeOK /\ V!ShownTaskIsCurrent /\ V!LoadingMeansLoad
                 /\ V!LastResultShown /\ V!SpinnerMeansCheck
  BY ViewTypes DEF ViewInv, Told
<1> QED BY <1>1, <1>2, <1>3, PTL DEF V!Spec

\* A click on Check made for one task never checks another: onMessage drops a click about
\* a task the side bar has left (taskView.ts).
THEOREM ClicksCheckTheirTask ==
    ASSUME V!TaskViewAssumption
    PROVE  V!Spec => [][V!ClickChecks]_V!vars
<1>1. V!Init => ViewInv
  BY ViewInit
<1>2. ViewInv /\ [V!Next]_V!vars => ViewInv'
  BY ViewNext, ViewStutters
<1>3. ViewInv /\ [V!Next]_V!vars => [V!ClickChecks]_V!vars
  BY ViewNext, ViewStutters
<1> QED BY <1>1, <1>2, <1>3, PTL DEF V!Spec

-----------------------------------------------------------------------------
(* The task chosen last *)

\* What waits is about the task chosen last: the student lets a command that fetches or
\* opens a task end before choosing another.
Unhurried ==
    \A s \in Op : (\/ op[s].kind = "manifest" /\ op[s].fresh
                   \/ op[s].kind \in {"meta", "open"}
                   \/ op[s].then = "py") => choice = op[s].task

\* A function that will show the task it is about.
Asked(f) == (f.kind = "manifest" /\ f.fresh) \/ f.kind \in {"meta", "open"}

\* The task chosen last is the current one or will be.
ChoiceInv ==
    choice # None => \/ viewCurrent.task = choice
                     \/ \E s \in Op : Asked(op[s]) /\ op[s].task = choice

LEMMA AskedFollows ==
    ASSUME V!TaskViewAssumption, NEW o \in [Op -> Functions], NEW s \in Op, NEW t \in MaybeTask,
           op' = V!FollowEditor(o, s, t)
    PROVE  Asked(op'[s]) /\ op'[s].task = t
<1>1. PICK q : q = V!Outdate(o, "manifest")
  OBVIOUS
<1>2. q \in [Op -> Functions]
  BY <1>1, Outdated
<1>3. op' = Put(q, s, V!Waiting("manifest", t, "bar", 0, None))
  BY <1>1, Zenon DEF V!FollowEditor, V!Wait, Put
<1>4. "manifest" \in ViewKinds /\ "bar" \in Thens /\ 0 \in 0 .. MaxActs /\ None \in MaybeTask
  BY DEF ViewKinds, Thens, V!TaskViewAssumption, MaybeTask
<1>5. op'[s].kind = "manifest" /\ op'[s].task = t /\ op'[s].fresh
  BY <1>2, <1>3, <1>4, Waits
<1> QED BY <1>5 DEF Asked

\* A function asks for the task anew once its part of the side bar is done, or it is over,
\* or it waits for the data.
LEMMA Goes ==
    ASSUME NEW o \in [Op -> Functions], NEW s \in Op, NEW t, NEW then, NEW b,
           V!Continue(o, s, t, then, b) \/ V!PushData(o, s, t, then, b)
    PROVE  \/ then = "py" /\ op' = V!FollowEditor(o, s, t)
           \/ \A j \in Op : j # s => op'[j] = o[j]
<1>1. CASE V!Continue(o, s, t, then, b)
  <2>1. \/ then = "py" /\ op' = V!FollowEditor(o, s, t)
        \/ op' = [o EXCEPT ![s] = V!Idle]
    BY <1>1 DEF V!Continue, V!OpenTaskPy
  <2> QED BY <2>1
<1>2. CASE V!PushData(o, s, t, then, b) /\ ~V!Continue(o, s, t, then, b)
  <2>1. PICK f : op' = [o EXCEPT ![s] = f]
    BY <1>2, Zenon DEF V!PushData
  <2> QED BY <2>1
<1> QED BY <1>1, <1>2

LEMMA ChoiceGoes ==
    ASSUME V!TaskViewAssumption, MovedTypes, ChoiceInv, NEW s \in Op, NEW o,
           o = op \/ o = V!Outdate(op, "load"), NEW t \in MaybeTask, NEW then, NEW b,
           V!Continue(o, s, t, then, b) \/ V!PushData(o, s, t, then, b),
           then = "py" => t = choice', choice' # None,
           \/ viewCurrent'.task = choice'
           \/ choice' = choice /\ viewCurrent'.task = viewCurrent.task /\ ~Asked(op[s])
    PROVE  ChoiceInv'
<1>1. /\ o \in [Op -> Functions]
      /\ \A j \in Op : o[j].task = op[j].task /\ (Asked(op[j]) => Asked(o[j]))
  <2>0. op \in [Op -> Functions]
    BY DEF MovedTypes
  <2>1. CASE o = op
    BY <2>0, <2>1
  <2>2. CASE o = V!Outdate(op, "load")
    <3>1. /\ V!Outdate(op, "load") \in [Op -> Functions]
          /\ \A j \in Op :
               /\ V!Outdate(op, "load")[j].kind = op[j].kind
               /\ V!Outdate(op, "load")[j].task = op[j].task
               /\ V!Outdate(op, "load")[j].of = op[j].of
               /\ V!Outdate(op, "load")[j].fresh = (op[j].fresh /\ op[j].kind # "load")
      BY <2>0, Outdated
    <3> QED BY <2>2, <3>1 DEF Asked
  <2> QED BY <2>1, <2>2
<1>2. CASE then = "py" /\ op' = V!FollowEditor(o, s, t)
  BY <1>1, <1>2, AskedFollows DEF ChoiceInv
<1>3. CASE \A j \in Op : j # s => op'[j] = o[j]
  <2>1. CASE viewCurrent'.task = choice'
    BY <2>1 DEF ChoiceInv
  <2>2. CASE choice' = choice /\ viewCurrent'.task = viewCurrent.task /\ ~Asked(op[s])
    <3>1. CASE viewCurrent.task = choice
      BY <2>2, <3>1 DEF ChoiceInv
    <3>2. CASE \E j \in Op : Asked(op[j]) /\ op[j].task = choice
      <4>1. PICK j \in Op : Asked(op[j]) /\ op[j].task = choice
        BY <3>2
      <4>2. j # s /\ op'[j] = o[j] /\ Asked(o[j]) /\ o[j].task = op[j].task
        BY <1>1, <1>3, <2>2, <4>1
      <4> QED BY <2>2, <4>1, <4>2 DEF ChoiceInv
    <3> QED BY <2>2, <3>1, <3>2 DEF ChoiceInv
  <2> QED BY <2>1, <2>2
<1> QED BY <1>1, <1>2, <1>3, Goes

LEMMA ChoiceShows ==
    ASSUME V!TaskViewAssumption, MovedTypes, ChoiceInv, NEW s \in Op, NEW t \in Task, NEW then,
           NEW b, V!Show(s, t, then, b), choice' = t
    PROVE  ChoiceInv'
<1>1. viewCurrent'.task = t
  BY DEF V!Show
<1> QED BY <1>1 DEF ChoiceInv

\* Slot s asks for the task chosen.
LEMMA ChoiceSlot ==
    ASSUME NEW s \in Op, NEW f, op \in [Op -> Functions], op' = Put(op, s, f),
           Asked(f), f.task = choice'
    PROVE  ChoiceInv'
<1>1. op'[s] = f
  BY DEF Put
<1> QED BY <1>1 DEF ChoiceInv

\* Slot s, which asked for nothing, goes on or is over.
LEMMA ChoiceStays ==
    ASSUME ChoiceInv, NEW s \in Op, NEW f, op \in [Op -> Functions], op' = Put(op, s, f),
           choice' = choice, ~Asked(op[s]), viewCurrent'.task = viewCurrent.task
    PROVE  ChoiceInv'
<1>1. \A j \in Op : j # s => op'[j] = op[j]
  BY DEF Put
<1> QED BY <1>1 DEF ChoiceInv

LEMMA ChoiceAct ==
    ASSUME V!TaskViewAssumption, ViewInv, ChoiceInv, NEW s \in Op, NEW t \in MaybeTask,
           \/ t \in Task /\ (V!OpenTask(s, t) \/ V!Hints(s, t) \/ V!Check(s, t))
           \/ V!Select(s, t) \/ V!OpenTaskView(s)
    PROVE  ChoiceInv'
<1>1. MovedTypes /\ op \in [Op -> Functions] /\ editor \in Task \cup {None}
  BY DEF ViewInv, MovedTypes
<1>2. CASE t \in Task /\ V!OpenTask(s, t)
  <2>1. CASE t \in files
    BY <1>1, <1>2, <2>1, ChoiceShows DEF V!OpenTask
  <2>2. CASE t \notin files
    <3>1. /\ op' = Put(op, s, V!Waiting("open", t, "py", 0, None))
          /\ choice' = t /\ viewCurrent' = viewCurrent
      BY <1>2, <2>2, Zenon DEF V!OpenTask, V!Wait, Put
    <3>2. PICK f : f = V!Waiting("open", t, "py", 0, None)
      OBVIOUS
    <3>3. Asked(f) /\ f.task = t
      BY <3>2 DEF V!Waiting, Asked
    <3> QED BY <1>1, <3>1, <3>2, <3>3, ChoiceSlot
  <2> QED BY <2>1, <2>2
<1>3. CASE t \in Task /\ V!Hints(s, t)
  BY <1>1, <1>3, ChoiceShows DEF V!Hints
<1>4. CASE t \in Task /\ V!Check(s, t)
  <2>1. /\ op' = Put(op, s, V!Waiting("check", t, IF offline THEN "end" ELSE "defend", acts', None))
        /\ choice' = choice /\ viewCurrent' = viewCurrent /\ op[s].kind = "idle"
    BY <1>4, Zenon DEF V!Check, V!RunCheck, V!Free, Put
  <2>2. ~Asked(op[s])
    BY <2>1 DEF Asked
  <2> QED BY <1>1, <2>1, <2>2, ChoiceStays
<1>5. CASE V!Select(s, t)
  <2>1. CASE t = None
    <3>1. UNCHANGED <<op, choice, viewCurrent>>
      BY <1>5, <2>1 DEF V!Select
    <3> QED BY <3>1 DEF ChoiceInv
  <2>2. CASE t # None
    <3>1. op' = V!FollowEditor(op, s, t) /\ choice' = t
      BY <1>5, <2>2 DEF V!Select
    <3> QED BY <1>1, <3>1, AskedFollows DEF ChoiceInv
  <2> QED BY <2>1, <2>2
<1>6. CASE V!OpenTaskView(s)
  <2>1. editor \in Task /\ choice' = editor
    BY <1>1, <1>6 DEF V!OpenTaskView
  <2>2. CASE offline
    BY <1>1, <1>6, <2>1, <2>2, ChoiceShows DEF V!OpenTaskView
  <2>3. CASE ~offline
    <3>1. /\ op' = Put(op, s, V!Waiting("meta", editor, "end", 0, None))
          /\ viewCurrent' = viewCurrent
      BY <1>6, <2>3, Zenon DEF V!OpenTaskView, V!Wait, Put
    <3>2. PICK f : f = V!Waiting("meta", editor, "end", 0, None)
      OBVIOUS
    <3>3. Asked(f) /\ f.task = editor
      BY <3>2 DEF V!Waiting, Asked
    <3> QED BY <1>1, <2>1, <3>1, <3>2, <3>3, ChoiceSlot
  <2> QED BY <2>2, <2>3
<1> QED BY <1>2, <1>3, <1>4, <1>5, <1>6

LEMMA ChoiceClick ==
    ASSUME V!TaskViewAssumption, ViewInv, ChoiceInv, NEW s \in Op,
           V!ViewReady(s) \/ V!Deliver(s)
    PROVE  ChoiceInv'
<1>1. MovedTypes /\ op \in [Op -> Functions] /\ op[s].kind = "idle" /\ ~Asked(op[s])
  BY DEF ViewInv, MovedTypes, V!ViewReady, V!Deliver, V!Free, Asked
<1>2. viewCurrent' = viewCurrent /\ viewCurrent.task \in MaybeTask
  BY DEF V!ViewReady, V!Deliver, ViewInv, HeldTypes, Refs, MaybeTask
<1>3. CASE V!ViewReady(s)
  <2>1. V!PushData(op, s, viewCurrent.task, "end", bar) /\ choice' = choice
    BY <1>3 DEF V!ViewReady
  <2>2. CASE choice # None
    BY <1>1, <1>2, <2>1, <2>2, ChoiceGoes
  <2> QED BY <2>1, <2>2 DEF ChoiceInv
<1>4. CASE V!Deliver(s)
  <2>1. CASE V!RunCheck(op, s, viewCurrent.task) /\ choice' = choice
    <3>1. op' = Put(op, s, V!Waiting("check", viewCurrent.task,
                                  IF offline THEN "end" ELSE "defend", acts', None))
      BY <2>1, Zenon DEF V!RunCheck, Put
    <3> QED BY <1>1, <1>2, <2>1, <3>1, ChoiceStays
  <2>2. CASE choice' = viewCurrent.task
    BY <1>2, <2>2 DEF ChoiceInv
  <2>3. CASE UNCHANGED <<choice, op>>
    BY <1>2, <2>3 DEF ChoiceInv
  <2> QED BY <1>4, <2>1, <2>2, <2>3 DEF V!Deliver
<1> QED BY <1>3, <1>4

LEMMA ChoiceAnswer ==
    ASSUME V!TaskViewAssumption, ViewInv, Unhurried, ChoiceInv, NEW s \in Op, V!Answer(s)
    PROVE  ChoiceInv'
<1>1. /\ MovedTypes /\ op \in [Op -> Functions] /\ Told
      /\ op[s].task \in MaybeTask /\ op[s].then \in Thens
  BY DEF ViewInv, MovedTypes, Functions, MaybeTask
<1>2. /\ op[s].kind = "manifest" /\ op[s].fresh => choice = op[s].task
      /\ op[s].kind \in {"meta", "open"} => choice = op[s].task
      /\ op[s].then = "py" => choice = op[s].task
  BY DEF Unhurried
<1>3. CASE V!ManifestRead(s)
  <2>1. CASE op[s].fresh
    <3>1. op[s].task \in Task /\ choice' = op[s].task
      BY <1>1, <1>2, <1>3, <2>1 DEF V!ManifestRead, Told, NamedInv
    <3>2. viewCurrent'.task = op[s].task
      BY <1>3, <2>1 DEF V!ManifestRead, V!FollowTask
    <3> QED BY <3>1, <3>2 DEF ChoiceInv
  <2>2. CASE ~op[s].fresh
    <3>1. /\ op' = Put(op, s, V!Idle) /\ choice' = choice /\ viewCurrent' = viewCurrent
      BY <1>3, <2>2, Zenon DEF V!ManifestRead, Put
    <3>2. ~Asked(op[s])
      BY <1>3, <2>2 DEF V!ManifestRead, Asked
    <3> QED BY <1>1, <3>1, <3>2, ChoiceStays
  <2> QED BY <2>1, <2>2
<1>4. CASE V!MetaAnswered(s) \/ V!OpenAnswered(s)
  <2>1. op[s].task \in Task /\ choice' = op[s].task
    BY <1>1, <1>2, <1>4 DEF V!MetaAnswered, V!OpenAnswered, Told, NamedInv
  <2> QED BY <1>1, <1>4, <2>1, ChoiceShows DEF V!MetaAnswered, V!OpenAnswered
<1>5. CASE V!OpenFailed(s)
  BY <1>5 DEF V!OpenFailed, ChoiceInv
<1>6. CASE V!Focused(s)
  <2>1. /\ V!PushData(op, s, op[s].task, op[s].then, bar) /\ ~Asked(op[s])
        /\ choice' = choice /\ viewCurrent' = viewCurrent
    BY <1>6 DEF V!Focused, Asked
  <2>2. CASE choice # None
    BY <1>1, <1>2, <2>1, <2>2, ChoiceGoes
  <2> QED BY <2>1, <2>2 DEF ChoiceInv
<1>7. CASE V!LoadEnds(s)
  <2>1. /\ V!Continue(op, s, op[s].task, op[s].then, bar) /\ ~Asked(op[s])
        /\ choice' = choice /\ viewCurrent' = viewCurrent
    BY <1>7 DEF V!LoadEnds, Asked
  <2>2. CASE choice # None
    BY <1>1, <1>2, <2>1, <2>2, ChoiceGoes
  <2> QED BY <2>1, <2>2 DEF ChoiceInv
<1>8. CASE V!CheckAnswered(s) \/ V!DefenseShown(s) \/ V!CheckFailed(s)
  <2>1. op[s].kind \in {"check", "defend"} /\ choice' = choice /\ ~Asked(op[s])
    BY <1>8 DEF V!CheckAnswered, V!DefenseShown, V!CheckFailed, Asked
  <2>2. PICK f : op' = Put(op, s, f)
    <3>1. op' = [op EXCEPT ![s] = V!Idle] \/ op' = [op EXCEPT ![s].kind = "defend"]
      BY <1>8 DEF V!CheckAnswered, V!DefenseShown, V!CheckFailed
    <3> QED BY <3>1, Zenon DEF Put
  <2>3. viewCurrent'.task = viewCurrent.task
    <3>1. CASE V!CheckAnswered(s)
      <4>1. op[s].task \in Task /\ op[s].run \in 0 .. MaxActs /\ view' = view
        BY <1>1, <3>1 DEF V!CheckAnswered, Told, NamedInv, MovedTypes, Functions
      <4> QED BY <3>1, <4>1, ResultKeeps DEF V!CheckAnswered
    <3>2. CASE V!DefenseShown(s) \/ V!CheckFailed(s)
      BY <3>2 DEF V!DefenseShown, V!CheckFailed
    <3> QED BY <1>8, <3>1, <3>2
  <2> QED BY <1>1, <2>1, <2>2, <2>3, ChoiceStays
<1> QED BY <1>3, <1>4, <1>5, <1>6, <1>7, <1>8 DEF V!Answer

LEMMA ChoiceNext ==
    ASSUME V!TaskViewAssumption, ViewInv, Unhurried, ChoiceInv, V!Next \/ UNCHANGED V!vars
    PROVE  ChoiceInv'
<1>1. CASE V!Student
  <2>1. CASE \E s \in Op, t \in Task : V!OpenTask(s, t) \/ V!Hints(s, t) \/ V!Check(s, t)
    BY <2>1, ChoiceAct DEF MaybeTask
  <2>2. CASE \E s \in Op, t \in Task \cup {None} : V!Select(s, t)
    BY <2>2, ChoiceAct DEF MaybeTask
  <2>3. CASE \E s \in Op : V!OpenTaskView(s)
    <3>1. None \in MaybeTask
      BY DEF MaybeTask
    <3> QED BY <2>3, <3>1, ChoiceAct
  <2>4. CASE \E what \in {"check", "openPy"} : V!Click(what)
    BY <2>4 DEF V!Click, ChoiceInv
  <2>5. CASE V!Dispose
    <3>1. /\ op' = V!Outdate(op, "load") /\ choice' = choice /\ viewCurrent' = viewCurrent
          /\ op \in [Op -> Functions]
      BY <2>5 DEF V!Dispose, ViewInv, MovedTypes
    <3>2. \A j \in Op : /\ op'[j].kind = op[j].kind /\ op'[j].task = op[j].task
                        /\ op'[j].fresh = (op[j].fresh /\ op[j].kind # "load")
      BY <3>1, Outdated
    <3> QED BY <3>1, <3>2 DEF ChoiceInv, Asked
  <2>6. CASE V!CloseResults \/ V!SwitchMode
    BY <2>6 DEF V!CloseResults, V!SwitchMode, ChoiceInv
  <2> QED BY <1>1, <2>1, <2>2, <2>3, <2>4, <2>5, <2>6 DEF V!Student
<1>2. CASE V!ResolveView \/ UNCHANGED V!vars
  BY <1>2 DEF V!ResolveView, V!vars, ChoiceInv
<1>3. CASE \E s \in Op : V!ViewReady(s) \/ V!Deliver(s) \/ V!Answer(s)
  BY <1>3, ChoiceClick, ChoiceAnswer
<1> QED BY <1>1, <1>2, <1>3 DEF V!Next

\* Once nothing is under way the side bar shows the task chosen last, by an editor, a command
\* or a click (extension.ts), as long as a command that fetches or opens a task is let end
\* before the next choice; without that an older command shows its task over a newer choice
\* (extension.ts:251).
THEOREM LastChoiceIsShown ==
    ASSUME V!TaskViewAssumption
    PROVE  V!Spec /\ []Unhurried => []V!LastChoiceShown
<1>1. V!Init => ViewInv
  BY ViewInit
<1>2. ViewInv /\ [V!Next]_V!vars => ViewInv'
  BY ViewNext, ViewStutters
<1>3. V!Init => ChoiceInv
  BY DEF V!Init, ChoiceInv
<1>4. ViewInv /\ Unhurried /\ ChoiceInv /\ [V!Next]_V!vars => ChoiceInv'
  BY ChoiceNext
<1>5. ChoiceInv => V!LastChoiceShown
  BY DEF ChoiceInv, Asked, V!LastChoiceShown, V!AtRest, V!Free
<1> QED BY <1>1, <1>2, <1>3, <1>4, <1>5, PTL DEF V!Spec
=============================================================================
