------------------------------ MODULE MCViews ------------------------------
(***************************************************************************)
(* Small instances of what the extension shows, checked side by side: the   *)
(* task view with the status bar and the result panel (TaskView), the tree  *)
(* and the dashboard (TaskLists) and the assistant's panel with one task or *)
(* two (AssistantPanel).  The modules share no state; in a behaviour only   *)
(* the part drawn at the start moves.                                       *)
(***************************************************************************)
EXTENDS TaskLists, TLC

CONSTANTS t1, t2, x, y, s1, m1, m2

VARIABLES
    part,
    acts, offline, files, editor, choice, view, viewCurrent, results, screen, inbox, bar, separate,
    op,
    buffer, passed, checking, student, signingIn, panelOffline, ctx, contexts, panelCurrent,
    showing, panelView, panelScreen, panelInbox

taskVars == <<acts, offline, files, editor, choice, view, viewCurrent, results, screen, inbox,
              bar, separate, op>>
panelVars == <<buffer, passed, checking, student, signingIn, panelOffline, ctx, contexts,
               panelCurrent, showing, panelView, panelScreen, panelInbox>>
viewVars == <<part, taskVars, vars, panelVars>>

View == INSTANCE TaskView WITH Task <- {t1, t2}, Op <- {1, 2}, MaxActs <- 3,
            current <- viewCurrent

\* Two accounts of the lists, whose versions are 9 and 10: text sorts 10 before 9.
MCAccount == {m1, m2}

\* One task with two codes.
Panel == INSTANCE AssistantPanel WITH Task <- {t1}, Code <- {x, y}, Student <- {s1}, Slot <- {1},
             offline <- panelOffline, current <- panelCurrent, view <- panelView,
             screen <- panelScreen, inbox <- panelInbox
\* Two tasks with one code each.
Panels == INSTANCE AssistantPanel WITH Task <- {t1, t2}, Code <- {x}, Student <- {s1},
              Slot <- {1, 2}, offline <- panelOffline, current <- panelCurrent,
              view <- panelView, screen <- panelScreen, inbox <- panelInbox

ASSUME ViewsAssumption ==
    /\ View!TaskViewAssumption /\ Panel!PanelAssumption /\ Panels!PanelAssumption

-----------------------------------------------------------------------------
ViewsInit ==
    /\ part \in {"view", "choice", "lists", "panel", "panels"}
    /\ View!Init /\ (part \notin {"view", "choice"} => ~offline /\ files = {})
    /\ Init
    /\ part # "lists" => mode = "server" /\ local = None /\ token = [i \in 1 .. 2 |-> m1]
    /\ IF part = "panels" THEN Panels!Init ELSE Panel!Init
    /\ part \notin {"panel", "panels"} => ~panelOffline /\ buffer = [t \in {t1} |-> x]

ViewsNext ==
    \/ part \in {"view", "choice"} /\ View!Next /\ UNCHANGED <<part, vars, panelVars>>
    \/ part = "lists" /\ Next /\ UNCHANGED <<part, taskVars, panelVars>>
    \/ part = "panel" /\ Panel!Next /\ UNCHANGED <<part, taskVars, vars>>
    \/ part = "panels" /\ Panels!Next /\ UNCHANGED <<part, taskVars, vars>>

ViewsSpec == ViewsInit /\ [][ViewsNext]_viewVars

\* Bound: a selected editor's manifest is read before a command asks for more,
\* and no act while an answer is awaited that opens a task.
Unhurried ==
    part = "choice" =>
        \A s \in {1, 2} :
            (\/ op[s].kind = "manifest" /\ op[s].fresh
             \/ op[s].kind \in {"meta", "open"}
             \/ op[s].then = "py")
            => choice = op[s].task

\* Bound: with two tasks, requests are answered, and the student is online with
\* the side bar in sight and neither signs in nor checks.
InSight ==
    part = "panels" =>
        /\ \A i \in {1, 2} : ~ctx[i].error
        /\ ~panelOffline /\ ~signingIn /\ panelView # "hidden"
        /\ \A t \in {t1, t2} : checking[t] = None

\* Bound: with one task, the student is online with the side bar shown or closed,
\* and clicks nothing while the browser has the sign-in.
Attentive ==
    part = "panel" => /\ panelView # "hidden" /\ ~panelOffline
                      /\ signingIn => panelInbox = None

Symmetry == Permutations({x, y})

-----------------------------------------------------------------------------
(* Properties: DashboardSaysWhy is that of TaskLists; each of the others says *)
(* of one component what its parts say of it here.                           *)

\* A task view that is ready shows the current task: data of the task shown
\* before, however late, never takes its place; "Loading" is the truth, a load
\* is under way that ends it; the result and the badge are those of the last
\* result that came in for the task, whatever was loaded or selected since; once
\* nothing is under way the side bar shows the task chosen last, in a student
\* who lets the commands that fetch a task end; the status bar spins only while a
\* check is under way; and a click on Check that was made for one task never
\* checks another (taskViewPanel.ts, extension.ts).
TaskViewInStep ==
    /\ [](part = "view" => /\ View!TypeOK /\ View!ShownTaskIsCurrent
                           /\ View!LoadingMeansLoad /\ View!LastResultShown
                           /\ View!SpinnerMeansCheck)
    /\ [](part = "choice" => View!TypeOK /\ View!LastChoiceShown)
    /\ [](part = "lists" => TypeOK)
    /\ [][(part = "view" => View!ClickChecks)]_viewVars

\* The panel shows the current context and never waits for an operation that has
\* ended; a defense is asked for with the code its submission was checked with;
\* a text is sent in the dialogue of the task it was typed for, and the dialogue
\* a context keeps is about its task, whatever was opened between the click and
\* the call or while an answer was awaited; and after close() an operation that
\* was running calls no model any more (assistantPanel.ts).
PanelOfItsTask ==
    /\ [](part = "panel" => Panel!TypeOK /\ Panel!ScreenUpToDate /\ Panel!DefendsCheckedCode)
    /\ [](part = "panels" => /\ Panels!TypeOK
                             /\ Panels!MessageGoesToItsTask /\ Panels!SessionOfTask)
    /\ [][(part = "panel" => Panel!StopsPaying)]_viewVars
=============================================================================
