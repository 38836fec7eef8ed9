------------------------------ MODULE TaskView ------------------------------
(***************************************************************************)
(* The statement side bar, the status bar and the results of checks in the  *)
(* VS Code extension.  Every command is an asynchronous function: at each   *)
(* wait for the server (or for VS Code) the student may select another      *)
(* editor, open another task or start another check, and the function goes  *)
(* on with what it read before.  `op` holds the functions that wait.        *)
(*                                                                          *)
(* A generation counter is only ever compared with the value a function     *)
(* took: the functions carry `fresh`, true until the counter moves on.      *)
(* A check's result is named by the number of the check.                    *)
(***************************************************************************)
EXTENDS Integers, FiniteSets

CONSTANTS Task, None,
          Op,        \* bound: functions waiting at once
          MaxActs    \* bound: what the student does in all

TaskViewAssumption == None \notin Task /\ IsFiniteSet(Task) /\ MaxActs \in Nat

VARIABLES
    acts,      \* student's acts so far
    offline,   \* the workspace's mode is offline
    files,     \* tasks whose .py is in the workspace
    editor,    \* the task of the active editor
    choice,    \* the task the student chose last, by an editor or a command that has not failed
    view,      \* the side bar's webview: closed, loading or ready
    current,   \* TaskViewPanel.current
    results,   \* TaskViewPanel.results, 0 where there is none
    screen,    \* what the webview shows
    inbox,     \* a click on its way to the host
    bar,       \* the status bar
    separate,  \* the result in the Test Results panel, 0 without one
    op         \* functions waiting

vars == <<acts, offline, files, editor, choice, view, current, results,
          screen, inbox, bar, separate, op>>

Idle == [kind |-> "idle", task |-> None, fresh |-> FALSE, then |-> "end", run |-> 0, of |-> None]
NoRef == [task |-> None, status |-> 0]
Blank == [task |-> None, status |-> 0, result |-> 0, loading |-> FALSE, error |-> FALSE]

TypeOK ==
    /\ acts \in 0..MaxActs /\ offline \in BOOLEAN /\ files \subseteq Task
    /\ {editor, choice} \subseteq Task \cup {None}
    /\ view \in {"closed", "loading", "ready"}
    /\ current \in [task : Task \cup {None}, status : 0..MaxActs]
    /\ results \in [Task -> 0..MaxActs] /\ separate \in 0..MaxActs
    /\ screen \in [task : Task \cup {None}, status : 0..MaxActs, result : 0..MaxActs,
                   loading : BOOLEAN, error : BOOLEAN]
    /\ inbox \in [what : {"none", "check", "openPy"}, task : Task \cup {None}]
    /\ bar \in [task : Task \cup {None}, score : Task \cup {None},
                checking : BOOLEAN, error : BOOLEAN]
    /\ op \in [Op -> [kind : {"idle", "manifest", "meta", "open", "focus", "load",
                               "check", "defend"},
                      task : Task \cup {None}, fresh : BOOLEAN,
                      then : {"end", "bar", "py", "defend"}, run : 0..MaxActs,
                      of : Task \cup {None}]]

Init ==
    /\ acts = 0 /\ offline \in BOOLEAN /\ files \in SUBSET Task
    /\ editor = None /\ choice = None
    /\ view = "closed" /\ current = NoRef /\ results = [t \in Task |-> 0]
    /\ screen = Blank /\ separate = 0
    /\ inbox = [what |-> "none", task |-> None]
    /\ bar = [task |-> None, score |-> None, checking |-> FALSE, error |-> FALSE]
    /\ op = [s \in Op |-> Idle]

-----------------------------------------------------------------------------
SetTaskNoFlags(b, t) == [task |-> t, score |-> b.score]

\* EgoStatusBar
SetTask(b, t) == [b EXCEPT !.task = t, !.checking = FALSE, !.error = FALSE]
SetChecking(b) == [b EXCEPT !.checking = TRUE, !.error = FALSE]
SetCheckResult(t) == [task |-> t, score |-> t, checking |-> FALSE, error |-> FALSE]
SetErrorSpinning(b) == [b EXCEPT !.error = TRUE]
SetError(b) == [b EXCEPT !.checking = FALSE, !.error = TRUE]

\* The webview's onHostMessage.
SetData(scr, ref, loading, error) ==
    [task |-> ref.task, status |-> ref.status, loading |-> loading, error |-> error,
     result |-> IF scr.task = ref.task THEN scr.result ELSE 0]
SetResult(scr, t, run) ==
    [scr EXCEPT !.result = run, !.status = IF scr.task = t THEN run ELSE @]

\* ++generation: the waiting functions of that kind have read an old one.
Outdate(o, kind) ==
    [s \in Op |-> [o[s] EXCEPT !.fresh = @ /\ o[s].kind # kind]]

Waiting(kind, t, then, run, of) ==
    [kind |-> kind, task |-> t, fresh |-> TRUE, then |-> then, run |-> run, of |-> of]
Wait(o, s, kind, t, then) == [o EXCEPT ![s] = Waiting(kind, t, then, 0, None)]

\* followEditor, up to its readManifest.
FollowEditor(o, s, t) == Wait(Outdate(o, "manifest"), s, "manifest", t, "bar")

\* openTaskPy: the file comes to the front, which is a change of editor when
\* another file was there.
OpenTaskPy(o, s, t) ==
    IF t \in files' /\ editor # t
    THEN editor' = t /\ op' = FollowEditor(o, s, t)
    ELSE UNCHANGED editor /\ op' = [o EXCEPT ![s] = Idle]

\* What a function does once the panel's part of it is over; b is the bar it
\* has left so far.
Continue(o, s, t, then, b) ==
    /\ bar' = IF then = "bar" THEN SetTask(b, t) ELSE b
    /\ IF then = "py"
       THEN OpenTaskPy(o, s, t)
       ELSE UNCHANGED editor /\ op' = [o EXCEPT ![s] = Idle]

\* pushData, up to its wait for the data: nothing to do without a ready view.
PushData(o, s, t, then, b) ==
    IF view' = "ready" /\ current'.task # None
    THEN /\ screen' = SetData(screen, current', TRUE, FALSE)
         /\ op' = [o EXCEPT ![s] = Waiting("load", t, then, current'.status, current'.task)]
         /\ bar' = b /\ UNCHANGED editor
    ELSE UNCHANGED screen /\ Continue(o, s, t, then, b)

FollowTaskOpen(o, s, t) ==
    IF current.task = t \/ view = "closed"
    THEN Continue(o, s, t, "bar", bar) /\ UNCHANGED <<current, screen>>
    ELSE /\ current' = [task |-> t, status |-> 0]
         /\ PushData(Outdate(o, "load"), s, t, "bar", bar)

\* followTask
FollowTask(o, s, t) ==
    IF current.task = t
    THEN Continue(o, s, t, "bar", bar) /\ UNCHANGED <<current, screen>>
    ELSE /\ current' = [task |-> t, status |-> 0]
         /\ PushData(Outdate(o, "load"), s, t, "bar", bar)

\* show: without a view it waits for VS Code to make one.
Show(s, t, then, b) ==
    /\ current' = [task |-> t, status |-> 0]
    /\ IF view # "closed"
       THEN PushData(Outdate(op, "load"), s, t, then, b)
       ELSE /\ op' = Wait(Outdate(op, "load"), s, "focus", t, then)
            /\ bar' = b /\ UNCHANGED <<screen, editor>>

-----------------------------------------------------------------------------
\* The student's acts, each with a free slot for the function it starts.
Act == acts < MaxActs /\ acts' = acts + 1
Free(s) == op[s].kind = "idle"

\* Another editor comes to the front; one that is no task's starts nothing.
Select(s, t) ==
    /\ Act /\ Free(s) /\ t # editor /\ t \in files \cup {None}
    /\ editor' = t
    /\ IF t = None
       THEN UNCHANGED <<op, choice>>
       ELSE op' = FollowEditor(op, s, t) /\ choice' = t
    /\ UNCHANGED <<offline, files, view, current, results, screen, inbox, bar, separate>>

\* ego.openTaskView on the active editor.
OpenTaskView(s) ==
    /\ Act /\ Free(s) /\ editor # None
    /\ choice' = editor
    /\ UNCHANGED <<offline, files, view, results, inbox, separate>>
    /\ IF offline
       THEN Show(s, editor, "end", SetTask(bar, editor))
       ELSE /\ op' = Wait(op, s, "meta", editor, "end")
            /\ bar' = SetTask(bar, editor)
            /\ UNCHANGED <<editor, current, screen>>

\* cmdOpenTask: files that are missing are asked of the server first.
OpenTask(s, t) ==
    /\ Act /\ Free(s)
    /\ choice' = t
    /\ UNCHANGED <<offline, files, view, results, inbox, separate>>
    /\ IF t \in files
       THEN Show(s, t, "py", SetTask(bar, t))
       ELSE /\ op' = Wait(op, s, "open", t, "py")
            /\ UNCHANGED <<editor, current, screen, bar>>

\* cmdHintsForTask: offline the hints are in the side bar.
Hints(s, t) ==
    /\ Act /\ Free(s) /\ offline
    /\ choice' = t
    /\ UNCHANGED <<offline, files, view, results, inbox, separate>>
    /\ Show(s, t, "end", SetTask(bar, t))

\* readTaskPy: the code is found, in an open document or on the disk.
HasPy(t) == t \in files

\* runCheckOnCode, up to its wait for the result; only the server calls for a
\* defense, in the mode that was read now.
RunCheck(o, s, t) ==
    /\ op' = [o EXCEPT ![s] = Waiting("check", t, IF offline THEN "end" ELSE "defend", acts', None)]
    /\ bar' = SetChecking(bar)

\* cmdCheck on the active editor, cmdCheckTask for a row of the dashboard.
Check(s, t) ==
    /\ Act /\ Free(s) /\ HasPy(t)
    /\ RunCheck(op, s, t)
    /\ UNCHANGED <<offline, files, editor, choice, view, current, results,
                   screen, inbox, separate>>

\* A click in the side bar, about the task it shows.
Click(what) ==
    /\ Act /\ view = "ready" /\ inbox.what = "none" /\ screen.task # None
    /\ what = "check" => ~screen.loading
    /\ inbox' = [what |-> what, task |-> screen.task]
    /\ UNCHANGED <<offline, files, editor, choice, view, current, results,
                   screen, bar, separate, op>>

\* The side bar is closed.
Dispose ==
    /\ Act /\ view # "closed"
    /\ view' = "closed" /\ screen' = Blank /\ inbox' = [what |-> "none", task |-> None]
    /\ op' = Outdate(op, "load")
    /\ UNCHANGED <<offline, files, editor, choice, current, results, bar, separate>>

\* The Test Results panel is closed.
CloseResults ==
    /\ Act /\ separate # 0
    /\ separate' = 0
    /\ UNCHANGED <<offline, files, editor, choice, view, current, results,
                   screen, inbox, bar, op>>

\* The mode is switched: the side bar is not told.
SwitchMode ==
    /\ Act
    /\ offline' = ~offline
    /\ UNCHANGED <<files, editor, choice, view, current, results, screen, inbox, bar,
                   separate, op>>

-----------------------------------------------------------------------------
\* VS Code opens the side bar, because the student or a show() asked for it.
ResolveView ==
    /\ view = "closed"
    /\ view' = "loading"
    /\ UNCHANGED <<acts, offline, files, editor, choice, current, results, screen,
                   inbox, bar, separate, op>>

\* The webview's `ready`.
ViewReady(s) ==
    /\ view = "loading" /\ Free(s)
    /\ view' = "ready"
    /\ UNCHANGED <<acts, offline, files, choice, current, results, inbox, separate>>
    /\ PushData(op, s, current.task, "end", bar)

AcceptsAll(msg) == TRUE

\* onMessage: a click about another task than the current one is dropped.
Accepts(msg) == msg.task = current.task

Deliver(s) ==
    /\ inbox.what # "none" /\ Free(s)
    /\ inbox' = [what |-> "none", task |-> None]
    /\ UNCHANGED <<acts, offline, files, view, current, results, separate>>
    /\ \/ /\ inbox.what = "check" /\ Accepts(inbox) /\ HasPy(current.task)
          /\ RunCheck(op, s, current.task)
          /\ UNCHANGED <<editor, choice, screen>>
       \/ /\ inbox.what = "openPy" /\ Accepts(inbox)
          /\ choice' = current.task
          /\ OpenTaskPy(op, s, current.task)
          /\ UNCHANGED <<screen, bar>>
       \/ /\ ~Accepts(inbox) \/ (inbox.what = "check" /\ ~HasPy(current.task))
          /\ UNCHANGED <<editor, choice, screen, bar, op>>

\* followEditor has its manifest: an editor selected since makes it return.
ManifestRead(s) ==
    /\ op[s].kind = "manifest"
    /\ UNCHANGED <<acts, offline, files, choice, view, results, inbox, separate>>
    /\ IF op[s].fresh
       THEN FollowTask(op, s, op[s].task)
       ELSE op' = [op EXCEPT ![s] = Idle] /\ UNCHANGED <<editor, current, screen, bar>>

\* getTask in ego.openTaskView: answered or not, the statement is shown.
MetaAnswered(s) ==
    /\ op[s].kind = "meta"
    /\ UNCHANGED <<acts, offline, files, choice, view, results, inbox, separate>>
    /\ Show(s, op[s].task, "end", bar)

\* getTask in cmdOpenTask: the files are written, or nothing is opened.
OpenAnswered(s) ==
    /\ op[s].kind = "open"
    /\ files' = files \cup {op[s].task}
    /\ UNCHANGED <<acts, offline, choice, view, results, inbox, separate>>
    /\ Show(s, op[s].task, "py", SetTask(bar, op[s].task))

OpenFailed(s) ==
    /\ op[s].kind = "open"
    /\ op' = [op EXCEPT ![s] = Idle]
    /\ choice' = None
    /\ UNCHANGED <<acts, offline, files, editor, view, current, results,
                   screen, inbox, bar, separate>>

\* VS Code has opened the side bar show() asked for.
Focused(s) ==
    /\ op[s].kind = "focus" /\ view # "closed"
    /\ UNCHANGED <<acts, offline, files, choice, view, current, results, inbox, separate>>
    /\ PushData(op, s, op[s].task, op[s].then, bar)

IsCurrentAlways(s) == TRUE

\* isCurrent: no other task and no other view since the load began.
IsCurrent(s) == op[s].fresh

\* The data of a load, with the task's last result after it.
Loaded(s) ==
    LET run == results[op[s].of]
        ref == [task |-> op[s].of, status |-> IF run # 0 THEN run ELSE op[s].run]
        data == SetData(screen, ref, FALSE, FALSE)
    IN  screen' = IF run # 0 THEN SetResult(data, op[s].of, run) ELSE data

LoadErrorSilent(s) == UNCHANGED screen

\* The error instead of the data: neither the server's nor a local statement.
LoadError(s) ==
    screen' = SetData(screen, [task |-> op[s].of, status |-> op[s].run], FALSE, TRUE)

LoadEnds(s) ==
    /\ op[s].kind = "load"
    /\ UNCHANGED <<acts, offline, files, choice, view, current, results, inbox, separate>>
    /\ IF IsCurrent(s) THEN Loaded(s) \/ LoadError(s) ELSE UNCHANGED screen
    /\ Continue(op, s, op[s].task, op[s].then, bar)

PostResultStored(t, run) ==
    results' = [results EXCEPT ![t] = run] /\ UNCHANGED <<current, screen>>

\* postResult: kept for its task, and posted when the side bar shows that task.
PostResult(t, run) ==
    /\ results' = [results EXCEPT ![t] = run]
    /\ current' = IF current.task = t THEN [current EXCEPT !.status = run] ELSE current
    /\ screen' = IF current.task = t /\ view = "ready" THEN SetResult(screen, t, run)
                 ELSE screen

\* showCheckResult: once a task was ever shown, nothing but the side bar is used.
ShowCheckResult(t, run) ==
    IF current.task # None
    THEN PostResult(t, run) /\ UNCHANGED separate
    ELSE separate' = run /\ UNCHANGED <<current, results, screen>>

\* The result of a check; a defense it calls for is opened before the bar is set.
CheckAnswered(s) ==
    /\ op[s].kind = "check"
    /\ ShowCheckResult(op[s].task, op[s].run)
    /\ \/ op' = [op EXCEPT ![s] = Idle] /\ bar' = SetCheckResult(op[s].task)
       \/ op[s].then = "defend" /\ op' = [op EXCEPT ![s].kind = "defend"] /\ UNCHANGED bar
    /\ UNCHANGED <<acts, offline, files, editor, choice, view, inbox>>

DefenseShown(s) ==
    /\ op[s].kind = "defend"
    /\ op' = [op EXCEPT ![s] = Idle] /\ bar' = SetCheckResult(op[s].task)
    /\ UNCHANGED <<acts, offline, files, editor, choice, view, current, results,
                   screen, inbox, separate>>

CheckFailed(s) ==
    /\ op[s].kind = "check"
    /\ op' = [op EXCEPT ![s] = Idle] /\ bar' = SetError(bar)
    /\ UNCHANGED <<acts, offline, files, editor, choice, view, current, results,
                   screen, inbox, separate>>

Student ==
    \/ \E s \in Op, t \in Task : OpenTask(s, t) \/ Hints(s, t) \/ Check(s, t)
    \/ \E s \in Op, t \in Task \cup {None} : Select(s, t)
    \/ \E s \in Op : OpenTaskView(s)
    \/ \E what \in {"check", "openPy"} : Click(what)
    \/ Dispose \/ CloseResults \/ SwitchMode

Answer(s) == \/ ManifestRead(s) \/ MetaAnswered(s) \/ OpenAnswered(s) \/ OpenFailed(s)
             \/ Focused(s) \/ LoadEnds(s) \/ CheckAnswered(s) \/ DefenseShown(s)
             \/ CheckFailed(s)

Next == Student \/ ResolveView \/ (\E s \in Op : ViewReady(s) \/ Deliver(s) \/ Answer(s))

Spec == Init /\ [][Next]_vars

-----------------------------------------------------------------------------
AtRest == inbox.what = "none" /\ view # "loading" /\ \A s \in Op : Free(s)

\* A webview that is ready shows the current task: data of the task shown
\* before, however late, never takes its place.
ShownTaskIsCurrent ==
    view = "ready" => screen.task = current.task

\* "Loading" on the screen is the truth: a load of the current task is under way
\* that will replace it.
LoadingMeansLoad ==
    screen.loading =>
        \E s \in Op : op[s].kind = "load" /\ op[s].fresh /\ op[s].of = screen.task

\* The result and the badge on the screen are those of the last result that came
\* in for the task, whatever was loaded or selected since.
LastResultShown ==
    (view = "ready" /\ screen.task # None /\ ~screen.loading /\ ~screen.error) =>
        /\ screen.result = results[screen.task]
        /\ screen.result # 0 => screen.status = screen.result

\* The bar spins only while a check is under way.
SpinnerMeansCheck ==
    bar.checking => \E s \in Op : op[s].kind \in {"check", "defend"}

\* A click on Check that was made for one task never checks another.
ClickChecks ==
    \A s \in Op :
        inbox.what = "check" /\ op[s].kind = "idle" /\ op'[s].kind = "check" /\ inbox'.what = "none"
        => op'[s].task = inbox.task

\* Once nothing is under way, the side bar shows the task the student chose last:
\* what was asked earlier and answered later does not take its place.
LastChoiceShown ==
    (AtRest /\ choice # None) => current.task = choice

\* The side bar shows a statement or an error and no function is left waiting.
Settled == AtRest /\ ~screen.loading /\ ~bar.checking
=============================================================================
