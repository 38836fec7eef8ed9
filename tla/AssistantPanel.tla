--------------------------- MODULE AssistantPanel ---------------------------
(***************************************************************************)
(* The tutor's side bar of the VS Code extension.  The extension host keeps *)
(* one context per task; a context runs at most one operation, which waits  *)
(* for the server several times.  While it waits, the student edits, checks,*)
(* goes to another task, signs in as somebody else or changes the server.   *)
(* The webview shows the last data posted to it and posts clicks back.      *)
(*                                                                          *)
(* A submission is named by the code it holds: the server makes one         *)
(* submission per code, and a hash stands for the code it was made from.    *)
(***************************************************************************)
EXTENDS Integers, FiniteSets

CONSTANTS Task, Code, Student,
          Slot,        \* bound: context objects alive at once
          None

\* A dialogue with the tutor, as the server sent it.
Session == [task : Task, owner : Student, mode : {"hint", "defend"}, open : BOOLEAN,
            subm : Code \cup {None}]
\* What the context of a task waits for; a ChatContext with its operation's locals.
Ops == {"idle", "account", "lists", "code", "create", "sendCode", "send", "recover"}
Context == [task : Task \cup {None}, account : {"none", "yes", "no"}, subm : Code \cup {None},
            hash : Code \cup {None}, session : Session \cup {None}, auto : BOOLEAN,
            error : BOOLEAN, op : Ops, mode : {"hint", "defend"}, read : Code \cup {None},
            asked : Code \cup {None}, text : Task \cup {None}, using : Session \cup {None}]

PanelAssumption ==
    /\ Slot \subseteq Nat \ {0} /\ IsFiniteSet(Slot)
    /\ None \notin Task \cup Code \cup Student \cup Session

VARIABLES
    buffer,    \* the code in each task's editor
    passed,    \* per task, the codes that passed a check and must be defended
    checking,  \* per task, the code a running check was given
    student,   \* whose token the api carries
    signingIn, \* Ego: Login waits for the browser
    offline,   \* the workspace's mode is offline
    ctx,       \* the context objects
    contexts,  \* AssistantPanel.contexts: task -> slot, 0 when absent
    current,   \* AssistantPanel.current, 0 when undefined
    showing,   \* the slots for which show() waits for the side bar's focus
    view,      \* the side bar
    screen,    \* the data the webview shows
    inbox      \* a click on its way to the host

editVars == <<buffer, passed, checking>>
userVars == <<student, signingIn, offline>>
vars == <<buffer, passed, checking, student, signingIn, offline, ctx, contexts,
          current, showing, view, screen, inbox>>

Ready == view \in {"hidden", "visible"}
Attached(i) == \E t \in Task : contexts[t] = i

\* No context: the slot is free.
Blank == [task |-> None, account |-> "none", subm |-> None, hash |-> None,
          session |-> None, auto |-> FALSE, error |-> FALSE, op |-> "idle",
          mode |-> "hint", read |-> None, asked |-> None, text |-> None,
          using |-> None]

Busy(c) == c.op # "idle"

\* ChatContext.data, what publish() posts.
Data(c) == [task |-> c.task, account |-> c.account, subm |-> c.subm,
            session |-> c.session, busy |-> Busy(c), error |-> c.error]

\* publish(), after the other variables of the step.
Publish == screen' = IF view' \in {"hidden", "visible"}
                     THEN IF current' = 0 THEN Data(Blank) ELSE Data(ctx'[current'])
                     ELSE screen

\* An operation is over: its locals are gone, and a detached context with them.
Ended(i, c) == IF Attached(i)
               THEN [c EXCEPT !.op = "idle", !.mode = "hint", !.read = None,
                              !.asked = None, !.text = None, !.using = None]
               ELSE Blank

Set(i, c) == ctx' = [ctx EXCEPT ![i] = c]

\* Mutant: perform() without its finally.
EndQuietly(i, c) == Set(i, Ended(i, c)) /\ UNCHANGED screen

End(i, c) == Set(i, Ended(i, c)) /\ Publish

Panel == <<contexts, current, showing, view, inbox>>

-----------------------------------------------------------------------------
(* select(), and what a refresh begins with *)

Selected(c, code, subm) ==
    LET stale == subm = None /\ c.hash # None /\ c.hash # code
        fresh == subm # None /\ subm # c.subm
    IN  [c EXCEPT
          !.subm = IF stale THEN None ELSE IF fresh THEN subm ELSE c.subm,
          !.hash = IF stale THEN None ELSE IF subm # None THEN code ELSE c.hash,
          !.auto = c.auto /\ ~stale,
          !.session = IF \/ fresh
                         \/ stale /\ c.session # None /\ c.session.mode = "defend"
                      THEN None ELSE c.session]

FreeSlot(i) == ~Attached(i) /\ ctx[i].op = "idle"

\* The slot of task t's context, a free one when it has none yet.
SlotOf(t, i) == IF contexts[t] # 0 THEN i = contexts[t]
                ELSE FreeSlot(i) /\ \A j \in Slot : FreeSlot(j) => i <= j

ContextOf(t) == IF contexts[t] # 0 THEN ctx[contexts[t]] ELSE [Blank EXCEPT !.task = t]

\* refresh() up to its first wait: an offline workspace asks nobody.
Refreshed(c) == IF offline THEN [c EXCEPT !.account = "none", !.error = FALSE]
                ELSE [c EXCEPT !.op = "account", !.error = FALSE]

Refresh(c) == IF Busy(c) THEN c ELSE Refreshed(c)

\* follow(): the student goes to the editor of task t.
Follow(t) ==
    \E i \in Slot :
        /\ SlotOf(t, i)
        /\ LET c == Selected(ContextOf(t), buffer[t], None)
           IN  Set(i, IF i # current /\ view = "visible" THEN Refresh(c) ELSE c)
        /\ contexts' = [contexts EXCEPT ![t] = i]
        /\ current' = i
        /\ UNCHANGED <<editVars, userVars, showing, view, inbox>>
        /\ Publish

\* show() up to the command that focuses the side bar.
BeginShow(t, code, subm) ==
    \E i \in Slot :
        /\ SlotOf(t, i)
        /\ Set(i, [Selected(ContextOf(t), code, subm) EXCEPT !.auto = subm # None])
        /\ contexts' = [contexts EXCEPT ![t] = i]
        /\ current' = i
        /\ showing' = showing \cup {i}
        /\ UNCHANGED <<userVars, view, inbox>>
        /\ Publish

\* The side bar has the focus; a closed one is being loaded.
Focused(i) ==
    /\ i \in showing
    /\ showing' = showing \ {i}
    /\ view' = IF Ready THEN "visible" ELSE "loading"
    /\ IF Ready /\ current = i THEN Set(i, Refresh(ctx[i])) ELSE UNCHANGED ctx
    /\ UNCHANGED <<contexts, current>>
    /\ UNCHANGED <<editVars, userVars, inbox>>
    /\ Publish

Close ==
    /\ contexts' = [t \in Task |-> 0]
    /\ current' = 0
    /\ showing' = {}
    /\ ctx' = [i \in Slot |-> IF Busy(ctx[i]) THEN ctx[i] ELSE Blank]
    /\ Publish

-----------------------------------------------------------------------------
(* The student *)

Edit(t) ==
    \E code \in Code \ {buffer[t]} :
        /\ buffer' = [buffer EXCEPT ![t] = code]
        /\ UNCHANGED <<passed, checking, userVars, ctx, Panel, screen>>

\* cmdAssistant
Ask(t) == ~offline /\ BeginShow(t, buffer[t], None) /\ UNCHANGED editVars

\* runCheckOnCode, server mode
BeginCheck(t) ==
    /\ ~offline /\ checking[t] = None
    /\ checking' = [checking EXCEPT ![t] = buffer[t]]
    /\ UNCHANGED <<buffer, passed, userVars, ctx, Panel, screen>>

\* The check passed and its solution is to be defended.
CheckPassed(t) ==
    /\ checking[t] # None
    /\ passed' = [passed EXCEPT ![t] = @ \cup {checking[t]}]
    /\ checking' = [checking EXCEPT ![t] = None]
    /\ BeginShow(t, checking[t], checking[t])
    /\ UNCHANGED buffer

\* It failed, or there is nothing to defend.
CheckEnded(t) ==
    /\ checking[t] # None
    /\ checking' = [checking EXCEPT ![t] = None]
    /\ UNCHANGED <<buffer, passed, userVars, ctx, Panel, screen>>

BeginLogin ==
    /\ ~signingIn
    /\ signingIn' = TRUE
    /\ UNCHANGED <<editVars, student, offline, view, inbox>>
    /\ Close

\* The api in use gets the new student's token.
Login ==
    /\ signingIn
    /\ signingIn' = FALSE
    /\ student' \in Student
    /\ UNCHANGED <<editVars, offline, ctx, Panel, screen>>

\* recreateApi: Set Server, an init wizard or Switch Mode has ended.
RecreateApi ==
    /\ student' \in Student
    /\ offline' \in BOOLEAN
    /\ UNCHANGED <<editVars, signingIn, view, inbox>>
    /\ Close

Hide ==
    /\ view = "visible"
    /\ view' = "hidden"
    /\ UNCHANGED <<editVars, userVars, ctx, contexts, current, showing, screen, inbox>>

Unhide ==
    /\ view = "hidden"
    /\ view' = "visible"
    /\ UNCHANGED <<editVars, userVars, ctx, contexts, current, showing, screen, inbox>>

\* onDidDispose; the webview's clicks go with it.
Dispose ==
    /\ Ready
    /\ view' = "closed"
    /\ screen' = Data(Blank) /\ inbox' = None
    /\ UNCHANGED <<editVars, userVars, ctx, contexts, current, showing>>

\* canSend
CanSend == /\ screen.task # None /\ screen.account = "yes" /\ ~screen.busy
           /\ screen.session # None => screen.session.open

CanStart(mode) == /\ screen.task # None /\ screen.account = "yes" /\ ~screen.busy
                  /\ mode = "defend" => screen.subm # None

Click(m) == view = "visible" /\ inbox = None /\ inbox' = m
            /\ UNCHANGED <<editVars, userVars, ctx, contexts, current, showing, view, screen>>

ClickStart == \E mode \in {"hint", "defend"} :
                 CanStart(mode) /\ Click([type |-> mode, task |-> screen.task])
ClickSend == CanSend /\ Click([type |-> "send", task |-> screen.task])
ClickRefresh == ~screen.busy /\ Click([type |-> "refresh", task |-> screen.task])

-----------------------------------------------------------------------------
(* onMessage *)

\* ready: the bundle has loaded.
ViewReady ==
    /\ view = "loading"
    /\ view' = "visible"
    /\ IF current = 0 THEN UNCHANGED ctx ELSE Set(current, Refresh(ctx[current]))
    /\ UNCHANGED <<contexts, current>>
    /\ UNCHANGED <<editVars, userVars, showing, inbox>>
    /\ Publish

\* start(): the code is read, which may wait for the disk.
Starting(c, mode) == [c EXCEPT !.op = "code", !.mode = mode, !.read = buffer[c.task]]

\* send() of a typed text: another mode than defend sends the code too.
Sending(c) == [c EXCEPT !.op = IF c.session.mode = "defend" THEN "send" ELSE "sendCode",
                        !.using = c.session]

\* Mutant: the click is not compared with the task it was made for.
TakesAny(c, m) == ~Busy(c)

\* A click from another task, or during an operation, is dropped.
Takes(c, m) == m.task = c.task /\ ~Busy(c)

\* perform() with the operation the click asks for.
Performed(c, m) ==
    LET b == [c EXCEPT !.error = FALSE]
        w == [b EXCEPT !.text = m.task]
    IN  IF m.type \in {"hint", "defend"} THEN Starting(b, m.type)
        ELSE IF c.session = None THEN Starting(w, "hint") ELSE Sending(w)

OnMessage ==
    /\ inbox # None
    /\ inbox' = None
    /\ IF current = 0 THEN UNCHANGED ctx
       ELSE LET c == ctx[current]
            IN  IF inbox.type = "refresh" THEN Set(current, Refresh(c))
                ELSE IF Takes(c, inbox) THEN Set(current, Performed(c, inbox))
                ELSE UNCHANGED ctx
    /\ UNCHANGED <<contexts, current, view>>
    /\ UNCHANGED <<editVars, userVars, showing>>
    /\ Publish

-----------------------------------------------------------------------------
(* The operation of context i goes on *)

Waits(i, op) == ctx[i].op = op /\ UNCHANGED <<editVars, userVars, Panel>>

\* The end of refresh(): a defense that show() asked for is started.
AutoStart(i, c) ==
    IF c.auto /\ c.account = "yes" /\ c.session = None
    THEN Set(i, Starting([c EXCEPT !.auto = FALSE], "defend")) /\ UNCHANGED screen
    ELSE End(i, c)

AccountAnswered(i) ==
    /\ Waits(i, "account")
    /\ \E a \in {"yes", "no"} :
          LET c == [ctx[i] EXCEPT !.account = a]
          IN  IF ~Attached(i) THEN End(i, c)
              ELSE IF c.subm = None
              THEN Set(i, [c EXCEPT !.op = "lists", !.read = buffer[c.task]]) /\ UNCHANGED screen
              ELSE AutoStart(i, c)

\* The submission of the code as it was, unless it is confirmed or outdated.
ListsAnswered(i) ==
    /\ Waits(i, "lists")
    /\ IF ~Attached(i) THEN End(i, ctx[i])
       ELSE \E found \in {None} \cup ({ctx[i].read} \cap passed[ctx[i].task]) :
               AutoStart(i, [ctx[i] EXCEPT !.subm = found, !.hash = found])

\* Mutant: busy is cleared only after a success; nothing follows an error.
CaughtForEver(i, c) == Set(i, [c EXCEPT !.op = "failed", !.error = TRUE]) /\ UNCHANGED screen

\* perform() catches: an attached context asks for the account once more.
Caught(i, c) == IF Attached(i)
                THEN Set(i, [c EXCEPT !.op = "recover", !.error = TRUE]) /\ UNCHANGED screen
                ELSE End(i, c)

\* Mutant: the code is sent as it is, checked or not.
CodeReadUnchecked(i) ==
    /\ Waits(i, "code")
    /\ IF ~Attached(i) THEN End(i, ctx[i])
       ELSE Set(i, [ctx[i] EXCEPT !.op = "create", !.asked = ctx[i].subm]) /\ UNCHANGED screen

\* Mutant: the context is not looked up again after the wait.
CodeReadDetached(i) ==
    /\ Waits(i, "code")
    /\ IF ctx[i].mode = "defend" /\ ctx[i].hash # ctx[i].read
       THEN Caught(i, [ctx[i] EXCEPT !.subm = None])
       ELSE Set(i, [ctx[i] EXCEPT !.op = "create", !.asked = ctx[i].subm]) /\ UNCHANGED screen

\* start() has the code: createAISession, unless the code was not the checked one.
CodeRead(i) ==
    /\ Waits(i, "code")
    /\ IF ~Attached(i) THEN End(i, ctx[i])
       ELSE IF ctx[i].mode = "defend" /\ ctx[i].hash # ctx[i].read
       THEN Caught(i, [ctx[i] EXCEPT !.subm = None])
       ELSE Set(i, [ctx[i] EXCEPT !.op = "create", !.asked = ctx[i].subm]) /\ UNCHANGED screen

NewSession(c) == [task |-> c.task, owner |-> student, mode |-> c.mode, open |-> TRUE,
                  subm |-> IF c.mode = "defend" THEN c.asked ELSE None]

\* What follows createAISession: the opening message, or the typed one.
AfterCreate(i, c, empty) ==
    IF Attached(i) /\ c.mode = "defend" /\ empty
    THEN Set(i, [c EXCEPT !.op = "send", !.using = c.session]) /\ UNCHANGED screen
    ELSE IF c.text # None THEN Set(i, Sending(c)) /\ UNCHANGED screen
    ELSE End(i, c)

\* Mutant: the answer goes to the task the panel shows now.
CreatedForCurrent(i) ==
    /\ Waits(i, "create")
    /\ current # 0
    /\ LET s == NewSession(ctx[i])
           c == IF current = i THEN [ctx[i] EXCEPT !.session = s] ELSE ctx[i]
       IN  ctx' = [j \in Slot |-> IF j = i THEN Ended(i, c)
                                  ELSE IF j = current THEN [ctx[j] EXCEPT !.session = s]
                                  ELSE ctx[j]]
    /\ Publish

Created(i) ==
    /\ Waits(i, "create")
    /\ ctx[i].mode = "defend" => ctx[i].asked # None
    /\ \E empty \in BOOLEAN :
          AfterCreate(i, [ctx[i] EXCEPT !.session = NewSession(ctx[i])], empty)

\* send() has the code.
SendCodeRead(i) ==
    /\ Waits(i, "sendCode")
    /\ IF Attached(i) THEN Set(i, [ctx[i] EXCEPT !.op = "send"]) /\ UNCHANGED screen
       ELSE End(i, ctx[i])

\* sendAIMessage was answered; a defense may be over with it.
Answered(i) ==
    /\ Waits(i, "send")
    /\ \E open \in {TRUE, ctx[i].using.mode # "defend"}, a \in {"yes", "no"} :
          End(i, [ctx[i] EXCEPT !.session = [ctx[i].using EXCEPT !.open = open],
                                !.account = a])

\* A request is refused or lost.
RequestFailed(i) ==
    /\ ctx[i].op \in {"account", "lists", "create", "send"}
    /\ UNCHANGED <<editVars, userVars, Panel>>
    /\ Caught(i, ctx[i])

\* The account that follows an error; a second error is swallowed.
Recovered(i) ==
    /\ Waits(i, "recover")
    /\ \E a \in {"yes", "no", ctx[i].account} : End(i, [ctx[i] EXCEPT !.account = a])

-----------------------------------------------------------------------------

Init ==
    /\ buffer \in [Task -> Code]
    /\ passed = [t \in Task |-> {}]
    /\ checking = [t \in Task |-> None]
    /\ student \in Student
    /\ signingIn = FALSE
    /\ offline \in BOOLEAN
    /\ ctx = [i \in Slot |-> Blank]
    /\ contexts = [t \in Task |-> 0]
    /\ current = 0
    /\ showing = {}
    /\ view = "closed"
    /\ screen = Data(Blank)
    /\ inbox = None

TaskStep(t) == Follow(t) \/ Edit(t) \/ Ask(t) \/ BeginCheck(t) \/ CheckPassed(t) \/ CheckEnded(t)

OperationStep(i) ==
    \/ AccountAnswered(i) \/ ListsAnswered(i) \/ CodeRead(i) \/ Created(i)
    \/ SendCodeRead(i) \/ Answered(i) \/ RequestFailed(i) \/ Recovered(i)

Next ==
    \/ \E t \in Task : TaskStep(t)
    \/ \E i \in Slot : Focused(i) \/ OperationStep(i)
    \/ BeginLogin \/ Login \/ RecreateApi \/ Hide \/ Unhide \/ Dispose
    \/ ClickStart \/ ClickSend \/ ClickRefresh \/ ViewReady \/ OnMessage

\* Every request is answered or fails, a local read ends, and the editor carries
\* out its commands and delivers the webview's messages.
Spec == /\ Init /\ [][Next]_vars
        /\ \A i \in Slot : WF_vars(OperationStep(i)) /\ WF_vars(Focused(i))
        /\ WF_vars(ViewReady) /\ WF_vars(OnMessage)

-----------------------------------------------------------------------------
(* Properties *)

\* The values the panel's state takes; the map and the list of objects agree.
TypeOK ==
    /\ buffer \in [Task -> Code]
    /\ passed \in [Task -> SUBSET Code]
    /\ checking \in [Task -> Code \cup {None}]
    /\ student \in Student /\ {signingIn, offline} \subseteq BOOLEAN
    /\ contexts \in [Task -> Slot \cup {0}]
    /\ current = 0 \/ Attached(current)
    /\ ctx \in [Slot -> Context]
    /\ \A i \in Slot : ctx[i].task = None => ctx[i] = Blank
    /\ \A t \in Task : contexts[t] # 0 => ctx[contexts[t]].task = t

\* A text is sent in the dialogue of the task it was typed for, whatever was
\* opened between the click and the call.
MessageGoesToItsTask ==
    \A i \in Slot : ctx[i].op \in {"sendCode", "send"} /\ ctx[i].text # None
                        => ctx[i].using.task = ctx[i].text

\* A defense is asked for with the code its submission was checked with; without
\* a submission the server refuses it.
DefendsCheckedCode ==
    \A i \in Slot : ctx[i].op = "create" /\ ctx[i].mode = "defend"
                        => ctx[i].asked \in {ctx[i].read, None}

\* The dialogue a context keeps is about its task: an answer that arrives
\* after the student went to another task does not land there.
SessionOfTask ==
    \A i \in Slot : ctx[i].session # None => ctx[i].session.task = ctx[i].task

\* The webview shows the current context, and never waits for an operation
\* that has ended.
ScreenUpToDate ==
    Ready => /\ current = 0 => screen.task = None
             /\ current # 0 => screen.task = ctx[current].task
             /\ current # 0 /\ ~Busy(ctx[current]) => screen = Data(ctx[current])

\* After close() an operation that was running calls no model any more.
StopsPaying ==
    \A i \in Slot : ctx'[i].op \in {"create", "send"} /\ ctx'[i].op # ctx[i].op => Attached(i)
=============================================================================
