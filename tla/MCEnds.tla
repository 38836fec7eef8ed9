------------------------------- MODULE MCEnds -------------------------------
(***************************************************************************)
(* Small instances for what must eventually happen in the extension, the    *)
(* admin console and the student page, checked side by side: the modules    *)
(* share no state, and in a behaviour only the part drawn at the start      *)
(* moves.  Fairness is stated once, over what ends a wait in each part.     *)
(***************************************************************************)
EXTENDS Naturals, Sequences, FiniteSets

CONSTANTS t1, t2, x, y, s1, s2, l1, w1, c1, n1, ada, max, uv, ego, None

VARIABLES
    part,
    buffer, passed, checking, student, signingIn, offline, ctx, contexts, current, showing,
    view, screen, inbox,
    at, listeners, expected, ticket, failed, cancelled, late, asked, outcome, tokenOf, signer,
    spent, sent,
    acts, viewOffline, files, editor, choice, taskView, shownTask, results, page, click, bar,
    separate, op,
    server, draft, place, user, loggedIn, catalog, st, active, opened, lastDraft, waiting,
    opening, call, steps, writes, typed, origin,
    mode, local, published, rows, api, tokens, loads, started, checks, opens, progressMap,
    offlineTasks, tree, panel, ready, lastData, dash,
    owner, expired, checked, confirmed, required, token, stored, signedIn, selected, shown,
    face, detail, providers, unknown, forgejo, pc, own, fresh, got, openings,
    chats, used, turns, listed, chat, messages, task, loading, busy, starting, reading,
    creating, deleting, sending, post, pressed, crossed,
    disk, localMode, working, cached, entries, logs, runChecks, pushes, progress, runs, ran,
    received,
    role, valid, issued, storedToken, tab, calls

panelVars == <<buffer, passed, checking, student, signingIn, offline, ctx, contexts, current,
               showing, view, screen, inbox>>
loginVars == <<at, listeners, expected, ticket, failed, cancelled, late, asked, outcome,
               tokenOf, signer, spent, sent>>
taskVars == <<acts, viewOffline, files, editor, choice, taskView, shownTask, results, page, click,
              bar, separate, op>>
editorVars == <<server, draft, place, user, loggedIn, catalog, st, active, opened, lastDraft,
                waiting, opening, call, steps, writes, typed, origin>>
listVars == <<mode, local, published, rows, api, tokens, loads, started, checks, opens,
              progressMap, offlineTasks, tree, panel, ready, lastData, dash>>
studentVars == <<owner, expired, checked, confirmed, required, token, stored, signedIn, selected,
                 shown, face, detail, providers, unknown, forgejo, pc, own, fresh, got, openings>>
chatVars == <<chats, used, turns, listed, chat, messages, task, loading, busy, starting, reading,
              creating, deleting, sending, post, pressed, crossed>>
checkVars == <<disk, localMode, working, cached, entries, logs, runChecks, pushes, progress, runs,
               ran, received>>
frameVars == <<role, valid, issued, storedToken, tab, calls>>
endVars == <<part, panelVars, loginVars, taskVars, editorVars, listVars, studentVars, chatVars,
             checkVars, frameVars>>

Panel == INSTANCE AssistantPanel WITH Task <- {t1}, Code <- {x}, Student <- {s1}, Slot <- {1}
Login == INSTANCE ForgejoLogin WITH Attempt <- {l1}, Student <- {s1, s2}, pc <- at, token <- tokenOf
TaskView == INSTANCE TaskView WITH Task <- {t1, t2}, Op <- {1, 2}, MaxActs <- 2,
                offline <- viewOffline, view <- taskView, current <- shownTask, screen <- page,
                inbox <- click
Editor == INSTANCE CatalogEditor WITH Task <- {t1}, File <- {"markdown"}, Word <- {x, y},
              Proposal <- {}, User <- {ada}, MaxVersion <- 1, MaxActs <- 4, MaxWrites <- 1,
              view <- place, acts <- steps
Lists == INSTANCE TaskLists WITH Account <- {s1}, FirstVersion <- 9, LastVersion <- 10,
             MaxApi <- 1, MaxLoads <- 1, MaxOpens <- 1, MaxChecks <- 1, current <- published,
             token <- tokens
Page == INSTANCE StudentPage WITH Students <- {s1}, Tokens <- {n1}, Attempts <- {}, Tasks <- {t1},
            MaxChecks <- 0, user <- signedIn, screen <- face, panel <- detail, opening <- openings
Chat == INSTANCE AdminChat WITH Tabs <- {w1}, Embedded <- {}, Chats <- {c1}, Tasks <- {},
            MaxTurns <- 1, MaxAttempts <- 2, active <- chat, shown <- messages, selected <- task
Checks == INSTANCE LocalChecks WITH Tasks <- {t1}, Texts <- {x}, Right <- {x},
              Commands <- {uv, ego}, MaxChecks <- 1, MaxPushes <- 1, mode <- localMode,
              local <- entries, checks <- runChecks
Frame == INSTANCE Console WITH Tabs <- {w1}, Admins <- {ada}, Mentors <- {max}, Students <- {},
             MaxTokens <- 2, MaxCalls <- 2, stored <- storedToken

ASSUME EndsAssumption ==
    /\ Panel!PanelAssumption /\ TaskView!TaskViewAssumption /\ Editor!EditorAssumption
    /\ Lists!ListsAssumption /\ Page!PageAssumption /\ Chat!ChatAssumption
    /\ Checks!LocalAssumption /\ Frame!ConsoleAssumption

-----------------------------------------------------------------------------
EndsInit ==
    /\ part \in {"panel", "login", "view", "editor", "lists", "page", "chat", "checks", "frame"}
    /\ Panel!Init /\ (part # "panel" => ~offline)
    /\ Login!Init
    /\ TaskView!Init /\ (part # "view" => ~viewOffline /\ files = {})
    /\ Editor!Init /\ (part # "editor" => server[t1].content.text["markdown"] = x)
    /\ Lists!Init /\ (part # "lists" => mode = "server" /\ local = None /\ tokens = [i \in {1} |-> s1])
    /\ Page!Init /\ required[s1] = 0
    /\ Chat!Init /\ (part # "chat" => chats = {})
    /\ Checks!Init /\ (part # "checks" => localMode = "server" /\ working = {})
    /\ Frame!Init

OnlyPanel == UNCHANGED <<part, loginVars, taskVars, editorVars, listVars, studentVars, chatVars, checkVars, frameVars>>
OnlyLogin == UNCHANGED <<part, panelVars, taskVars, editorVars, listVars, studentVars, chatVars, checkVars, frameVars>>
OnlyView == UNCHANGED <<part, panelVars, loginVars, editorVars, listVars, studentVars, chatVars, checkVars, frameVars>>
OnlyEditor == UNCHANGED <<part, panelVars, loginVars, taskVars, listVars, studentVars, chatVars, checkVars, frameVars>>
OnlyLists == UNCHANGED <<part, panelVars, loginVars, taskVars, editorVars, studentVars, chatVars, checkVars, frameVars>>
OnlyPage == UNCHANGED <<part, panelVars, loginVars, taskVars, editorVars, listVars, chatVars, checkVars, frameVars>>
OnlyChat == UNCHANGED <<part, panelVars, loginVars, taskVars, editorVars, listVars, studentVars, checkVars, frameVars>>
OnlyChecks == UNCHANGED <<part, panelVars, loginVars, taskVars, editorVars, listVars, studentVars, chatVars, frameVars>>
OnlyFrame == UNCHANGED <<part, panelVars, loginVars, taskVars, editorVars, listVars, studentVars, chatVars, checkVars>>

EndsNext ==
    \/ part = "panel" /\ Panel!Next /\ OnlyPanel
    \/ part = "login" /\ Login!Next /\ OnlyLogin
    \/ part = "view" /\ TaskView!Next /\ OnlyView
    \/ part = "editor" /\ Editor!Next /\ OnlyEditor
    \/ part = "lists" /\ Lists!Next /\ OnlyLists
    \/ part = "page" /\ Page!Next /\ OnlyPage
    \/ part = "chat" /\ Chat!Next /\ OnlyChat
    \/ part = "checks" /\ Checks!Next /\ OnlyChecks
    \/ part = "frame" /\ Frame!Next /\ OnlyFrame

\* What ends the waits of each part.  A part's rows are fair separately; rows of
\* different parts share a condition, since no other part ever moves.  That the
\* command line of a check ends is an assumption about it: offlineCheck.ts:72-123
\* sets no limit for it, only runner.py:102 one for the solution it runs.
First ==
    \/ part = "panel" /\ Panel!OperationStep(1) /\ OnlyPanel
    \/ part = "login" /\ Login!Works(l1) /\ OnlyLogin
    \/ part = "view" /\ TaskView!Answer(1) /\ OnlyView
    \/ part = "editor" /\ Editor!Answers /\ OnlyEditor
    \/ part = "lists" /\ (\E l \in loads : Lists!Answer(l)) /\ OnlyLists
    \/ part = "page" /\ Page!FormProceeds /\ OnlyPage
    \/ part = "chat" /\ Chat!ReplyProceeds(1) /\ OnlyChat
    \/ part = "checks" /\ Checks!Proceeds(1) /\ OnlyChecks
    \/ part = "frame" /\ Frame!RestoreEnds(w1) /\ OnlyFrame

Second ==
    \/ part = "panel" /\ Panel!Focused(1) /\ OnlyPanel
    \/ part = "login" /\ Login!DeadlinePasses(l1) /\ OnlyLogin
    \/ part = "view" /\ TaskView!Answer(2) /\ OnlyView
    \/ part = "lists" /\ Lists!PageReady /\ OnlyLists
    \/ part = "page" /\ Page!RefreshProceeds /\ OnlyPage
    \/ part = "chat" /\ Chat!Opened(w1) /\ OnlyChat
    \/ part = "checks" /\ Checks!PushProceeds(1) /\ OnlyChecks
    \/ part = "frame" /\ Frame!SaveEnds(w1) /\ OnlyFrame

Third ==
    \/ part = "panel" /\ Panel!ViewReady /\ OnlyPanel
    \/ part = "view" /\ TaskView!ResolveView /\ OnlyView
    \/ part = "chat" /\ Chat!SendProceeds(w1) /\ OnlyChat

Fourth ==
    \/ part = "panel" /\ Panel!OnMessage /\ OnlyPanel
    \/ part = "view" /\ (\E s \in {1, 2} : TaskView!ViewReady(s)) /\ OnlyView

Fifth == part = "view" /\ (\E s \in {1, 2} : TaskView!Deliver(s)) /\ OnlyView

EndsSpec ==
    /\ EndsInit /\ [][EndsNext]_endVars
    /\ WF_endVars(First) /\ WF_endVars(Second) /\ WF_endVars(Third) /\ WF_endVars(Fourth)
    /\ WF_endVars(Fifth)

\* Bound: nobody grants a student access to the AI meanwhile.
NoAccess == required[s1] = 0
\* Bound: nobody signs in from VS Code while the assistant's panel works.
SignedIn == part = "panel" => ~signingIn

-----------------------------------------------------------------------------
(* Properties *)

\* What keeps the user's controls occupied in a part.
Occupied ==
    CASE part = "panel" -> Panel!Busy(ctx[1])
      [] part = "login" -> at[l1] \in {"pausing", "exchanging"}
      [] part = "editor" -> st[t1] # None /\ Editor!Busy(st[t1])
      [] part = "page" -> pc["form"] # "idle"
      [] part = "chat" -> busy[w1]
      [] part = "checks" -> runChecks[1].stage \notin {"unused", "ended"}
      [] part = "frame" -> tab[w1].busy
      [] OTHER -> FALSE

\* What the user looks at is not there yet, or never comes to rest.
Pending ==
    CASE part = "view" -> ~TaskView!Settled
      [] part = "lists" -> panel /\ dash = None
      [] part = "page" -> pc["refresh"] # "idle"
      [] part = "chat" -> Chat!Stopped(1) /\ ~Chat!Over(1)
      [] part = "checks" -> pushes[1].stage \notin {"unused", "ended"}
      [] OTHER -> FALSE

\* An operation of the assistant's panel (perform), an attempt to sign in
\* (forgejoLogin), a task that loads, validates or saves (EditorWorkspace), the
\* student page's form, a message of the administrator's chat (send), a check
\* (runCheckOnCode) and the console's frame: whatever fails, expires, is closed,
\* hidden or dies, the controls come back.
EveryOperationEnds == Occupied ~> ~Occupied

\* The side bar settles on a statement or an error, the dashboard that stays open
\* gets something to show, the refresh button comes back, a stopped reply frees
\* its chat (docs/TASK_AUTHORING.md:587) unless the server has died, and the
\* push's notification goes away.
EveryViewSettles == Pending ~> ~Pending
=============================================================================
