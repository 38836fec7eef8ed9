---------------------------- MODULE CatalogEditor ----------------------------
(* The catalogue editor of the admin console in one browser tab: App.svelte's
   navigation and session, StudioWorkspace's proposals from the docked chat,
   EditorWorkspace's tabs, buffers, loads, checks and saves, and the server's
   compare-and-save of a task's files, with other authors writing to it.

   A task's content is the text of its files and the version declared in the
   Markdown file's frontmatter (Unset when it declares none). What the server
   sends with it, the task's version in the database, makes a Snapshot; the etag
   is a digest of the content, so a version and an etag are a Snapshot too.
   The user is an administrator and the repository is writable.  Requests are
   answered in steps of their own; everything between two awaits of the page is
   one step.                                                                 *)
EXTENDS Naturals, FiniteSets

CONSTANTS Task,       \* tasks of the catalogue
          File,       \* files of a task, "markdown" among them
          Word,       \* what a file can say
          Proposal,   \* proposals the assistant may make
          User,       \* administrators who sign in on this tab
          None,       \* no state, no tab, no proposal
          MaxVersion, \* bound: versions declared or stored
          MaxActs,    \* bound: acts of the user
          MaxWrites   \* bound: writes of other authors

Unset == MaxVersion + 1
Content == [text : [File -> Word], declared : 0 .. Unset]
Snapshot == [content : Content, version : 0 .. MaxVersion]
Draft == [task : Task, base : Snapshot, content : Content]
Notice == {"", "ready", "applied", "saved", "kept", "discarded", "bumped", "closed", "other"}
\* taskStates: what the page keeps of a task.
TaskState == [studio : Snapshot \cup {None}, buf : Content \cup {None}, base : Snapshot \cup {None},
              loading : BOOLEAN, loadError : BOOLEAN, saving : BOOLEAN, validating : BOOLEAN,
              conflict : BOOLEAN, pending : Proposal \cup {None}, result : Content \cup {None},
              notice : Notice]

EditorAssumption ==
    /\ "markdown" \in File
    /\ MaxVersion \in Nat /\ MaxActs \in Nat /\ MaxWrites \in Nat
    /\ None \notin Proposal \cup Content \cup Snapshot \cup Draft \cup TaskState

VARIABLES server,   \* Task -> Snapshot: the files and the database
          draft,    \* Proposal -> the task draft the chat shows, or None
          view,     \* App.svelte's view: the editor or another page
          user,     \* App.svelte's userId
          loggedIn, \* App.svelte's loggedIn
          catalog,  \* the explorer's catalogue: loading, listed or missing
          st,       \* taskStates
          active,   \* the active tab <<task, file>>
          opened,   \* tabs
          lastDraft,\* the draft the last effect run saw
          waiting,  \* drafts whose openExternal waits for the catalogue
          opening,  \* the newest navigation waiting for a load
          call,     \* Task -> the request in flight
          acts, writes,
          typed,    \* history: Task -> text typed and not given up, or None
          origin    \* history: Task -> the server's content the buffers stem from
page == <<catalog, st, active, opened, lastDraft, waiting, opening, call>>
history == <<typed, origin>>
vars == <<server, draft, view, user, loggedIn, page, acts, writes, history>>

NoCall == [op |-> "none", then |-> "", auth |-> TRUE, stage |-> "", body |-> None]
Call == [op : {"none", "load", "save", "validate"}, then : {"", "save", "discard"},
         auth : BOOLEAN, stage : {"", "sent", "answered", "failed"}, body : {None} \cup Draft \cup Snapshot]

\* emptyState
EmptyState == [studio |-> None, buf |-> None, base |-> None, loading |-> FALSE,
               loadError |-> FALSE, saving |-> FALSE, validating |-> FALSE,
               conflict |-> FALSE, pending |-> None, result |-> None, notice |-> ""]

\* isTaskDirty: a conflict, or a buffer that differs from what was loaded.
Differs(s) == s.studio # None /\ s.buf # s.studio.content
IsTaskDirty(s) == s # None /\ (s.conflict \/ Differs(s))
Busy(s) == s # None /\ (s.loading \/ s.saving \/ s.validating)
GlobalBusy == \E t \in Task : st[t] # None /\ (st[t].saving \/ st[t].validating)
CanWrite(s) == s # None /\ s.studio # None /\ ~s.conflict

-----------------------------------------------------------------------------
(* Opening and loading *)

InEditor == view = "editor" /\ loggedIn
Act == acts < MaxActs /\ acts' = acts + 1
Quiet == UNCHANGED <<acts, writes, server, draft>>
Stay == UNCHANGED <<view, user, loggedIn>>

\* ensureLoaded's request; a shared or finished load sends none.
Loading(s) == [s EXCEPT !.loading = TRUE, !.loadError = FALSE, !.notice = ""]
LoadCall(then) == [NoCall EXCEPT !.op = "load", !.then = then, !.auth = loggedIn,
                                 !.stage = "sent"]
NeedsLoad(t) == (st[t] = None \/ st[t].studio = None) /\ call[t].op # "load"
Fetch(t, s) ==
    IF NeedsLoad(t)
      THEN /\ st' = [st EXCEPT ![t] = Loading(s)]
           /\ call' = [call EXCEPT ![t] = LoadCall("")]
      ELSE st' = [st EXCEPT ![t] = s] /\ UNCHANGED call
ForceLoad(t, then) == call' = [call EXCEPT ![t] = LoadCall(then)]

\* openDoc
OpenDoc(t, f) == opened' = opened \cup {<<t, f>>} /\ active' = <<t, f>>
StateOf(t) == IF st[t] = None THEN EmptyState ELSE st[t]

\* openExternal's last step: a draft that fits what the page takes for the
\* server's version is pending, any other pending and in conflict.
Matches(s, p) == s.base # None /\ draft[p].base = s.base
PutDraft(s, p) == [s EXCEPT !.pending = p, !.conflict = ~Matches(s, p), !.notice = "ready"]

\* openExternal with the catalogue there (or missing): a navigation that waits
\* for the task's load when the task has not been loaded.
OpenExternal(p) ==
    LET t == draft[p].task IN
    /\ OpenDoc(t, "markdown")
    /\ IF st[t] # None /\ st[t].studio # None
         THEN /\ st' = [st EXCEPT ![t] = PutDraft(@, p)]
              /\ opening' = None /\ UNCHANGED call
         ELSE Fetch(t, StateOf(t)) /\ opening' = [task |-> t, file |-> "markdown", draft |-> p]

\* focusTask: a file chosen in the explorer.
FocusTask(t, f) ==
    /\ InEditor /\ catalog = "listed" /\ Act
    /\ OpenDoc(t, f)
    /\ Fetch(t, StateOf(t))
    /\ opening' = IF st[t] # None /\ st[t].studio # None THEN None
                  ELSE [task |-> t, file |-> f, draft |-> None]
    /\ UNCHANGED <<server, draft, writes, catalog, lastDraft, waiting, history>> /\ Stay

\* A click on a tab, refused while the tab's task is busy.
ChooseTab(tab) ==
    /\ InEditor /\ Act /\ tab \in opened \ {active} /\ ~Busy(st[tab[1]])
    /\ active' = tab
    /\ UNCHANGED <<server, draft, writes, catalog, st, opened, lastDraft, waiting, opening, call, history>>
    /\ Stay

\* What an answered load makes of the task.
Loaded(s, data) ==
    [s EXCEPT !.studio = data, !.buf = data.content, !.base = data, !.loading = FALSE,
              !.loadError = FALSE, !.conflict = FALSE, !.pending = None]
LoadFailed(s) == [s EXCEPT !.loading = FALSE, !.loadError = TRUE]

\* saveActive after its reload, and discardTaskDraft after its own.
\* Mutant: the failed reload is not looked at.
AfterSaveBold(s) == [s EXCEPT !.saving = FALSE, !.notice = "saved"]
AfterSave(s) ==
    [s EXCEPT !.saving = FALSE, !.notice = IF s.loadError \/ s.loading THEN "kept" ELSE "saved"]
AfterDiscard(s) == [s EXCEPT !.pending = None, !.conflict = FALSE, !.notice = "discarded"]
Then(s, then) == CASE then = "save" -> AfterSave(s)
                   [] then = "discard" -> AfterDiscard(s)
                   [] OTHER -> s

\* A load ends: the task takes the answer or the error, then whoever waited for
\* it goes on, the newest navigation last.
LoadEnds(t) ==
    /\ call[t].op = "load" /\ call[t].stage \in {"answered", "failed"}
    /\ LET read == IF call[t].stage = "answered" THEN Loaded(st[t], call[t].body)
                   ELSE LoadFailed(st[t])
           next == Then(read, call[t].then)
           mine == opening # None /\ opening.task = t
       IN  /\ st' = [st EXCEPT ![t] = IF mine /\ opening.draft # None
                                        THEN PutDraft(next, opening.draft) ELSE next]
           /\ IF mine THEN OpenDoc(t, opening.file) /\ opening' = None
              ELSE UNCHANGED <<opened, active, opening>>
    /\ call' = [call EXCEPT ![t] = NoCall]
    /\ origin' = IF call[t].stage = "answered" /\ st'[t].buf = call[t].body.content
                 THEN [origin EXCEPT ![t] = call[t].body.content] ELSE origin
    /\ UNCHANGED <<catalog, lastDraft, waiting, typed>> /\ Quiet /\ Stay

\* reloadActive, and the retry offered when the first load failed.
Reload ==
    /\ InEditor /\ active # None
    /\ LET t == active[1] IN
       /\ ~Busy(st[t]) /\ (st[t].studio # None \/ st[t].loadError) /\ Act
       /\ st' = [st EXCEPT ![t] = Loading(@)]
       /\ ForceLoad(t, "")
       /\ typed' = IF IsTaskDirty(st[t]) THEN [typed EXCEPT ![t] = None] ELSE typed
    /\ UNCHANGED <<server, draft, writes, catalog, active, opened, lastDraft, waiting, opening, origin>>
    /\ Stay

\* discardTaskDraft, confirmed.
Discard ==
    /\ InEditor /\ active # None
    /\ LET t == active[1] IN
       /\ st[t].studio # None /\ IsTaskDirty(st[t]) /\ ~Busy(st[t]) /\ Act
       /\ st' = [st EXCEPT ![t] = Loading(@)]
       /\ ForceLoad(t, "discard")
       /\ typed' = [typed EXCEPT ![t] = None]
    /\ UNCHANGED <<server, draft, writes, catalog, active, opened, lastDraft, waiting, opening, origin>>
    /\ Stay

-----------------------------------------------------------------------------
(* Editing *)

\* The author's text, kept in the history while it is unsaved and not given up.
Typed(t, s) == IF Differs(s) THEN [typed EXCEPT ![t] = s.buf] ELSE [typed EXCEPT ![t] = None]

\* Variant: typing goes on while a request of the task is in flight.
MayEditBusy(t) == CanWrite(st[t])
MayEdit(t) == ~Busy(st[t]) /\ CanWrite(st[t])

\* editValue and bumpPatchVersion: a patch of one file, its results forgotten.
EditTo(t, buf, notice) ==
    LET s == [st[t] EXCEPT !.buf = buf, !.result = None, !.notice = notice] IN
    /\ st' = [st EXCEPT ![t] = s]
    /\ typed' = Typed(t, s)
    /\ UNCHANGED <<server, draft, writes, catalog, active, opened, lastDraft, waiting,
                   opening, call, origin>> /\ Stay

\* MonacoEditor's onChange for text the author types; a value set by the page
\* itself is suppressed there.  The declared version is part of the Markdown.
EditValue ==
    /\ InEditor /\ active # None /\ MayEdit(active[1]) /\ Act
    /\ LET t == active[1]   f == active[2]   buf == st[t].buf IN
       \/ \E w \in Word \ {buf.text[f]} :
            EditTo(t, [buf EXCEPT !.text = [@ EXCEPT ![f] = w]], st[t].notice)
       \/ /\ f = "markdown"
          /\ \E v \in {0, Unset} \ {buf.declared} : EditTo(t, [buf EXCEPT !.declared = v], st[t].notice)

\* bumpPatchVersion: the declared patch number plus one, or the stored one's
\* when the frontmatter declares none.
Bumped(s) == IF s.buf.declared = Unset THEN s.studio.version + 1 ELSE s.buf.declared + 1
BumpPatchVersion ==
    /\ InEditor /\ active # None /\ MayEdit(active[1]) /\ Bumped(st[active[1]]) <= MaxVersion /\ Act
    /\ LET t == active[1] IN EditTo(t, [st[t].buf EXCEPT !.declared = Bumped(st[t])], "bumped")

\* One file of the buffers as it was loaded.
Reverted(s, f) ==
    LET text == [s.buf.text EXCEPT ![f] = s.studio.content.text[f]]
        declared == IF f = "markdown" THEN s.studio.content.declared ELSE s.buf.declared
    IN  [text |-> text, declared |-> declared]
FileDirty(s, f) == s.studio # None /\ s.buf # Reverted(s, f)

\* closeDoc, confirmed when the file was changed: that file alone goes back.
CloseDoc(tab) ==
    LET t == tab[1]   f == tab[2]   dirty == FileDirty(st[t], f)
        s == [st[t] EXCEPT !.buf = Reverted(st[t], f), !.notice = "closed"]
        kept == [text |-> [typed[t].text EXCEPT ![f] = s.buf.text[f]],
                 declared |-> IF f = "markdown" THEN s.buf.declared ELSE typed[t].declared]
    IN
    /\ InEditor /\ tab \in opened /\ ~Busy(st[t]) /\ Act
    /\ st' = IF dirty THEN [st EXCEPT ![t] = s] ELSE st
    /\ typed' = IF ~dirty \/ typed[t] = None THEN typed
                ELSE [typed EXCEPT ![t] = IF kept = s.studio.content THEN None ELSE kept]
    /\ opened' = opened \ {tab}
    /\ active' \in IF active # tab THEN {active}
                   ELSE IF opened = {tab} THEN {None} ELSE opened \ {tab}
    /\ UNCHANGED <<server, draft, writes, catalog, lastDraft, waiting, opening, call, origin>>
    /\ Stay

\* applyPendingDraft, confirmed when the task has local changes.
ApplyPendingDraft ==
    /\ InEditor /\ active # None
    /\ LET t == active[1]   s == st[t] IN
       /\ s.pending # None /\ s.studio # None /\ ~Busy(s) /\ Act
       /\ LET p == draft[s.pending] IN
          /\ st' = [st EXCEPT ![t] =
                IF Matches(s, s.pending)
                  THEN [s EXCEPT !.buf = p.content, !.pending = None, !.conflict = FALSE,
                                 !.notice = "applied"]
                  ELSE [s EXCEPT !.buf = p.content, !.base = p.base, !.pending = None,
                                 !.conflict = TRUE]]
          /\ origin' = [origin EXCEPT ![t] = p.base.content]
       /\ typed' = [typed EXCEPT ![t] = None]
    /\ UNCHANGED <<server, draft, writes, catalog, active, opened, lastDraft, waiting, opening, call>>
    /\ Stay

-----------------------------------------------------------------------------
(* Checking and saving *)

Body(t) == [task |-> t, base |-> st[t].base, content |-> st[t].buf]
Sendable(t) == ~Busy(st[t]) /\ CanWrite(st[t]) /\ IsTaskDirty(st[t])
Send(t, op) == call' = [call EXCEPT ![t] = [op |-> op, then |-> "", auth |-> loggedIn,
                                            stage |-> "sent", body |-> Body(t)]]

\* validateActive
ValidateActive ==
    /\ InEditor /\ active # None /\ Sendable(active[1]) /\ Act
    /\ st' = [st EXCEPT ![active[1]] = [@ EXCEPT !.validating = TRUE, !.result = None, !.notice = ""]]
    /\ Send(active[1], "validate")
    /\ UNCHANGED <<server, draft, writes, catalog, active, opened, lastDraft, waiting, opening, history>>
    /\ Stay

\* saveActive: the button, Ctrl+S in the editor and on the page.
SaveActive ==
    /\ InEditor /\ active # None /\ Sendable(active[1]) /\ Act
    /\ st' = [st EXCEPT ![active[1]] = [@ EXCEPT !.saving = TRUE, !.result = None, !.notice = ""]]
    /\ Send(active[1], "save")
    /\ UNCHANGED <<server, draft, writes, catalog, active, opened, lastDraft, waiting, opening, history>>
    /\ Stay

\* The answer to a check: shown when the version and etag are still the ones sent.
ValidateEnds(t) ==
    /\ call[t].op = "validate" /\ call[t].stage \in {"answered", "failed"}
    /\ st' = [st EXCEPT ![t] =
          [st[t] EXCEPT !.validating = FALSE,
                        !.result = IF call[t].stage = "answered" /\ st[t].base = call[t].body.base
                                     THEN call[t].body.content ELSE st[t].result]]
    /\ call' = [call EXCEPT ![t] = NoCall]
    /\ UNCHANGED <<catalog, active, opened, lastDraft, waiting, opening, history>> /\ Quiet /\ Stay

Refused(s) == [s EXCEPT !.saving = FALSE]

\* The answer to a save: the task is reloaded, or the error is shown.
SaveEnds(t) ==
    /\ call[t].op = "save" /\ call[t].stage \in {"answered", "failed"}
    /\ IF call[t].stage = "answered"
         THEN /\ st' = [st EXCEPT ![t] = Loading(@)]
              /\ ForceLoad(t, "save")
              /\ typed' = [typed EXCEPT ![t] = None]
         ELSE /\ st' = [st EXCEPT ![t] = Refused(@)]
              /\ call' = [call EXCEPT ![t] = NoCall]
              /\ UNCHANGED typed
    /\ UNCHANGED <<catalog, active, opened, lastDraft, waiting, opening, origin>>
    /\ Quiet /\ Stay

-----------------------------------------------------------------------------
(* The server and the other authors *)

\* What a save or a check is accepted for: the version and the etag read are
\* the current ones, and a changed content declares a later version.  Whether
\* the files parse and compile is the server's to find: it may refuse any.
\* Variant: the etag is not compared.
CurrentByVersion(body) == body.base.version = server[body.task].version
Current(body) == body.base = server[body.task]
Acceptable(body) ==
    /\ Current(body)
    /\ body.content.declared # Unset
    /\ body.content # server[body.task].content => body.content.declared > server[body.task].version

Answer(t, data) == call' = [call EXCEPT ![t].stage = "answered", ![t].body = data]
ServerStay == UNCHANGED <<catalog, st, active, opened, lastDraft, waiting, opening, acts, writes,
                          draft, history>> /\ Stay

ServerLoad(t) ==
    /\ call[t].op = "load" /\ call[t].stage = "sent" /\ call[t].auth
    /\ Answer(t, server[t]) /\ UNCHANGED server /\ ServerStay

ServerValidate(t) ==
    /\ call[t].op = "validate" /\ call[t].stage = "sent" /\ call[t].auth /\ Acceptable(call[t].body)
    /\ Answer(t, call[t].body) /\ UNCHANGED server /\ ServerStay

\* save_task_studio: validated, compared and replaced under the write lock.
ServerSave(t) ==
    /\ call[t].op = "save" /\ call[t].stage = "sent" /\ call[t].auth /\ Acceptable(call[t].body)
    /\ server' = [server EXCEPT ![t] = [content |-> call[t].body.content,
                                        version |-> call[t].body.content.declared]]
    /\ Answer(t, call[t].body) /\ ServerStay

\* An error: the request, its answer or the server failed, a save or a check was
\* refused, or the token was (then the console asks for a new sign-in).
CallFails(t) ==
    /\ call[t].stage \in {"sent", "answered"} /\ call[t].auth
    /\ call' = [call EXCEPT ![t].stage = "failed"]
    /\ UNCHANGED server /\ ServerStay
SessionExpired(t) ==
    /\ call[t].stage = "sent"
    /\ call' = [call EXCEPT ![t].stage = "failed"]
    /\ loggedIn' = FALSE
    /\ UNCHANGED <<server, view, user, catalog, st, active, opened, lastDraft, waiting, opening,
                   acts, writes, draft, history>>

\* Another author's save, or files changed on disk without a sync.
OtherWrites(t) ==
    /\ writes < MaxWrites /\ writes' = writes + 1
    /\ \E c \in Content :
         /\ c.declared # Unset /\ c # server[t].content
         /\ \/ c.declared > server[t].version /\ server' = [server EXCEPT ![t] = [content |-> c, version |-> c.declared]]
            \/ c.declared = server[t].content.declared /\ server' = [server EXCEPT ![t].content = c]
    /\ UNCHANGED <<view, user, loggedIn, page, acts, draft, history>>

\* The assistant proposes a change of a task it has read.
Propose(p) ==
    /\ draft[p] = None
    /\ \E t \in Task, w \in Word :
         draft' = [draft EXCEPT ![p] =
            [task |-> t, base |-> server[t],
             content |-> [text |-> [server[t].content.text EXCEPT !["markdown"] = w],
                          declared |-> server[t].content.declared]]]
    /\ UNCHANGED <<server, view, user, loggedIn, page, acts, writes, history>>

-----------------------------------------------------------------------------
(* Proposals and pages *)

\* StudioWorkspace.reviewTask: refused while the editor checks or saves; the
\* editor's effect runs when the draft is another than the last.
ReviewTask(p) ==
    /\ InEditor /\ draft[p] # None /\ ~GlobalBusy /\ lastDraft # p /\ Act
    /\ lastDraft' = p
    /\ IF catalog = "loading"
         THEN waiting' = waiting \cup {p} /\ UNCHANGED <<st, active, opened, opening, call>>
         ELSE OpenExternal(p) /\ UNCHANGED waiting
    /\ UNCHANGED <<server, draft, writes, catalog, typed, origin>> /\ Stay

\* loadCatalog ends; the drafts that waited are opened at their next look.
CatalogEnds ==
    /\ view = "editor" /\ catalog = "loading"
    /\ catalog' \in {"listed", "missing"}
    /\ UNCHANGED <<st, active, opened, lastDraft, waiting, opening, call, history>> /\ Quiet /\ Stay
CatalogRetry ==
    /\ InEditor /\ catalog = "missing" /\ Act /\ catalog' = "loading"
    /\ UNCHANGED <<server, draft, writes, st, active, opened, lastDraft, waiting, opening, call, history>>
    /\ Stay
OpenWaiting(p) ==
    /\ view = "editor" /\ catalog # "loading" /\ p \in waiting
    /\ waiting' = waiting \ {p}
    /\ OpenExternal(p)
    /\ UNCHANGED <<catalog, lastDraft, history>> /\ Quiet /\ Stay

\* EditorWorkspace leaves the page: its state is gone, answers find it disposed.
Fresh == /\ st' = [t \in Task |-> None] /\ call' = [t \in Task |-> NoCall]
         /\ active' = None /\ opened' = {} /\ opening' = None
         /\ typed' = [t \in Task |-> None] /\ origin' = [t \in Task |-> None]
Unmount == Fresh /\ catalog' = "loading" /\ waiting' = {} /\ lastDraft' = None
\* It mounts again with the draft the console passes, if any.
Mount(p) == Fresh /\ catalog' = "loading" /\ lastDraft' = p
            /\ waiting' = IF p = None THEN {} ELSE {p}

\* navTo away from the editor: refused while busy, confirmed when dirty.
NavAway ==
    /\ InEditor /\ ~GlobalBusy /\ Act /\ view' = "elsewhere" /\ Unmount
    /\ UNCHANGED <<server, draft, writes, user, loggedIn>>
\* navTo the editor, and reviewTask of App.svelte from the assistant's page.
NavEditor(p) ==
    /\ view = "elsewhere" /\ loggedIn /\ Act /\ p \in {None} \cup {q \in Proposal : draft[q] # None}
    /\ view' = "editor" /\ Mount(p)
    /\ UNCHANGED <<server, draft, writes, user, loggedIn>>

KeepsPage(u) == user = None \/ u = user
\* accept, after a sign-in on the page shown over the hidden console.
LogIn(u) ==
    /\ ~loggedIn /\ Act /\ loggedIn' = TRUE /\ user' = u
    /\ IF KeepsPage(u) \/ view # "editor"
         THEN /\ view' = IF KeepsPage(u) THEN view ELSE "elsewhere"
              /\ UNCHANGED <<page, history>>
         ELSE /\ view' = "elsewhere" /\ Unmount
    /\ UNCHANGED <<server, draft, writes>>
\* logout: refused while busy, confirmed when dirty.
Logout ==
    /\ loggedIn /\ ~GlobalBusy /\ Act /\ loggedIn' = FALSE /\ user' = None /\ view' = "elsewhere"
    /\ IF view = "editor" THEN Unmount ELSE UNCHANGED <<page, history>>
    /\ UNCHANGED <<server, draft, writes>>

-----------------------------------------------------------------------------
Init ==
    /\ \E w \in Word :
         server = [t \in Task |-> [content |-> [text |-> [f \in File |-> w], declared |-> 0], version |-> 0]]
    /\ draft = [p \in Proposal |-> None]
    /\ view = "elsewhere" /\ user \in User /\ loggedIn = TRUE /\ catalog = "loading"
    /\ st = [t \in Task |-> None] /\ active = None /\ opened = {} /\ lastDraft = None
    /\ waiting = {} /\ opening = None /\ call = [t \in Task |-> NoCall]
    /\ acts = 0 /\ writes = 0
    /\ typed = [t \in Task |-> None] /\ origin = [t \in Task |-> None]

Answers == \E t \in Task : \/ LoadEnds(t) \/ ValidateEnds(t) \/ SaveEnds(t)
                           \/ ServerLoad(t) \/ ServerValidate(t) \/ ServerSave(t)
                           \/ CallFails(t) \/ SessionExpired(t)
Next ==
    \/ \E t \in Task : LoadEnds(t) \/ ValidateEnds(t) \/ SaveEnds(t)
    \/ \E t \in Task : ServerLoad(t) \/ ServerValidate(t) \/ ServerSave(t)
    \/ \E t \in Task : CallFails(t) \/ SessionExpired(t) \/ OtherWrites(t)
    \/ \E t \in Task, f \in File : FocusTask(t, f)
    \/ \E tab \in opened : ChooseTab(tab) \/ CloseDoc(tab)
    \/ Reload \/ Discard \/ EditValue \/ BumpPatchVersion \/ ApplyPendingDraft
    \/ ValidateActive \/ SaveActive
    \/ \E p \in Proposal : Propose(p) \/ ReviewTask(p) \/ OpenWaiting(p)
    \/ CatalogEnds \/ CatalogRetry \/ NavAway \/ \E p \in Proposal \cup {None} : NavEditor(p)
    \/ \E u \in User : LogIn(u)
    \/ Logout
Spec == Init /\ [][Next]_vars

-----------------------------------------------------------------------------
(* Properties *)

TypeOK ==
    /\ server \in [Task -> Snapshot]
    /\ draft \in [Proposal -> {None} \cup Draft]
    /\ view \in {"editor", "elsewhere"} /\ user \in User \cup {None} /\ loggedIn \in BOOLEAN
    /\ catalog \in {"loading", "listed", "missing"}
    /\ st \in [Task -> TaskState \cup {None}]
    /\ \A t \in Task : st[t] # None =>
         /\ (st[t].studio = None) <=> (st[t].buf = None)
         /\ st[t].loading <=> call[t].op = "load"
         /\ st[t].saving <=> (call[t].op = "save" \/ call[t].then = "save")
    /\ call \in [Task -> Call]
    /\ opened \subseteq Task \X File /\ active \in opened \cup {None}
    /\ waiting \subseteq Proposal

\* Text the author has typed and not agreed to give up is in the task's buffers
\* until the server has taken it, through the loads, refused saves, proposals,
\* closed tabs of other files, expired sessions and sign-ins of the same user
\* (docs/TASK_AUTHORING.md:564-589, EditorWorkspace.svelte:110-257).
TypedTextKept == \A t \in Task : typed[t] # None => st[t] # None /\ st[t].buf = typed[t]

\* A save of this tab replaces on the server only the content its text stems
\* from: what the buffers were loaded with, or what the proposal in them was made
\* from, whatever others wrote meanwhile (EditorWorkspace.svelte:107-134,237-251,
\* admin.py:1343-1375).
SavesKnown ==
    \A t \in Task : server'[t] # server[t] /\ writes' = writes => server[t].content = origin[t]

\* "Saved; re-read from the server" is said only when the buffers are what the
\* server answered after the save, and "could not be re-read" keeps them unsaved
\* on the page (EditorWorkspace.svelte:245-248).
SavedNoticeTrue ==
    \A t \in Task : st[t] # None /\ st[t].notice = "saved" /\ st[t].pending = None =>
        ~st[t].loadError /\ ~st[t].saving
=============================================================================
