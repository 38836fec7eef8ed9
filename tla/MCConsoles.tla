---------------------------- MODULE MCConsoles ----------------------------
(***************************************************************************)
(* Small instances of the admin console, checked side by side: its frame    *)
(* with one tab or two (Console, extended), the task editor with one or two *)
(* (CatalogEditor), the service settings (ServiceSettings) and the          *)
(* assistant's chats (AdminChat).  The modules share no state; in a         *)
(* behaviour only the part drawn at the start moves.                        *)
(***************************************************************************)
EXTENDS Console, Sequences, TLC

CONSTANTS w1, w2, a1, a2, ada, max, eve, t1, t2, x, y, p1, dir1, dir2, nodir, k1, k2, c1, c2

VARIABLES
    part,
    server, draft, view, user, loggedIn, catalog, st, active, opened, lastDraft, waiting,
    opening, call, acts, writes, typed, origin,
    revision, savedConfig, key, env, prepared, catalogue, form, openedWith, loads, busy, sent,
    reply, typedKeys, gone,
    chats, used, turns, listed, chat, shown, selected, loading, composing, starting, reading,
    creating, deleting, sending, post, pressed, crossed

editorVars == <<server, draft, view, user, loggedIn, catalog, st, active, opened, lastDraft,
                waiting, opening, call, acts, writes, typed, origin>>
settingVars == <<revision, savedConfig, key, env, prepared, catalogue, form, openedWith, loads,
                 busy, sent, reply, typedKeys, gone>>
chatVars == <<chats, used, turns, listed, chat, shown, selected, loading, composing, starting,
              reading, creating, deleting, sending, post, pressed, crossed>>
consoleVars == <<part, vars, editorVars, settingVars, chatVars>>

\* One tab and three accounts; or two tabs and two accounts.
MCTabs == {w1}
MCAdmins == {ada}
MCMentors == {max}
MCStudents == {eve}
TwoTabs == INSTANCE Console WITH Tabs <- {w1, w2}, Students <- {}, MaxTokens <- 2, MaxCalls <- 1

\* One task with two files and two users; two tasks with a proposal.
Editor == INSTANCE CatalogEditor WITH Task <- {t1}, File <- {"markdown", "tests_py"},
              Word <- {x, y}, Proposal <- {}, User <- {ada, max}, MaxVersion <- 1,
              MaxActs <- 5, MaxWrites <- 1
TwoTasks == INSTANCE CatalogEditor WITH Task <- {t1, t2}, File <- {"markdown"},
                Word <- {x, y}, Proposal <- {p1}, User <- {ada}, MaxVersion <- 1,
                MaxActs <- 3, MaxWrites <- 1

\* Two administrators and a draft; keys; a path that does not exist and locks.
Form == INSTANCE ServiceSettings WITH Admins <- {a1, a2}, Paths <- {dir1},
            Directories <- {dir1}, Keys <- {}, MaxRevision <- 2, MaxDrafts <- 1,
            stored <- savedConfig, draft <- openedWith, typed <- typedKeys
KeyForm == INSTANCE ServiceSettings WITH Admins <- {a1, a2}, Paths <- {dir1},
            Directories <- {dir1}, Keys <- {k1, k2}, MaxRevision <- 3, MaxDrafts <- 0,
            stored <- savedConfig, draft <- openedWith, typed <- typedKeys
Locks == INSTANCE ServiceSettings WITH Admins <- {a1}, Paths <- {dir1, dir2, nodir},
             Directories <- {dir1, dir2}, Keys <- {}, MaxRevision <- 1, MaxDrafts <- 1,
             stored <- savedConfig, draft <- openedWith, typed <- typedKeys

\* A panel of its own; one docked in the task editor; two tabs over one chat.
Chat == INSTANCE AdminChat WITH Tabs <- {w1}, Embedded <- {}, Chats <- {c1, c2}, Tasks <- {},
            MaxTurns <- 1, MaxAttempts <- 1, active <- chat, busy <- composing
Docked == INSTANCE AdminChat WITH Tabs <- {w1}, Embedded <- {w1}, Chats <- {c1, c2},
              Tasks <- {t1, t2}, MaxTurns <- 1, MaxAttempts <- 1, active <- chat,
              busy <- composing
Replies == INSTANCE AdminChat WITH Tabs <- {w1, w2}, Embedded <- {}, Chats <- {c1}, Tasks <- {},
               MaxTurns <- 2, MaxAttempts <- 1, active <- chat, busy <- composing

ASSUME ConsolesAssumption ==
    /\ TwoTabs!ConsoleAssumption
    /\ Editor!EditorAssumption /\ TwoTasks!EditorAssumption
    /\ Form!SettingsAssumption /\ KeyForm!SettingsAssumption /\ Locks!SettingsAssumption
    /\ Chat!ChatAssumption /\ Docked!ChatAssumption /\ Replies!ChatAssumption

-----------------------------------------------------------------------------
\* The words, the users and the paths are as good as each other: the first begin.
EditorInit ==
    /\ IF part = "tasks" THEN TwoTasks!Init ELSE Editor!Init
    /\ user = ada /\ server[t1].content.text["markdown"] = x

SettingsInit ==
    CASE part = "form" -> Form!Init
      [] part = "keys" -> KeyForm!Init
      [] part = "locks" -> Locks!Init /\ savedConfig.path = dir1
      [] OTHER -> Form!Init /\ env = None

ChatInit ==
    CASE part = "chat" -> Chat!Init
      [] part = "docked" -> Docked!Init
      [] part = "replies" -> Replies!Init
      [] OTHER -> Chat!Init /\ chats = {}

ConsolesInit ==
    /\ part \in {"tab", "flags", "tabs", "editor", "tasks", "form", "keys", "locks", "chat", "docked", "replies"}
    /\ IF part = "tabs" THEN TwoTabs!Init ELSE Init
    /\ EditorInit /\ SettingsInit /\ ChatInit

OnlyFrame == UNCHANGED <<part, editorVars, settingVars, chatVars>>
OnlyEditor == UNCHANGED <<part, vars, settingVars, chatVars>>
OnlySettings == UNCHANGED <<part, vars, editorVars, chatVars>>
OnlyChat == UNCHANGED <<part, vars, editorVars, settingVars>>

ConsolesNext ==
    \/ part \in {"tab", "flags"} /\ Next /\ OnlyFrame
    \/ part = "tabs" /\ TwoTabs!Next /\ OnlyFrame
    \/ part = "editor" /\ Editor!Next /\ OnlyEditor
    \/ part = "tasks" /\ TwoTasks!Next /\ OnlyEditor
    \/ part = "form" /\ Form!Next /\ OnlySettings
    \/ part = "keys" /\ KeyForm!Next /\ OnlySettings
    \/ part = "locks" /\ Locks!Next /\ OnlySettings
    \/ part = "chat" /\ Chat!Next /\ OnlyChat
    \/ part = "docked" /\ Docked!Next /\ OnlyChat
    \/ part = "replies" /\ Replies!Next /\ OnlyChat

ConsolesSpec == ConsolesInit /\ [][ConsolesNext]_consoleVars

\* Bound: nobody else signs in while a save of a form that is gone is under way.
NothingLate == part = "flags" => \A c \in calls : ~c.gone

\* Bounds: at most one load of a page is under way; nothing is synced or tested or
\* given by the environment where the question is another; of the third revision
\* on, nothing but the provider's key is edited.
OneLoad == part \in {"form", "keys", "locks"} => \A a \in DOMAIN loads : Cardinality(loads[a]) <= 1
OnlySaves ==
    part \in {"form", "keys"} => env = None /\ \A a \in {a1, a2} : busy[a] \in {"no", "saving"}
OnlyKeys ==
    part = "keys" => \A a \in {a1, a2} : form[a] # None => form[a].config \in {None, savedConfig}

\* Bound: two tabs have one request under way between them, the second goes to the
\* settings only, and roles stay.
OneCall ==
    part = "tabs" => /\ Cardinality(calls) <= 1 /\ tab[w2].view \in {"overview", "settings"}
                     /\ role[ada] = "admin" /\ role[max] = "mentor"

\* Bounds: the assistant prepares a draft when no more than one save was accepted,
\* or none; one page saves at a time, and with keys no save follows the third.
DraftsEarly ==
    /\ part = "form" => revision <= 1 \/ prepared = None
    /\ part = "locks" => revision = 0 \/ prepared = None
OneSave ==
    /\ part \in {"form", "keys"} => busy[a1] = "no" \/ busy[a2] = "no"
    /\ part = "keys" => revision < 3

\* Bounds: no chat is deleted; or created either.
NothingDeleted == part \in {"docked", "replies"} => \A w \in DOMAIN deleting : deleting[w] = {}
OnlySends == part = "replies" => \A w \in {w1, w2} : creating[w] = "no"

\* Keys and chats are as good as each other: the first is used before the second.
\* Bound: the second key is typed after a save.
InOrder ==
    /\ k2 \in typedKeys => k1 \in typedKeys /\ revision >= 1
    /\ c2 \in used => c1 \in used

Symmetry == Permutations({a1, a2})

-----------------------------------------------------------------------------
(* Properties: FormIsTheirs is that of Console; each of the others says of   *)
(* one component, or of two, what its parts say of it here.                  *)

\* What a tab sends is sent for the account whose name it shows, when it is the
\* only one (api.ts:113); with two tabs a form is still that of the account it is
\* shown to (App.svelte:24); and what the frame asks before it leaves a form is
\* what the form is in: no changes and no save go unnoticed (App.svelte:34).
FrameTellsTruth ==
    /\ part = "tab" => TypeOK /\ SentAsShown
    /\ part = "tabs" => TwoTabs!TypeOK /\ TwoTabs!FormIsTheirs
    /\ part = "flags" => TypeOK /\ FlagsAreTheForms

\* Text the author has typed and not agreed to give up is in the task's buffers
\* until the server has taken it, "Saved; re-read from the server" is said only
\* when that is so (EditorWorkspace.svelte:110-257), and a save of this tab
\* replaces on the server only the content its text stems from, whatever others
\* wrote meanwhile (admin.py:1343-1375).  In the settings, a draft that waits for a
\* decision was made from an older revision than the form's
\* (Settings.svelte:286-290) and no save drops an edit somebody else has saved
\* (docs/DEPLOYMENT.md:129, test_stale_revision_is_rejected); a provider key that
\* was replaced or cleared never comes back; and the environment overrides no field
\* of a save that was answered with success.
UnsavedWorkKept ==
    /\ [](/\ part = "editor" => Editor!TypeOK /\ Editor!TypedTextKept /\ Editor!SavedNoticeTrue
          /\ part = "tasks" => TwoTasks!TypeOK /\ TwoTasks!TypedTextKept /\ TwoTasks!SavedNoticeTrue
          /\ part = "form" => Form!TypeOK /\ Form!PendingIsOld
          /\ part = "keys" => KeyForm!TypeOK /\ KeyForm!KeysNeverReturn
          /\ part = "locks" => Locks!TypeOK)
    /\ [][/\ part = "editor" => Editor!SavesKnown
          /\ part = "tasks" => TwoTasks!SavesKnown
          /\ part = "form" => Form!LosesNothing
          /\ part = "locks" => Locks!InForce]_consoleVars

\* The messages on display are the active chat's, unless something was begun
\* while a deletion was under way; switching tasks while a chat is created or a
\* reply streams does not retarget the message (Assistant.svelte:54).  Whatever is
\* stopped, lost, repeated, timed out or restarted, no chat has two replies that
\* are being written by a provider at a time (begin_reply), and a reply stored as
\* complete is never called anything else by the other two writers of its row
\* (assistant.py:524 and 557, admin_assistant.py:50).
ChatsKept ==
    /\ [](/\ part = "chat" => Chat!TypeOK /\ Chat!ShownIsActive
          /\ part = "docked" => Docked!TypeOK /\ Docked!ContextIsTheSenders
          /\ part = "replies" => Replies!TypeOK /\ Replies!OneReplyAtATime)
    /\ [][(part = "replies" => Replies!StaysComplete)]_consoleVars
=============================================================================
