------------------------------- MODULE Console -------------------------------
(***************************************************************************)
(* The frame of the admin console: its session, kept in the tab's memory    *)
(* and in the browser's storage that all tabs share, sign-in, expiry and    *)
(* sign-out, the views and the flags with which the mounted form tells the  *)
(* frame that it has unsaved changes or work under way.  What the settings  *)
(* and the task editor do inside is in modules of their own; the form for   *)
(* the students' assistant is here.  Requests are answered in any order.    *)
(***************************************************************************)
EXTENDS Naturals, FiniteSets

CONSTANTS Tabs, Admins, Mentors, Students,
          MaxTokens,  \* bound: sessions issued
          MaxCalls,   \* bound: requests of a tab under way
          None

Accounts == Admins \cup Mentors \cup Students
Roles == {"student", "mentor", "admin"}
Token == [of : Accounts, n : 1..MaxTokens]
AdminViews == {"settings", "student-ai"}
\* Views with a form; the others, as «overview», only show.
Forms == {"catalog"} \cup AdminViews
Views == {"overview"} \cup Forms
\* A mounted form: whose it is, what it has not saved, and whether it saves.
FormRow == [kind : Forms, by : Accounts, changed : BOOLEAN, saving : BOOLEAN]

ConsoleAssumption ==
    /\ None \notin Tabs \cup Accounts \cup Roles \cup Views
    /\ None \notin Token /\ None \notin FormRow
    /\ MaxTokens \in Nat \ {0} /\ MaxCalls \in Nat \ {0}

ASSUME ConsoleConstants == ConsoleAssumption

VARIABLES
    role,    \* students.role of every account
    valid,   \* the tokens that have not expired
    issued,  \* how many were issued
    stored,  \* localStorage: ego_admin_token
    tab,     \* App.svelte, and the _token of each tab
    calls    \* requests under way

vars == <<role, valid, issued, stored, tab, calls>>

-----------------------------------------------------------------------------
(* Tokens and requests *)

getToken(t) == IF tab[t].memory # None THEN tab[t].memory ELSE stored
Calls(t) == {c \in calls : c.tab = t}
Call(t, kind) == [tab |-> t, kind |-> kind, token |-> getToken(t), gone |-> FALSE]
Idle(t, kind) == \A c \in Calls(t) : c.kind # kind
\* deps.py: the token is valid; authority is the database's.
Accepts(token) == token \in valid

-----------------------------------------------------------------------------
(* The mounted form and the frame's flags *)

NewTab(v) == [memory |-> None, checking |-> TRUE, shown |-> None, role |-> None, logged |-> FALSE,
              seen |-> FALSE, view |-> v, dirty |-> FALSE, busy |-> FALSE, form |-> None]
NewForm(kind, a) == [kind |-> kind, by |-> a, changed |-> FALSE, saving |-> FALSE]
Closed == [NewTab("overview") EXCEPT !.checking = FALSE]

\* The form that the page shows under its view and role.
Shown(r) ==
    IF r.seen /\ (r.view = "catalog" \/ (r.view \in AdminViews /\ r.role = "admin")) THEN r.view ELSE None
KindOf(form) == IF form = None THEN None ELSE form.kind

\* onDestroy: Settings leaves the mark of changes as it is.
Left(r) ==
    IF r.form = None THEN r
    ELSE [r EXCEPT !.busy = FALSE, !.dirty = IF r.form.kind = "settings" THEN @ ELSE FALSE]
\* The form of the view is mounted; effects of two of them report at once.
Shows(r) ==
    IF Shown(r) = KindOf(r.form) THEN r
    ELSE LET l == Left(r) IN
         IF Shown(r) = None THEN [l EXCEPT !.form = None]
         ELSE [l EXCEPT !.form = NewForm(Shown(r), r.shown),
                        !.dirty = @ /\ Shown(r) = "student-ai", !.busy = @ /\ Shown(r) = "student-ai"]
\* Saves of a form that is no longer mounted go on.
Orphaned(t, r) ==
    IF KindOf(r.form) = KindOf(tab[t].form) THEN calls
    ELSE {IF c.tab = t /\ c.kind \in Forms THEN [c EXCEPT !.gone = TRUE] ELSE c : c \in calls}

\* Mutant: what another account has left is shown to the next.
AcceptedAsIs(r, a) ==
    LET v == IF role[a] # "admin" /\ r.view \in AdminViews THEN "overview" ELSE r.view
    IN Shows([r EXCEPT !.shown = a, !.role = role[a], !.logged = TRUE, !.seen = TRUE, !.view = v])
\* Mutant: signing in again forgets that there are changes.
AcceptedClean(r, a) ==
    LET other == r.shown # None /\ r.shown # a
        v == IF other \/ (role[a] # "admin" /\ r.view \in AdminViews) THEN "overview" ELSE r.view
    IN Shows([r EXCEPT !.shown = a, !.role = role[a], !.logged = TRUE, !.seen = TRUE, !.view = v,
                       !.dirty = FALSE])
\* accept, for mentors and admins
Accepted(r, a) ==
    LET other == r.shown # None /\ r.shown # a
        v == IF other \/ (role[a] # "admin" /\ r.view \in AdminViews) THEN "overview" ELSE r.view
    IN Shows([r EXCEPT !.shown = a, !.role = role[a], !.logged = TRUE, !.seen = TRUE, !.view = v,
                       !.dirty = @ /\ ~other])

\* Becomes: tab t is r, with call c answered.
Becomes(t, r, c) ==
    /\ tab' = [tab EXCEPT ![t] = r]
    /\ calls' = Orphaned(t, r) \ {c}
\* A refusal (401) forgets the token and ends the session, the page stays.
Expired(r) == [r EXCEPT !.memory = None, !.logged = FALSE]

-----------------------------------------------------------------------------
(* Opening the page and signing in *)

\* The page is loaded, or loaded anew (beforeunload asks about changes);
\* restoreSession asks who is signed in.
Open(t) ==
    /\ \E v \in Views :
        tab' = [tab EXCEPT ![t] = [NewTab(v) EXCEPT !.checking = (stored # None)]]
    /\ calls' = {c \in calls : c.tab # t} \cup
           (IF stored = None THEN {}
            ELSE {[tab |-> t, kind |-> "me", token |-> stored, gone |-> FALSE]})
    /\ UNCHANGED <<role, valid, issued, stored>>

\* me() is answered: the role is that of the moment.
Restored(t) ==
    \E c \in Calls(t) :
        /\ c.kind = "me" /\ Accepts(c.token)
        /\ LET a == c.token.of
               r == [tab[t] EXCEPT !.checking = FALSE]
           IN IF role[a] = "student"
              THEN stored' = None /\ Becomes(t, [r EXCEPT !.memory = None], c)
              ELSE UNCHANGED stored /\ Becomes(t, Accepted(r, a), c)
        /\ UNCHANGED <<role, valid, issued>>

\* me() is refused, or fails
RestoreFails(t) ==
    \E c \in Calls(t) :
        /\ c.kind = "me"
        /\ stored' = None
        /\ Becomes(t, [Expired(tab[t]) EXCEPT !.checking = FALSE], c)
        /\ UNCHANGED <<role, valid, issued>>

\* Mutant: the sign-in is open while the old session is still looked up.
submitEarly(t) ==
    /\ ~tab[t].logged /\ Idle(t, "login")
    /\ calls' = calls \cup {[tab |-> t, kind |-> "login", token |-> None, gone |-> FALSE]}
    /\ UNCHANGED <<role, valid, issued, stored, tab>>
\* submit, or forgejoLogin
submit(t) ==
    /\ ~tab[t].logged /\ ~tab[t].checking /\ Idle(t, "login")
    /\ calls' = calls \cup {[tab |-> t, kind |-> "login", token |-> None, gone |-> FALSE]}
    /\ UNCHANGED <<role, valid, issued, stored, tab>>

\* handleLogin and accept
handleLogin(t) ==
    \E a \in Accounts, c \in Calls(t) :
        /\ c.kind = "login" /\ issued < MaxTokens
        /\ LET token == [of |-> a, n |-> issued + 1] IN
           /\ issued' = issued + 1 /\ valid' = valid \cup {token}
           /\ IF role[a] = "student"
              THEN stored' = None /\ Becomes(t, [tab[t] EXCEPT !.memory = None], c)
              ELSE stored' = token /\ Becomes(t, Accepted([tab[t] EXCEPT !.memory = token], a), c)
        /\ UNCHANGED role

\* A wrong password is answered 401, as an expired session is.
LoginRefused(t) ==
    \E c \in Calls(t) :
        /\ c.kind = "login"
        /\ stored' = None
        /\ Becomes(t, Expired(tab[t]), c)
        /\ UNCHANGED <<role, valid, issued>>

-----------------------------------------------------------------------------
(* Working *)

\* navTo, from the menu or the address bar; changes are given up by consent.
navTo(t) ==
    /\ ~tab[t].checking /\ ~tab[t].busy
    /\ \E v \in Views \ {tab[t].view} :
           LET r == Shows([tab[t] EXCEPT !.dirty = FALSE, !.view = v])
           IN tab' = [tab EXCEPT ![t] = r] /\ calls' = Orphaned(t, r)
    /\ UNCHANGED <<role, valid, issued, stored>>

\* logout
logout(t) ==
    /\ tab[t].logged /\ ~tab[t].busy
    /\ tab' = [tab EXCEPT ![t] = Closed]
    /\ calls' = Orphaned(t, Closed)
    /\ stored' = None
    /\ UNCHANGED <<role, valid, issued>>

\* A component, or brand, reads something.
Read(t) ==
    /\ tab[t].logged /\ Cardinality(Calls(t)) < MaxCalls /\ Idle(t, "read")
    /\ calls' = calls \cup {Call(t, "read")}
    /\ UNCHANGED <<role, valid, issued, stored, tab>>

ReadAnswered(t) ==
    \E c \in Calls(t) :
        /\ c.kind = "read" /\ Accepts(c.token)
        /\ calls' = calls \ {c}
        /\ UNCHANGED <<role, valid, issued, stored, tab>>

\* request: 401, whatever token the tab has by now
Refused(t) ==
    \E c \in Calls(t) :
        /\ c.kind = "read" /\ ~Accepts(c.token)
        /\ stored' = None
        /\ Becomes(t, Expired(tab[t]), c)
        /\ UNCHANGED <<role, valid, issued>>

\* The user types; the settings' fields are disabled while they are saved.
Edit(t) ==
    /\ tab[t].logged /\ tab[t].form # None
    /\ tab[t].form.kind = "student-ai" \/ ~tab[t].form.saving
    /\ tab' = [tab EXCEPT ![t].form.changed = TRUE, ![t].dirty = TRUE]
    /\ UNCHANGED <<role, valid, issued, stored, calls>>

save(t) ==
    /\ tab[t].logged /\ tab[t].form # None /\ ~tab[t].form.saving
    /\ Cardinality(Calls(t)) < MaxCalls
    /\ tab' = [tab EXCEPT ![t].form.saving = TRUE, ![t].busy = TRUE]
    /\ calls' = calls \cup {Call(t, tab[t].form.kind)}
    /\ UNCHANGED <<role, valid, issued, stored>>

\* What the end of a save does: a form that is gone reports no more, but the
\* form of the students' assistant does so through its callbacks.
Done(r, c, saved) ==
    LET mine == ~c.gone
        own  == c.kind = "student-ai"
        changed == IF mine /\ ~saved THEN r.form.changed ELSE FALSE
    IN [r EXCEPT !.form = IF mine THEN [r.form EXCEPT !.saving = FALSE, !.changed = changed] ELSE @,
                 !.busy = IF mine \/ own THEN FALSE ELSE @,
                 !.dirty = IF saved /\ (mine \/ own) THEN FALSE ELSE @]

Saved(t) ==
    \E c \in Calls(t) :
        /\ c.kind \in Forms /\ Accepts(c.token)
        /\ Becomes(t, Done(tab[t], c, TRUE), c)
        /\ UNCHANGED <<role, valid, issued, stored>>

\* An error other than 401
SaveFails(t) ==
    \E c \in Calls(t) :
        /\ c.kind \in Forms
        /\ Becomes(t, Done(tab[t], c, FALSE), c)
        /\ UNCHANGED <<role, valid, issued, stored>>

SaveRefused(t) ==
    \E c \in Calls(t) :
        /\ c.kind \in Forms /\ ~Accepts(c.token)
        /\ stored' = None
        /\ Becomes(t, Expired(Done(tab[t], c, FALSE)), c)
        /\ UNCHANGED <<role, valid, issued>>

\* Time passes, and administrators change roles.
Expire ==
    /\ \E token \in valid : valid' = valid \ {token}
    /\ UNCHANGED <<role, issued, stored, tab, calls>>

Demote ==
    /\ \E a \in Admins : role[a] = "admin" /\ role' = [role EXCEPT ![a] = "mentor"]
    /\ UNCHANGED <<valid, issued, stored, tab, calls>>

-----------------------------------------------------------------------------

Init ==
    /\ role = [a \in Accounts |-> IF a \in Admins THEN "admin" ELSE IF a \in Mentors THEN "mentor" ELSE "student"]
    /\ valid = {} /\ issued = 0 /\ stored = None
    /\ tab = [t \in Tabs |-> Closed] /\ calls = {}

SaveEnds(t) == Saved(t) \/ SaveFails(t) \/ SaveRefused(t)
RestoreEnds(t) == Restored(t) \/ RestoreFails(t)

Next ==
    \/ \E t \in Tabs :
        \/ Open(t) \/ submit(t) \/ handleLogin(t) \/ LoginRefused(t) \/ RestoreEnds(t) \/ SaveEnds(t)
        \/ navTo(t) \/ logout(t) \/ Read(t) \/ ReadAnswered(t) \/ Refused(t) \/ Edit(t) \/ save(t)
    \/ Expire \/ Demote

\* The server answers, or the connection fails.
Spec == Init /\ [][Next]_vars /\ \A t \in Tabs : WF_vars(RestoreEnds(t)) /\ WF_vars(SaveEnds(t))
-----------------------------------------------------------------------------
(* Properties *)

\* Every variable keeps to its values, and a form is mounted just where the
\* page's view and role show one.
TypeOK ==
    /\ role \in [Accounts -> Roles] /\ valid \subseteq Token /\ issued \in 0..MaxTokens
    /\ stored \in Token \cup {None}
    /\ \A t \in Tabs :
        /\ tab[t].memory \in Token \cup {None} /\ tab[t].view \in Views
        /\ KindOf(tab[t].form) = Shown(tab[t])
        /\ \A c \in Calls(t) : c.kind \in Forms /\ ~c.gone => tab[t].form # None /\ tab[t].form.saving

\* App.svelte:24: through expiry, other people's sign-ins, refusals and changed
\* roles, a page that is shown to an account was filled in by that account.
FormIsTheirs ==
    \A t \in Tabs : tab[t].logged /\ tab[t].form # None => tab[t].form.by = tab[t].shown

\* App.svelte:34: what the frame asks before it leaves a form is what the form
\* is in: no changes and no save go unnoticed.
FlagsAreTheForms ==
    \A t \in Tabs : tab[t].logged /\ tab[t].form # None =>
        /\ tab[t].form.changed => tab[t].dirty
        /\ tab[t].form.saving => tab[t].busy

\* api.ts:113: what a tab sends is sent for the account whose name it shows.
SentAsShown ==
    \A t \in Tabs : tab[t].logged /\ getToken(t) # None => getToken(t).of = tab[t].shown
=============================================================================
