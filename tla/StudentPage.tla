----------------------------- MODULE StudentPage -----------------------------
(***************************************************************************)
(* The student's page, one tab of it.  Signing in with the form, through    *)
(* Forgejo and from the stored token run side by side; each ends in enter,  *)
(* which asks who the token belongs to and then loads the dashboard with    *)
(* four requests.  Refreshes and opened tasks overlap with all of these,    *)
(* and state.epoch, state.token, attempt and selectedId decide which answer *)
(* still counts.  One task's results stand for the progress.                *)
(***************************************************************************)
EXTENDS Integers, FiniteSets

CONSTANTS Students,
          Tokens,       \* the tokens the server may issue, each once
          Attempts,     \* runs of forgejoLogin
          Tasks,
          MaxChecks,    \* bound: solutions one student checks
          None

PageAssumption ==
    /\ None \notin Students \cup Tokens \cup Attempts \cup Tasks
    /\ Attempts \cap {"start", "form", "refresh"} = {}
    /\ MaxChecks \in Nat

VARIABLES
    \* server
    owner,      \* whose token it is, None until it is issued
    expired,    \* tokens the server no longer takes
    checked,    \* how many solutions a student has passed the tests with
    confirmed,  \* those whose understanding is confirmed
    required,   \* account.enabled /\ account.defense_required
    \* page
    token, stored,          \* state.token, localStorage
    user, selected,         \* state.user, state.selectedId
    shown,                  \* state.progress, understanding and account
    screen, panel,
    providers, unknown,     \* state.providers; its request is under way
    forgejo,                \* the attempt that equals `attempt`
    pc, own, fresh, got,    \* calls: their place, token, epoch = state.epoch, answers
    opening                 \* requests for a task, and the load that waits for each

serverVars == <<owner, expired, checked, confirmed, required>>
authVars == <<providers, unknown, forgejo>>
callVars == <<pc, own, fresh, got>>
sessionVars == <<token, stored, user>>
viewVars == <<selected, shown, panel, opening>>
vars == <<owner, expired, checked, confirmed, required, token, stored, user, selected, shown,
          screen, panel, providers, unknown, forgejo, pc, own, fresh, got, opening>>

Methods == {"local", "forgejo"}
Parts == {"progress", "understanding", "account"}
Calls == {"start", "form", "refresh"} \cup Attempts

Solutions == 1..MaxChecks
\* An answer of the server: the latest solution, the confirmed ones, whether
\* the defence is required; -1 until the part has come.
NoAnswer == [progress |-> -1, understanding |-> {-1}, account |-> -1]
Answers == [progress : {-1, 0} \cup Solutions,
            understanding : {{-1}} \cup SUBSET Solutions, account : -1..1]
Nothing == [of |-> None, data |-> NoAnswer]
Panels == [kind : {"empty", "loading", "detail", "error"}, task : Tasks \cup {None}]
Empty == [kind |-> "empty", task |-> None]
Failure == [kind |-> "error", task |-> None]

\* A call ends: what it kept is gone, its button works again.
Done(c) ==
    /\ pc' = [pc EXCEPT ![c] = "idle"]
    /\ own' = [own EXCEPT ![c] = None]
    /\ fresh' = [fresh EXCEPT ![c] = FALSE]
    /\ got' = [got EXCEPT ![c] = NoAnswer]

Goto(c, place) ==
    /\ pc' = [pc EXCEPT ![c] = place]
    /\ UNCHANGED <<own, fresh, got>>

-----------------------------------------------------------------------------
(* Showing and clearing *)

clearStudentData ==
    /\ user' = None
    /\ selected' = None
    /\ shown' = Nothing
    /\ panel' = Empty

\* enter(t), called by c, up to its first request.
Enter(c, t) ==
    /\ clearStudentData
    /\ token' = t
    /\ stored' = t
    /\ pc' = [pc EXCEPT ![c] = "me"]
    /\ own' = [own EXCEPT ![c] = t]
    /\ fresh' = [d \in Calls |-> d = c]
    /\ got' = [got EXCEPT ![c] = NoAnswer]

\* What the page knows of a call that returns: epoch and token are still its own.
Current(c) == fresh[c] /\ token = own[c]

\* The dashboard is drawn from what has come for call c.
Draw(c) == shown' = [of |-> owner[own[c]], data |-> got[c]]

\* Mutant: any confirmed solution of the task counts.
taskStateAny(data) ==
    IF data.progress < 1 THEN "new"
    ELSE IF data.account = 1 /\ data.understanding = {} THEN "defense"
    ELSE "passed"

\* What the task is shown as.
taskState(data) ==
    IF data.progress < 1 THEN "new"
    ELSE IF data.account = 1 /\ data.progress \notin data.understanding THEN "defense"
    ELSE "passed"

-----------------------------------------------------------------------------
(* The requests of enter and loadDashboard *)

MeAnswers(c) ==
    /\ pc[c] = "me" /\ own[c] \notin expired
    /\ IF Current(c)
       THEN /\ user' = owner[own[c]]
            /\ screen' = "dashboard"
            /\ Goto(c, "loading")
       ELSE /\ Done(c)
            /\ UNCHANGED <<user, screen>>
    /\ UNCHANGED <<serverVars, authVars, viewVars, token, stored>>

\* The answer to one of the four requests is written at the server.
PartAnswers(c) ==
    /\ pc[c] = "loading" /\ own[c] \notin expired
    /\ \E part \in Parts :
        /\ got[c][part] = NoAnswer[part]
        /\ got' = [got EXCEPT ![c][part] =
               LET s == owner[own[c]] IN
               CASE part = "progress" -> checked[s]
                 [] part = "understanding" -> confirmed[s]
                 [] part = "account" -> required[s]]
    /\ UNCHANGED <<serverVars, authVars, sessionVars, viewVars, screen, pc, own, fresh>>

\* Mutant: the load of a session that has ended is drawn.
StillWantedAlways(c) == token # None
StillWanted(c) == fresh[c] /\ token # None

Loaded(c) ==
    /\ pc[c] = "loading"
    /\ \A part \in Parts : got[c][part] # NoAnswer[part]
    /\ IF StillWanted(c)
       THEN /\ Draw(c)
            /\ IF selected = None
               THEN Done(c) /\ UNCHANGED <<panel, opening>>
               ELSE /\ panel' = [kind |-> "loading", task |-> selected]
                    /\ opening' = opening \cup {[task |-> selected, by |-> c]}
                    /\ Goto(c, "opening")
       ELSE /\ Done(c)
            /\ UNCHANGED <<shown, panel, opening>>
    /\ UNCHANGED <<serverVars, authVars, sessionVars, selected, screen>>

\* Mutant: whichever call fails drops the token.
EnterFailsAny(c) ==
    /\ c # "refresh" /\ pc[c] \in {"me", "loading"}
    /\ screen' = "auth"
    /\ \/ own[c] \in expired /\ token' = None /\ stored' = None
       \/ UNCHANGED <<token, stored>>
    /\ Done(c)
    /\ UNCHANGED <<serverVars, authVars, viewVars, user>>

\* A request of enter fails: with 401 the token is dropped, and the sign-in
\* form is shown with the reason.
EnterFails(c) ==
    /\ c # "refresh" /\ pc[c] \in {"me", "loading"}
    /\ IF Current(c)
       THEN /\ screen' = "auth"
            /\ \/ /\ own[c] \in expired
                  /\ token' = None /\ stored' = None
               \/ UNCHANGED <<token, stored>>
       ELSE UNCHANGED <<screen, token, stored>>
    /\ Done(c)
    /\ UNCHANGED <<serverVars, authVars, viewVars, user>>

RefreshFails ==
    /\ pc["refresh"] = "loading"
    /\ panel' = Failure
    /\ Done("refresh")
    /\ UNCHANGED <<serverVars, authVars, sessionVars, selected, shown, opening, screen>>

-----------------------------------------------------------------------------
(* Signing in and out *)

\* The server issues a token for a student.
Issue(t) ==
    /\ owner[t] = None
    /\ \E s \in Students : owner' = [owner EXCEPT ![t] = s]
    /\ UNCHANGED <<expired, checked, confirmed, required>>

Submit ==
    /\ screen = "auth" /\ "local" \in providers /\ pc["form"] = "idle"
    /\ Goto("form", "asking")
    /\ UNCHANGED <<serverVars, authVars, sessionVars, viewVars, screen>>

SubmitAnswers ==
    /\ pc["form"] = "asking"
    /\ \E t \in Tokens : Issue(t) /\ Enter("form", t)
    /\ UNCHANGED <<authVars, screen, opening>>

SubmitRefused ==
    /\ pc["form"] = "asking"
    /\ Done("form")
    /\ UNCHANGED <<serverVars, authVars, sessionVars, viewVars, screen>>

\* forgejoLogin; its button is disabled while an attempt is the current one.
ForgejoBegins(a) ==
    /\ screen = "auth" /\ "forgejo" \in providers
    /\ forgejo = None /\ pc[a] = "idle"
    /\ forgejo' = a
    /\ Goto(a, "starting")
    /\ UNCHANGED <<serverVars, sessionVars, viewVars, screen, providers, unknown>>

\* The flow has started, or a second of waiting is over and the exchange is due.
ForgejoGoesOn(a) ==
    /\ pc[a] \in {"starting", "waiting"}
    /\ IF forgejo = a
       THEN Goto(a, IF pc[a] = "starting" THEN "waiting" ELSE "exchange")
       ELSE Done(a)
    /\ UNCHANGED <<serverVars, authVars, sessionVars, viewVars, screen>>

ExchangePending(a) ==
    /\ pc[a] = "exchange"
    /\ IF forgejo = a THEN Goto(a, "waiting") ELSE Done(a)
    /\ UNCHANGED <<serverVars, authVars, sessionVars, viewVars, screen>>

\* Mutant: the attempt is not compared after the exchange.
ExchangedAnyway(a) ==
    /\ pc[a] = "exchange"
    /\ forgejo' = None
    /\ \E t \in Tokens : Issue(t) /\ Enter(a, t)
    /\ UNCHANGED <<screen, opening, providers, unknown>>

Exchanged(a) ==
    /\ pc[a] = "exchange"
    /\ \E t \in Tokens :
        /\ Issue(t)
        /\ IF forgejo = a
           THEN forgejo' = None /\ Enter(a, t)
           ELSE Done(a) /\ UNCHANGED <<forgejo, sessionVars, selected, shown, panel>>
    /\ UNCHANGED <<screen, opening, providers, unknown>>

\* A request fails, the callback reported a failure, or the time is over.
ForgejoFails(a) ==
    /\ pc[a] \in {"starting", "waiting", "exchange"}
    /\ IF forgejo = a
       THEN screen' = "auth" /\ forgejo' = None
       ELSE UNCHANGED <<screen, forgejo>>
    /\ Done(a)
    /\ UNCHANGED <<serverVars, sessionVars, viewVars, providers, unknown>>

cancelForgejo ==
    /\ screen = "auth" /\ forgejo # None
    /\ forgejo' = None
    /\ UNCHANGED <<serverVars, callVars, sessionVars, viewVars, screen, providers, unknown>>

\* Mutant: the stored token survives.
LogoutKeeping ==
    /\ screen = "dashboard"
    /\ clearStudentData
    /\ fresh' = [c \in Calls |-> FALSE]
    /\ forgejo' = None
    /\ token' = None /\ screen' = "auth"
    /\ UNCHANGED <<serverVars, stored, opening, pc, own, got, providers, unknown>>

Logout ==
    /\ screen = "dashboard"
    /\ clearStudentData
    /\ fresh' = [c \in Calls |-> FALSE]
    /\ forgejo' = None
    /\ token' = None /\ stored' = None /\ screen' = "auth"
    /\ UNCHANGED <<serverVars, opening, pc, own, got, providers, unknown>>

ProvidersAnswer ==
    /\ unknown /\ unknown' = FALSE
    /\ providers' \in SUBSET Methods
    /\ screen' = IF providers' = {} THEN "auth" ELSE screen
    /\ UNCHANGED <<serverVars, callVars, sessionVars, viewVars, forgejo>>

ProvidersFail ==
    /\ unknown /\ unknown' = FALSE
    /\ screen' = "auth"
    /\ UNCHANGED <<serverVars, callVars, sessionVars, viewVars, forgejo, providers>>

-----------------------------------------------------------------------------
(* The dashboard *)

Refresh ==
    /\ screen = "dashboard" /\ pc["refresh"] = "idle"
    /\ pc' = [pc EXCEPT !["refresh"] = "loading"]
    /\ own' = [own EXCEPT !["refresh"] = token]
    /\ fresh' = [fresh EXCEPT !["refresh"] = TRUE]
    /\ UNCHANGED <<serverVars, authVars, sessionVars, viewVars, screen, got>>

\* openTask from a row; a second click while the first is asked sends the same.
openTask(t) ==
    /\ screen = "dashboard" /\ shown.of # None
    /\ selected' = t
    /\ panel' = [kind |-> "loading", task |-> t]
    /\ opening' = opening \cup {[task |-> t, by |-> None]}
    /\ UNCHANGED <<serverVars, authVars, callVars, sessionVars, shown, screen>>

\* The load that opened the task goes on to its end.
Return(o) ==
    /\ opening' = opening \ {o}
    /\ IF o.by = None THEN UNCHANGED callVars ELSE Done(o.by)

\* Mutant: the answer is drawn whatever is selected.
TaskAnswersAlways(o) ==
    /\ panel' = [kind |-> "detail", task |-> o.task]
    /\ Return(o)
    /\ UNCHANGED <<serverVars, authVars, sessionVars, selected, shown, screen>>

TaskAnswers(o) ==
    /\ panel' = IF selected = o.task THEN [kind |-> "detail", task |-> o.task] ELSE panel
    /\ Return(o)
    /\ UNCHANGED <<serverVars, authVars, sessionVars, selected, shown, screen>>

TaskFails(o) ==
    /\ panel' = Failure
    /\ Return(o)
    /\ UNCHANGED <<serverVars, authVars, sessionVars, selected, shown, screen>>

\* The page is loaded again: nothing but the stored token is left of it.
Reload ==
    /\ clearStudentData
    /\ token' = stored /\ screen' = "auth"
    /\ providers' = {} /\ unknown' = TRUE /\ forgejo' = None /\ opening' = {}
    /\ pc' = [c \in Calls |-> IF c = "start" /\ stored # None THEN "me" ELSE "idle"]
    /\ own' = [c \in Calls |-> IF c = "start" THEN stored ELSE None]
    /\ fresh' = [c \in Calls |-> c = "start" /\ stored # None]
    /\ got' = [c \in Calls |-> NoAnswer]
    /\ UNCHANGED <<serverVars, stored>>

-----------------------------------------------------------------------------
(* The server meanwhile *)

pageVars == <<token, stored, user, selected, shown, screen, panel, providers, unknown,
              forgejo, pc, own, fresh, got, opening>>

\* The student's solution passes the tests in VS Code.
Check(s) ==
    /\ checked[s] < MaxChecks
    /\ checked' = [checked EXCEPT ![s] = @ + 1]
    /\ UNCHANGED <<owner, expired, confirmed, required, pageVars>>

Confirm(s) ==
    /\ checked[s] > 0
    /\ confirmed' = [confirmed EXCEPT ![s] = @ \cup {checked[s]}]
    /\ UNCHANGED <<owner, expired, checked, required, pageVars>>

SetAccess(s) ==
    /\ required' = [required EXCEPT ![s] = 1 - @]
    /\ UNCHANGED <<owner, expired, checked, confirmed, pageVars>>

Expire(t) ==
    /\ owner[t] # None /\ t \notin expired
    /\ expired' = expired \cup {t}
    /\ UNCHANGED <<owner, checked, confirmed, required, pageVars>>

-----------------------------------------------------------------------------

Init ==
    /\ owner = [t \in Tokens |-> None] /\ expired = {}
    /\ checked = [s \in Students |-> 0] /\ confirmed = [s \in Students |-> {}]
    /\ required \in [Students -> {0, 1}]
    /\ token = None /\ stored = None /\ user = None /\ selected = None
    /\ shown = Nothing /\ screen = "auth" /\ panel = Empty
    /\ providers = {} /\ unknown = TRUE /\ forgejo = None
    /\ pc = [c \in Calls |-> "idle"] /\ own = [c \in Calls |-> None]
    /\ fresh = [c \in Calls |-> FALSE] /\ got = [c \in Calls |-> NoAnswer]
    /\ opening = {}

EnterSteps == \E c \in Calls : MeAnswers(c) \/ PartAnswers(c) \/ Loaded(c) \/ EnterFails(c)
ForgejoSteps(a) ==
    \/ ForgejoGoesOn(a) \/ ExchangePending(a) \/ Exchanged(a) \/ ForgejoFails(a)
OpenSteps == \E o \in opening : TaskAnswers(o) \/ TaskFails(o)

Next ==
    \/ EnterSteps \/ RefreshFails
    \/ Submit \/ SubmitAnswers \/ SubmitRefused
    \/ \E a \in Attempts : ForgejoBegins(a) \/ ForgejoSteps(a)
    \/ cancelForgejo \/ Logout \/ ProvidersAnswer \/ ProvidersFail
    \/ Refresh \/ \E t \in Tasks : openTask(t)
    \/ OpenSteps \/ Reload
    \/ \E s \in Students : Check(s) \/ Confirm(s) \/ SetAccess(s)
    \/ \E t \in Tokens : Expire(t)

Spec == Init /\ [][Next]_vars

\* What ends the waits of the form and of a refresh: the browser gives a dead
\* connection up.
Opens(c) == \E o \in opening : o.by = c /\ (TaskAnswers(o) \/ TaskFails(o))
FormProceeds ==
    SubmitAnswers \/ SubmitRefused \/ MeAnswers("form") \/ EnterFails("form") \/ Loaded("form") \/ Opens("form")
RefreshProceeds == RefreshFails \/ Loaded("refresh") \/ Opens("refresh")

-----------------------------------------------------------------------------
(* Properties *)

\* Every variable keeps to its values.
TypeOK ==
    /\ owner \in [Tokens -> Students \cup {None}] /\ expired \subseteq Tokens
    /\ checked \in [Students -> 0..MaxChecks]
    /\ confirmed \in [Students -> SUBSET Solutions]
    /\ required \in [Students -> {0, 1}]
    /\ {token, stored} \subseteq Tokens \cup {None}
    /\ user \in Students \cup {None} /\ selected \in Tasks \cup {None}
    /\ shown \in [of : Students \cup {None}, data : Answers]
    /\ screen \in {"auth", "dashboard"} /\ panel \in Panels
    /\ providers \subseteq Methods /\ unknown \in BOOLEAN
    /\ forgejo \in Attempts \cup {None}
    /\ pc \in [Calls -> {"idle", "asking", "starting", "waiting", "exchange",
                         "me", "loading", "opening"}]
    /\ own \in [Calls -> Tokens \cup {None}] /\ fresh \in [Calls -> BOOLEAN]
    /\ got \in [Calls -> Answers]
    /\ opening \subseteq [task : Tasks, by : Calls \cup {None}]

\* The student and the progress of a visible dashboard are those of the token
\* the page holds, or nobody's yet, whatever sign-ins and loads overlap.
NobodyElsesData ==
    screen = "dashboard" =>
        /\ token # None
        /\ {user, shown.of} \subseteq {None, owner[token]}

\* docs/AI_TUTORING.md:126: the progress shown is tied by its solution_hash to
\* the checked code.  A task shown as solved, with the defence required, is one
\* whose latest shown solution was defended, although the three answers are
\* written at different moments.
SolvedIsDefended ==
    taskState(shown.data) = "passed" /\ shown.data.account = 1
        => shown.data.progress \in confirmed[shown.of]

\* A task's text is drawn only while that task is selected.
DetailIsSelected == panel.kind = "detail" => panel.task = selected

\* The browser keeps the token the page holds and no other: after signing out
\* a reload of the page signs nobody in.
StoredIsHeld == stored = token

PageIsOfItsStudent == TypeOK /\ NobodyElsesData /\ DetailIsSelected /\ StoredIsHeld

\* A token is dropped by signing out (no call moves) or because the server
\* refused that very token: the late failure of another sign-in drops nothing.
DropsForCause == token # None /\ token' = None => pc' = pc \/ token \in expired

\* A Forgejo attempt that was cancelled, or left by signing out, signs nobody in.
KeepsAbandonedOut == \A a \in Attempts : pc[a] = "exchange" /\ pc'[a] = "me" => forgejo = a
=============================================================================
