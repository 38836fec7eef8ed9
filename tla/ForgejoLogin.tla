---------------------------- MODULE ForgejoLogin ----------------------------
(***************************************************************************)
(* The editor's half of the Forgejo sign-in.  Every attempt of a window     *)
(* listens to the same URI handler, opens the browser, and then polls until *)
(* a callback with its own state has come, it is cancelled or its deadline  *)
(* has passed.  The browser may be slow, fail, or deliver a callback twice. *)
(***************************************************************************)
EXTENDS FiniteSets

CONSTANTS Attempt,  \* the runs of forgejoLogin in one window; each has its flow
          Student,
          None

ASSUME LoginAssumption == None \notin Attempt \cup Student

VARIABLES
    pc,         \* where each attempt waits
    listeners,  \* ForgejoCallbacks.listeners: the attempts that are subscribed
    expected,   \* expectedState: None until the flow has started
    ticket,     \* the state of the callback whose ticket the attempt holds
    failed,     \* a callback reported a failure
    cancelled,  \* the student gave the attempt up
    late,       \* the deadline of min(expires_in, 300 s) has passed
    asked,      \* the dialogue about opening the link by hand is open
    outcome,    \* how forgejoLogin ended
    token,      \* whose token it returned
    signer,     \* server: who signed in to the flow
    spent,      \* server: flows that have been exchanged
    sent        \* the callbacks the browser has been sent to

editorVars == <<pc, listeners, expected, ticket, failed, cancelled, late, asked, outcome, token>>
serverVars == <<signer, spent, sent>>
vars == <<pc, listeners, expected, ticket, failed, cancelled, late, asked,
          outcome, token, signer, spent, sent>>

Pcs == {"idle", "providers", "starting", "opening", "pausing", "exchanging", "done"}
Running == {"starting", "opening", "pausing", "exchanging"}
Callbacks == [state : Attempt, kind : {"ticket", "login_failed"}]
Outcomes == {"none", "local", "cancelled", "timeout", "error", "token"}

Goto(a, s) == pc' = [pc EXCEPT ![a] = s]

\* Mutant: no finally, the attempt stays subscribed.
FinishListening(a, o) ==
    /\ Goto(a, "done")
    /\ outcome' = [outcome EXCEPT ![a] = o]
    /\ UNCHANGED listeners

\* runForgejoFlow ends, with its finally.
Finish(a, o) ==
    /\ Goto(a, "done")
    /\ outcome' = [outcome EXCEPT ![a] = o]
    /\ listeners' = listeners \ {a}

Continue(a, s) == Goto(a, s) /\ UNCHANGED <<outcome, listeners>>

-----------------------------------------------------------------------------

Begin(a) ==
    /\ pc[a] = "idle"
    /\ Goto(a, "providers")
    /\ UNCHANGED <<listeners, expected, ticket, failed, cancelled, late, asked, outcome, token, serverVars>>

\* authProviders answered: the flow is started, unless there is only the local
\* login, or none, or the window cannot be called back.
Providers(a) ==
    /\ pc[a] = "providers"
    /\ \/ Goto(a, "starting") /\ listeners' = listeners \cup {a} /\ UNCHANGED outcome
       \/ \E o \in {"local", "error"} : Finish(a, o)
    /\ UNCHANGED <<expected, ticket, failed, cancelled, late, asked, token, serverVars>>

Started(a) ==
    /\ pc[a] = "starting"
    /\ expected' = [expected EXCEPT ![a] = a]
    /\ IF cancelled[a] THEN Finish(a, "cancelled") ELSE Continue(a, "opening")
    /\ UNCHANGED <<ticket, failed, cancelled, late, asked, token, serverVars>>

StartFailed(a) ==
    /\ pc[a] = "starting"
    /\ Finish(a, "error")
    /\ UNCHANGED <<expected, ticket, failed, cancelled, late, asked, token, serverVars>>

\* The head of the polling loop, and what follows it.
Poll(a) == IF late[a] THEN Finish(a, "timeout") ELSE Continue(a, "pausing")

\* openBrowser returned; after Copy or Cancel the link is offered once more.
Opened(a, opened) ==
    /\ pc[a] = "opening"
    /\ IF cancelled[a] THEN Finish(a, "cancelled") /\ UNCHANGED asked
       ELSE /\ Poll(a)
            /\ asked' = IF ~opened /\ ticket[a] = None /\ ~failed[a] /\ ~late[a]
                        THEN asked \cup {a} ELSE asked
    /\ UNCHANGED <<expected, ticket, failed, cancelled, late, token, serverVars>>

\* Mutant: the loop's head is the only place that looks at the cancellation.
PausedThenExchange(a) ==
    /\ pc[a] = "pausing"
    /\ IF failed[a] THEN Finish(a, "error")
       ELSE IF ticket[a] = None THEN Poll(a)
       ELSE Continue(a, "exchanging")
    /\ UNCHANGED <<expected, ticket, failed, cancelled, late, asked, token, serverVars>>

\* A quarter of a second has passed.
Paused(a) ==
    /\ pc[a] = "pausing"
    /\ IF cancelled[a] THEN Finish(a, "cancelled")
       ELSE IF failed[a] THEN Finish(a, "error")
       ELSE IF ticket[a] = None THEN Poll(a)
       ELSE Continue(a, "exchanging")
    /\ UNCHANGED <<expected, ticket, failed, cancelled, late, asked, token, serverVars>>

\* The exchange was answered with a token for whoever signed in to the flow.
Exchanged(a) ==
    /\ pc[a] = "exchanging"
    /\ ticket[a] = a /\ signer[a] # None /\ a \notin spent
    /\ spent' = spent \cup {a}
    /\ IF cancelled[a] THEN Finish(a, "cancelled") /\ UNCHANGED token
       ELSE Finish(a, "token") /\ token' = [token EXCEPT ![a] = signer[a]]
    /\ UNCHANGED <<expected, ticket, failed, cancelled, late, asked, signer, sent>>

\* The server has not the identity yet.
ExchangePending(a) ==
    /\ pc[a] = "exchanging"
    /\ IF cancelled[a] THEN Finish(a, "cancelled") ELSE Poll(a)
    /\ UNCHANGED <<expected, ticket, failed, cancelled, late, asked, token, serverVars>>

\* Refused or lost; when the answer was lost the flow may have been spent.
ExchangeFailed(a) ==
    /\ pc[a] = "exchanging"
    /\ spent' \in {spent} \cup (IF signer[a] # None /\ ticket[a] = a THEN {spent \cup {a}} ELSE {})
    /\ Finish(a, "error")
    /\ UNCHANGED <<expected, ticket, failed, cancelled, late, asked, token, signer, sent>>

-----------------------------------------------------------------------------
(* The student, the clock and the browser *)

\* The progress notification's button.
Cancel(a) ==
    /\ pc[a] \in Running
    /\ cancelled' = [cancelled EXCEPT ![a] = TRUE]
    /\ UNCHANGED <<pc, listeners, expected, ticket, failed, late, asked, outcome, token, serverVars>>

\* The dialogue's answer; one for an attempt that is over has no effect.
Answer(a, cancel) ==
    /\ a \in asked
    /\ asked' = asked \ {a}
    /\ cancelled' = [cancelled EXCEPT ![a] = @ \/ (cancel /\ pc[a] \in Running)]
    /\ UNCHANGED <<pc, listeners, expected, ticket, failed, late, outcome, token, serverVars>>

DeadlinePasses(a) ==
    /\ pc[a] \in {"opening", "pausing", "exchanging"} /\ ~late[a]
    /\ late' = [late EXCEPT ![a] = TRUE]
    /\ UNCHANGED <<pc, listeners, expected, ticket, failed, cancelled, asked, outcome, token, serverVars>>

SignIn(a, s) ==
    /\ expected[a] = a /\ signer[a] = None
    /\ signer' = [signer EXCEPT ![a] = s]
    /\ sent' = sent \cup {[state |-> a, kind |-> "ticket"]}
    /\ UNCHANGED <<editorVars, spent>>

SignInFails(a) ==
    /\ expected[a] = a
    /\ sent' = sent \cup {[state |-> a, kind |-> "login_failed"]}
    /\ UNCHANGED <<editorVars, signer, spent>>

\* Mutant: any login's callback is taken.
TakesAny(a, u) == ticket[a] = None /\ ~failed[a] /\ expected[a] # None

\* Mutant: a later callback replaces an earlier one.
TakesLast(a, u) == expected[a] # None /\ u.state = expected[a]

\* The listener: the first callback with the attempt's own state.
Takes(a, u) ==
    /\ ticket[a] = None /\ ~failed[a]
    /\ expected[a] # None /\ u.state = expected[a]

\* handleUri: every listener sees the callback; it may come again.
HandleUri(u) ==
    /\ u \in sent
    /\ ticket' = [a \in Attempt |-> IF a \in listeners /\ Takes(a, u) /\ u.kind = "ticket"
                                    THEN u.state ELSE ticket[a]]
    /\ failed' = [a \in Attempt |-> failed[a] \/ (a \in listeners /\ Takes(a, u)
                                                    /\ u.kind = "login_failed")]
    /\ UNCHANGED <<pc, listeners, expected, cancelled, late, asked, outcome, token, serverVars>>

-----------------------------------------------------------------------------

Init ==
    /\ pc = [a \in Attempt |-> "idle"]
    /\ listeners = {}
    /\ expected = [a \in Attempt |-> None]
    /\ ticket = [a \in Attempt |-> None]
    /\ failed = [a \in Attempt |-> FALSE]
    /\ cancelled = [a \in Attempt |-> FALSE]
    /\ late = [a \in Attempt |-> FALSE]
    /\ asked = {}
    /\ outcome = [a \in Attempt |-> "none"]
    /\ token = [a \in Attempt |-> None]
    /\ signer = [a \in Attempt |-> None]
    /\ spent = {}
    /\ sent = {}

ExchangeAnswered(a) == Exchanged(a) \/ ExchangePending(a) \/ ExchangeFailed(a)

\* What the attempt's own code does, the opening of the browser left out.
Works(a) == Providers(a) \/ Started(a) \/ StartFailed(a) \/ Paused(a) \/ ExchangeAnswered(a)

Next ==
    \/ \E a \in Attempt :
          \/ Begin(a) \/ Works(a) \/ Cancel(a) \/ DeadlinePasses(a) \/ SignInFails(a)
          \/ \E b \in BOOLEAN : Opened(a, b) \/ Answer(a, b)
          \/ \E s \in Student : SignIn(a, s)
    \/ \E u \in sent : HandleUri(u)

\* Requests to /auth/ are given up after 15 s, pauses and deadlines end; nothing
\* is assumed of the student, the browser or the provider.
Spec == /\ Init /\ [][Next]_vars
        /\ \A a \in Attempt : WF_vars(Works(a)) /\ WF_vars(DeadlinePasses(a))

-----------------------------------------------------------------------------
(* Properties *)

\* The values of the variables.
TypeOK ==
    /\ pc \in [Attempt -> Pcs]
    /\ listeners \subseteq Attempt
    /\ expected \in [Attempt -> Attempt \cup {None}]
    /\ ticket \in [Attempt -> Attempt \cup {None}]
    /\ failed \in [Attempt -> BOOLEAN]
    /\ cancelled \in [Attempt -> BOOLEAN]
    /\ late \in [Attempt -> BOOLEAN]
    /\ asked \subseteq Attempt
    /\ outcome \in [Attempt -> Outcomes]
    /\ token \in [Attempt -> Student \cup {None}]
    /\ signer \in [Attempt -> Student \cup {None}]
    /\ spent \subseteq Attempt
    /\ sent \subseteq Callbacks

\* Attempts share the URI handler and do not take each other's callbacks, and a
\* token is the token of the person who signed in to the attempt's own flow.
OwnSignIn ==
    \A a \in Attempt :
        /\ ticket[a] \in {None, a}
        /\ token[a] \in {None, signer[a]}

\* Only attempts that are under way listen.
ListenersRun == \A a \in listeners : pc[a] \in Running

\* After the student has cancelled, no exchange is begun and no token returned,
\* whatever callback had come before; and the first callback of an attempt
\* decides it.
DecidedOnce ==
    \A a \in Attempt :
        /\ cancelled[a] => /\ pc'[a] = "exchanging" => pc[a] = "exchanging"
                           /\ token'[a] = token[a]
        /\ ticket[a] # None => failed'[a] = failed[a]
        /\ failed[a] => ticket'[a] = ticket[a]

\* What forgejoFlow.ts promises of attempts that run side by side: each keeps to
\* its own callbacks and person, listens only while it runs, and is decided once.
AttemptsApart ==
    /\ [](TypeOK /\ OwnSignIn /\ ListenersRun)
    /\ [][DecidedOnce]_vars
=============================================================================
