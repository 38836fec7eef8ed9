------------------------------- MODULE Tutoring -------------------------------
(***************************************************************************)
(* The paid tutor of one student: src/ego_server/ai.py and its router.     *)
(* Every query of that code is restricted to one student_id and no row is  *)
(* shared between students, so one student's rows are the whole state.     *)
(*                                                                         *)
(* A call is one HTTP request being handled.  Each worker process has one  *)
(* event loop: a call keeps the loop (loop[w] = c) from one await to the   *)
(* next, so with a single worker the code between two awaits is atomic,    *)
(* while the statements of two workers interleave.  SQLite serialises      *)
(* write transactions: everything from the first UPDATE or INSERT to       *)
(* commit() or rollback() is one step, and a SELECT before it is a step of *)
(* its own whenever another worker could change what it reads.             *)
(* A transaction that waits longer than SQLite's busy timeout is not       *)
(* modelled, nor is the deletion of the student.                           *)
(***************************************************************************)
EXTENDS Integers, Sequences, FiniteSets, Functions

CONSTANTS
    Workers,      \* uvicorn worker processes
    Calls,        \* HTTP requests handled at the same time
    Requests,     \* request_id values the clients choose
    Sessions,     \* ai_sessions.id
    Submissions,  \* solutions of the student that passed the checker
    CreditIds,    \* request_id values of POST .../credits
    Modes,        \* session modes in use: "help" (hint or explain), "defend"
    Amounts,      \* credit amounts, in millionths of USD
    Reserve,      \* what send_message reserves for the two model calls
    TutorCosts,   \* what one call of the main model may cost
    GuardCosts,   \* what one call of the reviewing model may cost
    MaxTurns,     \* AISettings.max_turns
    MaxCrashes,   \* bound: how many times a worker process dies
    None

ASSUME ConstantsAssumption ==
    /\ Modes \subseteq {"help", "defend"}
    /\ Amounts \subseteq Nat \ {0}
    /\ Reserve \in Nat
    /\ TutorCosts \subseteq Nat /\ GuardCosts \subseteq Nat
    /\ MaxTurns \in Nat /\ MaxCrashes \in Nat
    /\ None \notin Workers \cup Calls \cup Requests \cup Sessions
                   \cup Submissions \cup CreditIds

VARIABLES
    account,     \* the ai_accounts row; a missing row reads as the initial one
    credited,    \* ai_credits: the amount booked under each id, 0 for none
    submission,  \* ai_submissions: understanding and evidence of each solution
    session,     \* ai_sessions, with the number of its ai_messages
    request,     \* ai_requests, with the sum and outcome of its ai_usage rows
    loop,        \* the call that keeps each worker's event loop, or None
    pc,          \* where each call is
    call,        \* each call's arguments and what it has read
    fails,       \* history: refused answers since the session's stage began
    crashes      \* how many times a worker has died, bounded by MaxCrashes

db == <<account, credited, submission, session, request, fails>>
vars == <<db, loop, pc, call, crashes>>

-----------------------------------------------------------------------------
(* The rows.                                                               *)

STAGES == <<"mechanism", "trace", "transfer">>

Verdicts == {"active", "confirmed", "needs_review"}

AccountRow == [enabled : BOOLEAN, defense_required : BOOLEAN,
               balance : Int, reserved : Int, spent : Int]

SubmissionRow == [understanding : {"none", "pending", "confirmed", "needs_review"},
                  evidence : Seq({"mechanism", "trace", "transfer"})]

SessionRow == [status : Verdicts \cup {"none"}, mode : {"help", "defend"},
               submission : Submissions \cup {None}, stage : 0..3,
               retries : Nat, busy : BOOLEAN, messages : Nat]

\* "recovering" lives and dies inside one transaction, so it is never seen.
RequestRow == [status : {"none", "running", "done"}, session : Sessions \cup {None},
               reserved : Nat, old : BOOLEAN, cost : Nat,
               outcome : {"none", "uncertain", "received", "blocked", "delivered"},
               answer : {"none", "ok", "error"}]

NoSubmission == [understanding |-> "none", evidence |-> <<>>]
NoSession == [status |-> "none", mode |-> "help", submission |-> None,
              stage |-> 0, retries |-> 0, busy |-> FALSE, messages |-> 0]
NoRequest == [status |-> "none", session |-> None, reserved |-> 0, old |-> FALSE,
              cost |-> 0, outcome |-> "none", answer |-> "none"]

(* The arguments of a call, and its local variables.                       *)
CallRow == [worker : Workers \cup {None},
            op : {"none", "send", "create", "poll", "access", "credit"},
            session : Sessions \cup {None}, request : Requests \cup {None},
            text : BOOLEAN,            \* body.text is not blank
            seen : SessionRow,         \* the row owned_session returned
            count : Nat,               \* len(messages)
            passed : BOOLEAN,          \* draft.step_passed
            evidence : Seq({"mechanism", "trace", "transfer"}),
            answer : {"ok", "error"},  \* what _settle is to record
            mode : {"help", "defend"}, submission : Submissions \cup {None},
            enabled : BOOLEAN, defense_required : BOOLEAN,
            credit : CreditIds \cup {None}, amount : Nat]

NoArgs == [worker |-> None, op |-> "none", session |-> None, request |-> None,
           text |-> FALSE, seen |-> NoSession, count |-> 0, passed |-> FALSE,
           evidence |-> <<>>, answer |-> "error", mode |-> "help",
           submission |-> None, enabled |-> FALSE, defense_required |-> FALSE,
           credit |-> None, amount |-> 0]

Awaiting == {"tutor", "guard"}   \* await _call(...): the loop serves others
Turn == Awaiting \cup {"blocked", "recheck", "evidence", "deliver", "settle"}
Running == Turn \cup {"account", "lookup", "prepare", "reserve", "unlock", "view",
                      "submission", "existing", "insert", "access", "credit"}

Init ==
    /\ account = [enabled |-> FALSE, defense_required |-> TRUE,
                  balance |-> 0, reserved |-> 0, spent |-> 0]
    /\ credited = [i \in CreditIds |-> 0]
    /\ submission = [b \in Submissions |-> NoSubmission]
    /\ session = [s \in Sessions |-> NoSession]
    /\ request = [r \in Requests |-> NoRequest]
    /\ loop = [w \in Workers |-> None]
    /\ pc = [c \in Calls |-> "idle"]
    /\ call = [c \in Calls |-> NoArgs]
    /\ fails = [s \in Sessions |-> 0]
    /\ crashes = 0

-----------------------------------------------------------------------------
(* Control.                                                                *)

\* A request reaches an idle event loop, which runs its handler from here.
Arrive(c, w, here, args) ==
    /\ pc[c] = "idle" /\ loop[w] = None
    /\ loop' = [loop EXCEPT ![w] = c]
    /\ pc' = [pc EXCEPT ![c] = here]
    /\ call' = [call EXCEPT ![c] = [args EXCEPT !.worker = w]]
    /\ UNCHANGED crashes

\* The handler goes on without an await.
Goto(c, here) ==
    /\ pc' = [pc EXCEPT ![c] = here]
    /\ UNCHANGED <<loop, crashes>>

\* The handler waits for a model: the loop is free for other calls.
Await(c, here) ==
    /\ pc' = [pc EXCEPT ![c] = here]
    /\ loop' = [loop EXCEPT ![call[c].worker] = None]
    /\ UNCHANGED crashes

\* The model answered or timed out and the loop runs the handler again.
Resume(c, here) ==
    /\ loop[call[c].worker] = None
    /\ loop' = [loop EXCEPT ![call[c].worker] = c]
    /\ pc' = [pc EXCEPT ![c] = here]
    /\ UNCHANGED crashes

\* The handler returns or raises.
Return(c) ==
    /\ pc' = [pc EXCEPT ![c] = "idle"]
    /\ call' = [call EXCEPT ![c] = NoArgs]
    /\ loop' = [loop EXCEPT ![call[c].worker] = None]
    /\ UNCHANGED crashes

-----------------------------------------------------------------------------
(* Accounts, settlement and recovery.                                      *)

Available == account.enabled /\ account.balance - account.reserved > 0

\* Mutant: the end of a turn forgets the busy column.
LeftLocked(s) == session

Unlocked(s) == [session EXCEPT ![s].busy = FALSE]

\* _settle once its SELECT has found the request: the usage rows sum to
\* charged, the reservation is given back, the dialogue is unlocked.
Settled(r, charged, answer) ==
    /\ account' = [account EXCEPT !.balance = @ - charged, !.spent = @ + charged,
                                  !.reserved = @ - request[r].reserved]
    /\ request' = [request EXCEPT ![r] = [@ EXCEPT !.status = "done", !.old = FALSE,
                                                 !.cost = charged, !.answer = answer]]
    /\ session' = Unlocked(request[r].session)

\* Mutant: account() recovers nothing.
NoneInterrupted == {}

Interrupted == {r \in Requests : request[r].status = "running" /\ request[r].old}

\* account() recovers interrupted requests before it reads the row: one
\* transaction each, charging the whole reservation if less is known spent.
AccountRead == {"account", "recheck", "view"}
Recover(c, r) ==
    /\ pc[c] \in AccountRead /\ r \in Interrupted
    /\ Settled(r, IF request[r].cost < request[r].reserved
                  THEN request[r].reserved ELSE request[r].cost, "error")
    /\ UNCHANGED <<credited, submission, fails, loop, pc, call, crashes>>

\* account() has nothing left to recover.
Read(c, here) == pc[c] = here /\ Interrupted = {}

\* GET /ai/me.
Poll(c, w) ==
    /\ Arrive(c, w, "view", [NoArgs EXCEPT !.op = "poll"])
    /\ UNCHANGED db

\* The handlers that answer with the account end with account().
View(c) ==
    /\ Read(c, "view")
    /\ Return(c)
    /\ UNCHANGED db

\* PUT /admin/ai/students/{id} and POST .../credits begin with account().
UpdateAccess(c, w, enabled, required) ==
    /\ Arrive(c, w, "account", [NoArgs EXCEPT !.op = "access", !.enabled = enabled,
                                              !.defense_required = required])
    /\ UNCHANGED db

AddCredit(c, w, i, amount) ==
    /\ Arrive(c, w, "account", [NoArgs EXCEPT !.op = "credit", !.credit = i,
                                              !.amount = amount])
    /\ UNCHANGED db

AdminAccount(c) ==
    /\ Read(c, "account") /\ call[c].op \in {"access", "credit"}
    /\ Goto(c, call[c].op)
    /\ UNCHANGED <<db, call>>

\* Mutant: the row is replaced, its money with it.
ReplaceAccess(c) ==
    /\ pc[c] = "access"
    /\ account' = [account EXCEPT !.enabled = call[c].enabled, !.balance = 0]
    /\ Goto(c, "view")
    /\ UNCHANGED <<credited, submission, session, request, fails, call>>

SaveAccess(c) ==
    /\ pc[c] = "access"
    /\ account' = [account EXCEPT !.enabled = call[c].enabled,
                                  !.defense_required = call[c].defense_required]
    /\ Goto(c, "view")
    /\ UNCHANGED <<credited, submission, session, request, fails, call>>

\* Mutant: a repeated credit is booked again.
BookAgain(c) ==
    /\ pc[c] = "credit" /\ credited[call[c].credit] \in {0, call[c].amount}
    /\ credited' = [credited EXCEPT ![call[c].credit] = call[c].amount]
    /\ account' = [account EXCEPT !.balance = @ + call[c].amount]
    /\ Goto(c, "view")
    /\ UNCHANGED <<submission, session, request, fails, call>>

\* One write transaction: an id already booked with this amount adds nothing.
SaveCredit(c) ==
    /\ pc[c] = "credit" /\ credited[call[c].credit] \in {0, call[c].amount}
    /\ IF credited[call[c].credit] = 0
       THEN /\ credited' = [credited EXCEPT ![call[c].credit] = call[c].amount]
            /\ account' = [account EXCEPT !.balance = @ + call[c].amount]
       ELSE UNCHANGED <<credited, account>>
    /\ Goto(c, "view")
    /\ UNCHANGED <<submission, session, request, fails, call>>

\* 409: the id was used with another amount.
RefuseCredit(c) ==
    /\ pc[c] = "credit" /\ credited[call[c].credit] \notin {0, call[c].amount}
    /\ Return(c)
    /\ UNCHANGED db

-----------------------------------------------------------------------------
(* Submissions and sessions.                                               *)

\* The end of POST /check after the tests passed.
RecordSubmission(w, b) ==
    /\ loop[w] = None
    /\ account.enabled /\ account.defense_required
    /\ submission[b].understanding = "none"
    /\ submission' = [submission EXCEPT ![b].understanding = "pending"]
    /\ UNCHANGED <<account, credited, session, request, fails, loop, pc, call, crashes>>

CreateSession(c, w, mode, b) ==
    /\ mode \in Modes /\ (mode = "help" <=> b = None)
    /\ Arrive(c, w, "account", [NoArgs EXCEPT !.op = "create", !.mode = mode,
                                              !.submission = b])
    /\ UNCHANGED db

\* require_access for a message or a new session: 403 or 402, or 503 for an
\* assistant that the administrator has not configured or switched off.
RefuseAccess(c) ==
    /\ Read(c, "account") /\ call[c].op \in {"send", "create"}
    /\ Return(c)
    /\ UNCHANGED db

CreateAllowed(c) ==
    /\ Read(c, "account") /\ call[c].op = "create" /\ Available
    /\ Goto(c, IF call[c].mode = "defend" THEN "submission" ELSE "insert")
    /\ UNCHANGED <<db, call>>

\* 409: not checked by the server, or already confirmed.
RefuseDefense(c) ==
    /\ pc[c] = "submission"
    /\ submission[call[c].submission].understanding \in {"none", "confirmed"}
    /\ Return(c)
    /\ UNCHANGED db

\* Mutant: a confirmed solution may be defended again.
AcceptAnyDefense(c) ==
    /\ pc[c] = "submission"
    /\ submission[call[c].submission].understanding # "none"
    /\ Goto(c, "existing")
    /\ UNCHANGED <<db, call>>

AcceptDefense(c) ==
    /\ pc[c] = "submission"
    /\ submission[call[c].submission].understanding \notin {"none", "confirmed"}
    /\ Goto(c, "existing")
    /\ UNCHANGED <<db, call>>

ActiveDefenses(b) == {s \in Sessions : session[s].status = "active"
                                       /\ session[s].submission = b}

FindExisting(c) ==
    /\ pc[c] = "existing"
    /\ Goto(c, IF ActiveDefenses(call[c].submission) = {} THEN "insert" ELSE "view")
    /\ UNCHANGED <<db, call>>

\* 413: the context is too large (sizes are not modelled, so it may be).
RefuseContext(c) ==
    /\ pc[c] = "insert"
    /\ Return(c)
    /\ UNCHANGED db

\* Mutant: the evidence of an earlier defense stays.
EvidenceKept(b) == [submission[b] EXCEPT !.understanding = "pending"]

Restarted(b) == [understanding |-> "pending", evidence |-> <<>>]

\* The unique index ai_defense_per_submission lets one active defense in.
InsertSession(c, s) ==
    LET b == call[c].submission IN
    /\ pc[c] = "insert" /\ session[s].status = "none"
    /\ b # None => ActiveDefenses(b) = {}
    /\ session' = [session EXCEPT ![s] = [NoSession EXCEPT !.status = "active",
                                              !.mode = call[c].mode, !.submission = b]]
    /\ submission' = IF b = None THEN submission
                     ELSE [submission EXCEPT ![b] = Restarted(b)]
    /\ Goto(c, "view")
    /\ UNCHANGED <<account, credited, request, fails, call>>

\* IntegrityError: roll back and answer with the session that got in first.
InsertConflict(c) ==
    /\ pc[c] = "insert" /\ call[c].submission # None
    /\ ActiveDefenses(call[c].submission) # {}
    /\ Goto(c, "view")
    /\ UNCHANGED <<db, call>>

-----------------------------------------------------------------------------
(* POST /ai/sessions/{id}/messages.                                        *)

\* owned_session, whose row the handler keeps to its end.
SendMessage(c, w, s, r, text) ==
    /\ session[s].status # "none"
    /\ Arrive(c, w, "lookup", [NoArgs EXCEPT !.op = "send", !.session = s,
                                  !.request = r, !.text = text, !.seen = session[s]])
    /\ UNCHANGED db

\* The request_id is new to the server.
FirstUse(c) ==
    /\ pc[c] = "lookup" /\ request[call[c].request].status = "none"
    /\ Goto(c, "account")
    /\ UNCHANGED <<db, call>>

Replayed(c) == LET row == request[call[c].request]
               IN  row.session = call[c].session /\ row.status = "done"

\* The same request_id again: the saved answer, without any model.
Replay(c) ==
    /\ pc[c] = "lookup" /\ Replayed(c) /\ request[call[c].request].answer = "ok"
    /\ Goto(c, "view")
    /\ UNCHANGED <<db, call>>

\* The saved error, or 409 for one still running or used in another dialogue.
RefuseReplay(c) ==
    /\ pc[c] = "lookup" /\ request[call[c].request].status # "none"
    /\ Replayed(c) => request[call[c].request].answer = "error"
    /\ Return(c)
    /\ UNCHANGED db

SendAllowed(c) ==
    /\ Read(c, "account") /\ call[c].op = "send" /\ Available
    /\ Goto(c, "prepare")
    /\ UNCHANGED <<db, call>>

\* The messages are read again after require_access; the session row is not.
Prepare(c) ==
    LET seen == call[c].seen
        count == session[call[c].session].messages
    IN  /\ pc[c] = "prepare" /\ seen.status = "active"
        /\ count > 0 => call[c].text
        /\ count = 0 /\ seen.mode = "defend" => ~call[c].text
        /\ count < MaxTurns * 2
        /\ call' = [call EXCEPT ![c].count = count]
        /\ Goto(c, "reserve")
        /\ UNCHANGED db

\* 409 finished or full, 422 out of turn, 413 too large (sizes are not
\* modelled, so a refusal is always possible).
RefuseTurn(c) ==
    /\ pc[c] = "prepare"
    /\ Return(c)
    /\ UNCHANGED db

\* Mutant: the busy column is not looked at.
FreshThoughBusy(c) ==
    /\ session[call[c].session].status = "active"
    /\ session[call[c].session].stage = call[c].seen.stage
    /\ session[call[c].session].messages = call[c].count

\* UPDATE ai_sessions SET busy = 1 opens the transaction that checks the row
\* and the number of messages again.
Fresh(c) ==
    LET s == call[c].session IN
    /\ ~session[s].busy
    /\ session[s].status = "active" /\ session[s].stage = call[c].seen.stage
    /\ session[s].messages = call[c].count

\* Mutants: what other turns hold is not subtracted; a request_id is reused.
CanReserveAll(c) == account.enabled /\ account.balance >= Reserve
                    /\ request[call[c].request].status = "none"
CanReserveAgain(c) == account.enabled /\ account.balance - account.reserved >= Reserve

\* _reserve's conditional UPDATE, and its INSERT under the primary key.
CanReserve(c) ==
    /\ account.enabled /\ account.balance - account.reserved >= Reserve
    /\ request[call[c].request].status = "none"

ReserveTurn(c) ==
    LET s == call[c].session
        r == call[c].request
    IN  /\ pc[c] = "reserve" /\ Fresh(c) /\ CanReserve(c)
        /\ account' = [account EXCEPT !.reserved = @ + Reserve]
        /\ session' = [session EXCEPT ![s].busy = TRUE]
        /\ request' = [request EXCEPT ![r] = [NoRequest EXCEPT !.status = "running",
                                                  !.session = s, !.reserved = Reserve]]
        /\ Await(c, "tutor")
        /\ UNCHANGED <<credited, submission, fails, call>>

\* 409: rolled back.
RefuseBusy(c) ==
    /\ pc[c] = "reserve" /\ ~Fresh(c)
    /\ Return(c)
    /\ UNCHANGED db

\* _reserve rolled the transaction back, busy = 1 with it.
ReserveFails(c) ==
    /\ pc[c] = "reserve" /\ Fresh(c) /\ ~CanReserve(c)
    /\ Goto(c, "unlock")
    /\ UNCHANGED <<db, call>>

\* ... and the handler of that failure clears busy in a transaction of its own.
Unlock(c) ==
    /\ pc[c] = "unlock"
    /\ session' = Unlocked(call[c].session)
    /\ Return(c)
    /\ UNCHANGED <<account, credited, submission, request, fails>>

HasAnswer(c) == call[c].text /\ call[c].count > 0

\* The usage row that _call commits, whatever the provider did.
Charge(c, cost, outcome) ==
    LET row == request[call[c].request] IN
    /\ request' = [request EXCEPT ![call[c].request] =
                                      [row EXCEPT !.cost = @ + cost, !.outcome = outcome]]
    /\ UNCHANGED <<account, credited, submission, session, fails>>

\* A usable draft: a step may only pass on evidence quoted from the answer.
TutorDrafts(c) ==
    \E cost \in TutorCosts, passed \in BOOLEAN :
        /\ pc[c] = "tutor"
        /\ passed => call[c].seen.mode = "defend" /\ HasAnswer(c)
        /\ Charge(c, cost, "received")
        /\ pc' = [pc EXCEPT ![c] = "guard"]
        /\ call' = [call EXCEPT ![c].passed = passed]
        /\ loop[call[c].worker] = None
        /\ UNCHANGED <<loop, crashes>>

\* Timeout, transport error, cancellation, or an answer that is not a valid
\* draft or verdict; the cost is billed as reported or as estimated.
ModelFails(c) ==
    \E outcome \in {"uncertain", "received"} :
    \E cost \in IF pc[c] = "tutor" THEN TutorCosts ELSE GuardCosts :
        /\ pc[c] \in Awaiting
        /\ Charge(c, cost, outcome)
        /\ Resume(c, "settle")
        /\ UNCHANGED call

GuardAllows(c) ==
    \E cost \in GuardCosts :
        /\ pc[c] = "guard"
        /\ Charge(c, cost, "received")
        /\ Resume(c, "recheck")
        /\ UNCHANGED call

GuardRefuses(c) ==
    \E cost \in GuardCosts :
        /\ pc[c] = "guard"
        /\ Charge(c, cost, "received")
        /\ Resume(c, "blocked")
        /\ UNCHANGED call

Block(c) ==
    /\ pc[c] = "blocked"
    /\ request' = [request EXCEPT ![call[c].request].outcome = "blocked"]
    /\ Goto(c, "settle")
    /\ UNCHANGED <<account, credited, submission, session, fails, call>>

\* 403: access was revoked while the models were working.
Revoked(c) ==
    /\ Read(c, "recheck") /\ ~account.enabled
    /\ Goto(c, "settle")
    /\ UNCHANGED <<db, call>>

\* Mutant: access is not looked at again.
NotRechecked(c) ==
    /\ Read(c, "recheck")
    /\ Goto(c, IF call[c].passed THEN "evidence" ELSE "deliver")
    /\ UNCHANGED <<db, call>>

StillEnabled(c) ==
    /\ Read(c, "recheck") /\ account.enabled
    /\ Goto(c, IF call[c].passed THEN "evidence" ELSE "deliver")
    /\ UNCHANGED <<db, call>>

\* SELECT evidence_json, before the delivery's first write.
ReadEvidence(c) ==
    /\ pc[c] = "evidence"
    /\ call' = [call EXCEPT ![c].evidence = submission[call[c].seen.submission].evidence]
    /\ Goto(c, "deliver")
    /\ UNCHANGED db

\* What the session becomes: stage, retries and status from the row that was
\* read at the start of the call.
NextStage(c) == IF call[c].passed THEN call[c].seen.stage + 1 ELSE call[c].seen.stage
Graded(c) == call[c].seen.mode = "defend" /\ HasAnswer(c)
\* Mutants: a passed stage keeps, or takes back, the refusals before it.
RetriesKept(c) == IF Graded(c) /\ ~call[c].passed THEN call[c].seen.retries + 1
                  ELSE call[c].seen.retries
RetriesTakenBack(c) == IF ~Graded(c) THEN call[c].seen.retries
                       ELSE call[c].seen.retries + (IF call[c].passed THEN -1 ELSE 1)

NextRetries(c) == IF ~Graded(c) THEN call[c].seen.retries
                  ELSE IF call[c].passed THEN 0 ELSE call[c].seen.retries + 1
\* Mutant: a third refusal is needed.
ThirdRefusal(c) == IF Graded(c) /\ NextStage(c) = 3 THEN "confirmed"
                   ELSE IF Graded(c) /\ NextRetries(c) > 2 THEN "needs_review"
                   ELSE "active"

NextStatus(c) == IF Graded(c) /\ NextStage(c) = 3 THEN "confirmed"
                 ELSE IF Graded(c) /\ NextRetries(c) >= 2 THEN "needs_review"
                 ELSE "active"

\* One transaction, unless the last UPDATE, which every turn makes, breaks
\* ai_defense_per_submission (the session was closed meanwhile and another one
\* opened): the exception leaves the earlier statements open and the commit of
\* _settle keeps them.
Lands(c) == \/ call[c].seen.mode # "defend" \/ NextStatus(c) # "active"
            \/ ActiveDefenses(call[c].seen.submission) \subseteq {call[c].session}

Deliver(c) ==
    LET s == call[c].session
        b == call[c].seen.submission
        row == session[s]
        said == IF call[c].text THEN 2 ELSE 1
    IN  /\ pc[c] = "deliver"
        /\ submission' =
             IF ~Graded(c) THEN submission
             ELSE [submission EXCEPT ![b] =
                     [understanding |-> IF NextStatus(c) = "active" THEN "pending"
                                        ELSE NextStatus(c),
                      evidence |-> IF call[c].passed
                                   THEN Append(call[c].evidence, STAGES[NextStage(c)])
                                   ELSE @.evidence]]
        /\ session' = [session EXCEPT ![s] =
                         IF ~Lands(c) THEN [row EXCEPT !.messages = @ + said]
                         ELSE [row EXCEPT !.stage = NextStage(c), !.retries = NextRetries(c),
                                          !.status = NextStatus(c), !.messages = @ + said]]
        /\ request' = [request EXCEPT ![call[c].request].outcome =
                                         IF Lands(c) THEN "delivered" ELSE @]
        /\ fails' = [fails EXCEPT ![s] = IF ~Graded(c) THEN @
                                         ELSE IF call[c].passed THEN 0 ELSE @ + 1]
        /\ call' = [call EXCEPT ![c].answer = IF Lands(c) THEN "ok" ELSE "error"]
        /\ Goto(c, "settle")
        /\ UNCHANGED <<account, credited>>

\* The first _settle of the call to find the request running; an answer goes
\* on to session_view, an error is raised.
Settle(c) ==
    LET r == call[c].request IN
    /\ pc[c] = "settle"
    /\ IF request[r].status = "running"
       THEN Settled(r, request[r].cost, call[c].answer)
       ELSE UNCHANGED <<account, request, session>>
    /\ IF call[c].answer = "ok" THEN Goto(c, "view") /\ UNCHANGED call
                                ELSE Return(c)
    /\ UNCHANGED <<credited, submission, fails>>

-----------------------------------------------------------------------------
(* The environment.                                                        *)

\* A worker process dies and is started again.
Crash(w) ==
    /\ crashes < MaxCrashes
    /\ crashes' = crashes + 1
    /\ loop' = [loop EXCEPT ![w] = None]
    /\ pc' = [c \in Calls |-> IF call[c].worker = w THEN "idle" ELSE pc[c]]
    /\ call' = [c \in Calls |-> IF call[c].worker = w THEN NoArgs ELSE call[c]]
    /\ UNCHANGED db

\* Mutant: the wait is shorter than a turn may take.
OwnedByTutor(r) == \E c \in Calls : pc[c] = "tutor" /\ call[c].request = r

\* Ten minutes pass.  A call that is alive is done long before: it waits for
\* two models, each at most timeout_seconds + 1 <= 121 seconds.
Owned(r) == \E c \in Calls : pc[c] \in Turn /\ call[c].request = r
TenMinutes(r) ==
    /\ request[r].status = "running" /\ ~request[r].old /\ ~Owned(r)
    /\ request' = [request EXCEPT ![r].old = TRUE]
    /\ UNCHANGED <<account, credited, submission, session, fails, loop, pc, call, crashes>>

-----------------------------------------------------------------------------
Student(c, w) ==
    \/ Poll(c, w)
    \/ \E mode \in Modes, b \in Submissions \cup {None} : CreateSession(c, w, mode, b)
    \/ \E s \in Sessions, r \in Requests, text \in BOOLEAN : SendMessage(c, w, s, r, text)

Admin(c, w) ==
    \/ \E enabled, required \in BOOLEAN : UpdateAccess(c, w, enabled, required)
    \/ \E i \in CreditIds, amount \in Amounts : AddCredit(c, w, i, amount)

AccountStep(c) ==
    \/ \E r \in Requests : Recover(c, r)
    \/ View(c) \/ AdminAccount(c) \/ SaveAccess(c) \/ SaveCredit(c) \/ RefuseCredit(c)

CreateStep(c) ==
    \/ RefuseAccess(c) \/ CreateAllowed(c) \/ RefuseDefense(c) \/ AcceptDefense(c)
    \/ FindExisting(c) \/ RefuseContext(c) \/ InsertConflict(c)
    \/ \E s \in Sessions : InsertSession(c, s)

SendStep(c) ==
    \/ FirstUse(c) \/ Replay(c) \/ RefuseReplay(c) \/ SendAllowed(c)
    \/ Prepare(c) \/ RefuseTurn(c)
    \/ ReserveTurn(c) \/ RefuseBusy(c) \/ ReserveFails(c) \/ Unlock(c)
    \/ TutorDrafts(c) \/ ModelFails(c) \/ GuardAllows(c) \/ GuardRefuses(c) \/ Block(c)
    \/ Revoked(c) \/ StillEnabled(c) \/ ReadEvidence(c) \/ Deliver(c) \/ Settle(c)

Step(c) == AccountStep(c) \/ CreateStep(c) \/ SendStep(c)

Next ==
    \/ \E c \in Calls, w \in Workers : Student(c, w) \/ Admin(c, w)
    \/ \E c \in Calls : Step(c)
    \/ \E w \in Workers, b \in Submissions : RecordSubmission(w, b)
    \/ \E w \in Workers : Crash(w)
    \/ \E r \in Requests : TenMinutes(r)

Spec == Init /\ [][Next]_vars

-----------------------------------------------------------------------------
(* Correctness.                                                            *)

\* Every variable keeps to the shape of its rows.
TypeOK ==
    /\ account \in AccountRow
    /\ credited \in [CreditIds -> Nat]
    /\ submission \in [Submissions -> SubmissionRow]
    /\ session \in [Sessions -> SessionRow]
    /\ request \in [Requests -> RequestRow]
    /\ loop \in [Workers -> Calls \cup {None}]
    /\ pc \in [Calls -> Running \cup {"idle"}]
    /\ call \in [Calls -> CallRow]
    /\ fails \in [Sessions -> Nat]
    /\ crashes \in 0..MaxCrashes

Open(r) == request[r].status = "running"

\* The wallet balances in every state: what is reserved is what the running
\* requests hold, what was credited is there or was spent, and every unit
\* spent is a usage row of a finished request, through crashes, recovery,
\* retries of a credit or a message, and with any number of workers.
LedgerBalanced ==
    /\ account.reserved = SumFunctionOnSet([r \in Requests |-> request[r].reserved],
                                {r \in Requests : Open(r)})
    /\ account.balance + account.spent = SumFunctionOnSet(credited, CreditIds)
    /\ account.spent = SumFunctionOnSet([r \in Requests |-> request[r].cost],
                             {r \in Requests : request[r].status = "done"})

\* Parallel turns never spend more than the student has, as long as the two
\* calls of a turn cost no more than was reserved for them.
NoOverdraft == account.balance >= account.reserved /\ account.reserved >= 0

\* A dialogue is busy exactly while one of its requests is running, and
\* never two of them run: what the busy column is for.
OneTurnAtATime ==
    /\ \A q, r \in Requests :
         Open(q) /\ Open(r) /\ request[q].session = request[r].session => q = r
    /\ \A s \in Sessions :
         session[s].busy <=> \E r \in Requests : Open(r) /\ request[r].session = s

\* The evidence kept with a solution is that of the stages its running
\* defense has passed, in their order; a confirmed one has all three.
EvidenceMatchesStages ==
    /\ \A s \in Sessions :
         session[s].status = "active" /\ session[s].mode = "defend" =>
            /\ submission[session[s].submission].evidence = SubSeq(STAGES, 1, session[s].stage)
            /\ submission[session[s].submission].understanding = "pending"
    /\ \A b \in Submissions :
         submission[b].understanding = "confirmed" => submission[b].evidence = STAGES

\* A defense that still goes on has refused at most one answer of its stage:
\* the second one closes it with needs_review.
TwoFailuresEndDefense ==
    \A s \in Sessions :
        session[s].status = "active" => fails[s] <= 1

\* A confirmed understanding is never taken back: not by a new session, a
\* late answer or a repeated request.
ConfirmedStays ==
    [][\A b \in Submissions : submission[b].understanding = "confirmed"
                               => submission'[b] = submission[b]]_vars

\* An answer reaches the student's conversation only while access is granted:
\* a revocation while the models work prevents the delivery.
DeliveredUnderAccess ==
    [][\A s \in Sessions :
         session'[s].messages # session[s].messages => account.enabled]_vars

\* The answer saved for a repeated request tells what happened: "ok" exactly
\* when the turn was delivered.  A crash between the delivery and _settle is
\* the exception: the turn is there but is recorded as interrupted.
SavedAnswerIsTrue ==
    \A r \in Requests : request[r].status = "done" =>
        /\ request[r].answer = "ok" => request[r].outcome = "delivered"
        /\ request[r].outcome = "delivered" /\ crashes = 0 => request[r].answer = "ok"

\* A request_id buys one turn: it is paid for by one call at a time, and once
\* it is settled neither its price nor its saved answer ever changes.
OnePaymentPerRequest ==
    [][\A r \in Requests :
         /\ request[r].status = "done" => request'[r] = request[r]
         /\ Open(r) => request'[r].status # "none"
         /\ \A c, d \in Calls : /\ pc[c] \in Turn /\ call[c].request = r
                                 /\ pc[d] \in Turn /\ call[d].request = r => c = d]_vars

-----------------------------------------------------------------------------
(* Liveness.                                                               *)

\* A handler that has the loop goes on, a model answers or times out, and
\* asyncio resumes waiting handlers in the order they became ready, so none is
\* passed over for ever (strong fairness).  Ten minutes pass.  The account is
\* read again and again, by any client.
FairSpec ==
    /\ Spec
    /\ \A c \in Calls : SF_vars(Step(c))
    /\ \A r \in Requests : WF_vars(TenMinutes(r))
    /\ SF_vars(\E c \in Calls, w \in Workers : Poll(c, w))

\* No wallet and no dialogue stays locked, whoever died.
EveryTurnEnds ==
    /\ \A r \in Requests : Open(r) ~> ~Open(r)
    /\ \A s \in Sessions : session[s].busy ~> ~session[s].busy
=============================================================================
