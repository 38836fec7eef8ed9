---------------------------- MODULE TutoringProofs ----------------------------
(* Theorems about Tutoring, for every value of its constants: the types, the  *)
(* turns, and what a student pays and is told.                               *)
EXTENDS TutoringImplements, FiniteSetTheorems, TLAPS

-----------------------------------------------------------------------------
(* Type correctness.  TypeOK alone is not inductive: that a passed step      *)
(* leads to a stage that exists depends on the session having been active    *)
(* when the call read it, and on a draft passing only a graded answer.       *)

\* The places of send_message.
Sending == Turn \cup {"lookup", "prepare", "reserve", "unlock"}

\* A session row the code can have written.
RowOK(row) == /\ row \in SessionRow
              /\ row.status = "active" => row.stage <= 2
              /\ row.mode = "defend" => row.submission \in Submissions

\* Local variables a call can have at a place of its handler.
Fits(here, row) ==
    /\ row \in CallRow
    /\ here \in Sending => row.op = "send"
    /\ row.op = "send" => row.session \in Sessions /\ row.request \in Requests
    /\ RowOK(row.seen)
    /\ here \in Turn \cup {"reserve", "unlock"} => row.seen.status = "active"
    /\ row.passed => row.seen.mode = "defend" /\ row.text /\ row.count > 0
    /\ here = "evidence" => row.passed
    /\ row.passed => here \notin {"lookup", "account", "prepare"}
    /\ row.mode = "defend" => row.submission \in Submissions

MoneyInv ==
    /\ account \in AccountRow
    /\ credited \in [CreditIds -> Nat]
    /\ request \in [Requests -> RequestRow]

DialogueInv ==
    /\ submission \in [Submissions -> SubmissionRow]
    /\ session \in [Sessions -> SessionRow]
    /\ \A s \in Sessions : RowOK(session[s])
    /\ fails \in [Sessions -> Nat]

ControlInv ==
    /\ loop \in [Workers -> Calls \cup {None}]
    /\ pc \in [Calls -> Running \cup {"idle"}]
    /\ crashes \in 0..MaxCrashes

CallsInv ==
    /\ call \in [Calls -> CallRow]
    /\ \A c \in Calls : Fits(pc[c], call[c])

TypeInv == MoneyInv /\ DialogueInv /\ ControlInv /\ CallsInv

LEMMA RowTypes ==
    /\ NoArgs \in CallRow /\ Fits("idle", NoArgs)
    /\ ~NoArgs.passed /\ NoArgs.mode = "help" /\ RowOK(NoArgs.seen)
    /\ NoSession \in SessionRow /\ RowOK(NoSession)
    /\ NoRequest \in RequestRow /\ NoSubmission \in SubmissionRow
BY DEF NoArgs, NoSession, NoRequest, NoSubmission, CallRow, SessionRow, RequestRow,
       SubmissionRow, Verdicts, Fits, RowOK, Sending, Turn, Awaiting

LEMMA TypeInvInit == Init => TypeInv
BY ConstantsAssumption, RowTypes
   DEF Init, TypeInv, MoneyInv, DialogueInv, ControlInv, CallsInv, AccountRow

-----------------------------------------------------------------------------
(* How control moves keep ControlInv and CallsInv.                           *)

\* One call moves to another place with other local variables.
LEMMA MoveFits ==
    ASSUME ControlInv, CallsInv, NEW c \in Calls, NEW here, NEW row, Fits(here, row),
           pc' = [pc EXCEPT ![c] = here], call' = [call EXCEPT ![c] = row]
    PROVE  CallsInv'
BY DEF ControlInv, CallsInv, Fits

\* Goto, Await and Resume of a call whose local variables stay.
LEMMA StayFits ==
    ASSUME ControlInv, CallsInv, NEW c \in Calls, NEW here, Fits(here, call[c]),
           pc' = [pc EXCEPT ![c] = here], call' = call
    PROVE  CallsInv'
BY DEF ControlInv, CallsInv, Fits

LEMMA ReturnFits ==
    ASSUME ControlInv, CallsInv, NEW c \in Calls, Return(c)
    PROVE  ControlInv' /\ CallsInv'
<1>1. CallsInv'
  BY RowTypes, MoveFits DEF Return
<1>2. ControlInv'
  BY DEF Return, ControlInv
<1> QED BY <1>1, <1>2

LEMMA ControlTypes ==
    ASSUME ControlInv, NEW c \in Calls, NEW here \in Running,
           \/ Goto(c, here) \/ Await(c, here) \/ Resume(c, here)
           \/ \E w \in Workers : \E args : Arrive(c, w, here, args)
    PROVE  ControlInv'
BY DEF ControlInv, Goto, Await, Resume, Arrive

\* A request that arrives brings arguments that fit the first place.
LEMMA ArriveFits ==
    ASSUME ControlInv, CallsInv, NEW c \in Calls, NEW w \in Workers, NEW here \in Running,
           NEW args, Fits(here, [args EXCEPT !.worker = w]), Arrive(c, w, here, args)
    PROVE  ControlInv' /\ CallsInv'
BY ControlTypes, MoveFits DEF Arrive

-----------------------------------------------------------------------------
(* The actions.                                                              *)

\* Rows whose numbers change stay rows.
LEMMA AccountUpdate ==
    ASSUME NEW row \in AccountRow, NEW x \in Int
    PROVE  /\ \A y, z \in Int :
                [row EXCEPT !.balance = x, !.spent = y, !.reserved = z] \in AccountRow
           /\ [row EXCEPT !.balance = x] \in AccountRow
           /\ [row EXCEPT !.reserved = x] \in AccountRow
BY DEF AccountRow

LEMMA RequestUpdate ==
    ASSUME NEW row \in RequestRow, NEW cost \in Nat,
           NEW outcome \in {"uncertain", "received"}, NEW answer \in {"ok", "error"}
    PROVE  /\ [row EXCEPT !.cost = cost, !.outcome = outcome] \in RequestRow
           /\ [row EXCEPT !.status = "done", !.old = FALSE, !.cost = cost,
                          !.answer = answer] \in RequestRow
BY DEF RequestRow

LEMMA SettledTypes ==
    ASSUME TypeInv, NEW r \in Requests, NEW charged \in Nat, NEW answer \in {"ok", "error"},
           Settled(r, charged, answer), UNCHANGED <<credited, submission, fails>>
    PROVE  MoneyInv' /\ DialogueInv'
<1> USE DEF TypeInv, MoneyInv, DialogueInv, Settled, Unlocked
<1>1. account' \in AccountRow
  <2>1. /\ account.balance - charged \in Int /\ account.spent + charged \in Int
        /\ account.reserved - request[r].reserved \in Int
    BY DEF AccountRow, RequestRow
  <2> QED BY <2>1, AccountUpdate
<1>2. request' \in [Requests -> RequestRow]
  BY RequestUpdate
<1>3. session' \in [Sessions -> SessionRow] /\ \A s \in Sessions : RowOK(session'[s])
  <2>1. \A row \in SessionRow : /\ [row EXCEPT !.busy = FALSE] \in SessionRow
                                /\ RowOK(row) => RowOK([row EXCEPT !.busy = FALSE])
    BY DEF RowOK, SessionRow
  <2> QED BY <2>1
<1> QED BY <1>1, <1>2, <1>3

LEMMA ChargeTypes ==
    ASSUME TypeInv, NEW c \in Calls, call[c].request \in Requests, NEW cost \in Nat,
           NEW outcome \in {"uncertain", "received"}, Charge(c, cost, outcome)
    PROVE  MoneyInv' /\ DialogueInv'
<1> USE DEF TypeInv, MoneyInv, DialogueInv, Charge
<1>1. request[call[c].request].cost + cost \in Nat
  BY DEF RequestRow
<1>2. [request[call[c].request] EXCEPT
          !.cost = request[call[c].request].cost + cost, !.outcome = outcome] \in RequestRow
  BY <1>1, RequestUpdate
<1>3. request' \in [Requests -> RequestRow]
  BY <1>2
<1> QED BY <1>3

LEMMA AccountTypes ==
    ASSUME TypeInv, NEW c \in Calls, AccountStep(c)
    PROVE  TypeInv'
<1> USE DEF TypeInv
<1>1. ASSUME NEW r \in Requests, Recover(c, r) PROVE TypeInv'
  <2>1. MoneyInv' /\ DialogueInv'
    BY <1>1, SettledTypes DEF Recover, MoneyInv, RequestRow
  <2>2. ControlInv' /\ CallsInv'
    BY <1>1 DEF Recover, ControlInv, CallsInv
  <2> QED BY <2>1, <2>2
<1>2. ASSUME View(c) \/ RefuseCredit(c) PROVE TypeInv'
  BY <1>2, ReturnFits DEF View, RefuseCredit, db, MoneyInv, DialogueInv
<1>3. CASE AdminAccount(c)
  <2>1. call[c].op \in Running /\ Fits(call[c].op, call[c])
    BY <1>3 DEF AdminAccount, CallsInv, Fits, Sending, Turn, Awaiting, Running
  <2> QED BY <1>3, <2>1, StayFits, ControlTypes
          DEF AdminAccount, Goto, db, MoneyInv, DialogueInv
<1>4. CASE SaveAccess(c)
  <2>1. Fits("view", call[c])
    BY DEF CallsInv, Fits, Sending, Turn, Awaiting
  <2>2. account' \in AccountRow
    BY <1>4 DEF SaveAccess, MoneyInv, CallsInv, CallRow, AccountRow
  <2> QED BY <1>4, <2>1, <2>2, StayFits, ControlTypes
          DEF SaveAccess, Goto, MoneyInv, DialogueInv, Running
<1>5. CASE SaveCredit(c)
  <2>1. Fits("view", call[c])
    BY DEF CallsInv, Fits, Sending, Turn, Awaiting
  <2>2. call[c].amount \in Nat /\ account.balance + call[c].amount \in Int
    BY DEF MoneyInv, CallsInv, CallRow, AccountRow
  <2>3. account' \in AccountRow /\ credited' \in [CreditIds -> Nat]
    BY <1>5, <2>2, AccountUpdate DEF SaveCredit, MoneyInv
  <2> QED BY <1>5, <2>1, <2>3, StayFits, ControlTypes
          DEF SaveCredit, Goto, MoneyInv, DialogueInv, Running
<1> QED BY <1>1, <1>2, <1>3, <1>4, <1>5 DEF AccountStep

LEMMA NewSession ==
    ASSUME NEW mode \in {"help", "defend"}, NEW b \in Submissions \cup {None},
           mode = "defend" => b \in Submissions
    PROVE  RowOK([NoSession EXCEPT !.status = "active", !.mode = mode, !.submission = b])
<1>1. NoSession \in SessionRow /\ NoSession.stage = 0
  BY RowTypes DEF NoSession
<1> DEFINE new == [NoSession EXCEPT !.status = "active", !.mode = mode, !.submission = b]
<1>2. new \in SessionRow
  BY <1>1 DEF SessionRow, Verdicts
<1>3. new.stage <= 2
  BY <1>1 DEF SessionRow
<1>4. new.mode = "defend" => new.submission \in Submissions
  BY <1>1 DEF SessionRow
<1> HIDE DEF new
<1>5. RowOK(new)
  BY <1>2, <1>3, <1>4 DEF RowOK
<1> QED BY <1>5 DEF new

LEMMA CreateTypes ==
    ASSUME TypeInv, NEW c \in Calls, CreateStep(c)
    PROVE  TypeInv'
<1> USE DEF TypeInv
<1>1. ASSUME RefuseAccess(c) \/ RefuseDefense(c) \/ RefuseContext(c) PROVE TypeInv'
  BY <1>1, ReturnFits
     DEF RefuseAccess, RefuseDefense, RefuseContext, db, MoneyInv, DialogueInv
<1>2. ASSUME CreateAllowed(c) \/ AcceptDefense(c) \/ FindExisting(c) \/ InsertConflict(c)
      PROVE  TypeInv'
  <2>1. PICK here \in {"submission", "existing", "insert", "view"} :
             Goto(c, here) /\ UNCHANGED <<db, call>>
    BY <1>2 DEF CreateAllowed, AcceptDefense, FindExisting, InsertConflict
  <2>2. Fits(here, call[c])
    BY DEF CallsInv, Fits, Sending, Turn, Awaiting
  <2> QED BY <2>1, <2>2, StayFits, ControlTypes
          DEF Goto, db, MoneyInv, DialogueInv, Running
<1>3. ASSUME NEW s \in Sessions, InsertSession(c, s) PROVE TypeInv'
  <2>1. Fits("view", call[c])
    BY DEF CallsInv, Fits, Sending, Turn, Awaiting
  <2>2. ControlInv' /\ CallsInv' /\ MoneyInv'
    BY <1>3, <2>1, StayFits, ControlTypes DEF InsertSession, Goto, MoneyInv, Running
  <2>3. RowOK([NoSession EXCEPT !.status = "active", !.mode = call[c].mode,
                                !.submission = call[c].submission])
    <3>1. /\ call[c].mode \in {"help", "defend"}
          /\ call[c].submission \in Submissions \cup {None}
          /\ call[c].mode = "defend" => call[c].submission \in Submissions
      BY DEF CallsInv, Fits, CallRow
    <3> QED BY <3>1, NewSession
  <2>4. session' \in [Sessions -> SessionRow] /\ \A t \in Sessions : RowOK(session'[t])
    BY <1>3, <2>3 DEF InsertSession, DialogueInv, RowOK
  <2>5. submission' \in [Submissions -> SubmissionRow]
    <3>1. Restarted(call[c].submission) \in SubmissionRow
      <4> <<>> \in Seq({"mechanism", "trace", "transfer"})
        OBVIOUS
      <4> QED BY DEF Restarted, SubmissionRow
    <3> QED BY <1>3, <3>1 DEF InsertSession, DialogueInv
  <2> QED BY <1>3, <2>2, <2>4, <2>5 DEF InsertSession, DialogueInv
<1> QED BY <1>1, <1>2, <1>3 DEF CreateStep

\* Where the handler of a message is, its call has a session and a request.
LEMMA SendRow ==
    ASSUME CallsInv, NEW c \in Calls, pc[c] \in Sending
    PROVE  /\ call[c].op = "send" /\ call[c] \in CallRow /\ RowOK(call[c].seen)
           /\ call[c].session \in Sessions /\ call[c].request \in Requests
BY DEF CallsInv, Fits

\* The handler goes on to another place and nothing else changes.
LEMMA GotoTypes ==
    ASSUME TypeInv, NEW c \in Calls, NEW here \in Running, Fits(here, call[c]),
           Goto(c, here), UNCHANGED <<db, call>>
    PROVE  TypeInv'
<1> USE DEF TypeInv
<1>1. ControlInv' /\ CallsInv'
  BY StayFits, ControlTypes DEF Goto
<1>2. MoneyInv' /\ DialogueInv'
  BY DEF db, MoneyInv, DialogueInv
<1> QED BY <1>1, <1>2

LEMMA EarlyTypes ==
    ASSUME TypeInv, NEW c \in Calls,
           \/ FirstUse(c) \/ Replay(c) \/ RefuseReplay(c) \/ SendAllowed(c) \/ Prepare(c)
           \/ RefuseTurn(c) \/ RefuseBusy(c) \/ ReserveFails(c)
    PROVE  TypeInv'
<1>1. CASE RefuseReplay(c) \/ RefuseTurn(c) \/ RefuseBusy(c)
  BY <1>1, ReturnFits DEF RefuseReplay, RefuseTurn, RefuseBusy, db, TypeInv, MoneyInv, DialogueInv
<1>2. CASE FirstUse(c) \/ Replay(c) \/ SendAllowed(c) \/ ReserveFails(c)
  <2>1. PICK here \in {"account", "view", "prepare", "unlock"} :
             Goto(c, here) /\ UNCHANGED <<db, call>> /\ Fits(here, call[c])
    BY <1>2 DEF FirstUse, Replay, SendAllowed, ReserveFails, Read,
                TypeInv, CallsInv, Fits, Sending, Turn, Awaiting
  <2> QED BY <2>1, GotoTypes DEF Running
<1>3. CASE Prepare(c)
  <2> USE <1>3 DEF TypeInv
  <2>1. call[c].session \in Sessions /\ ~call[c].passed /\ Fits("prepare", call[c])
    BY DEF Prepare, CallsInv, Fits, Sending, Turn, Awaiting
  <2>2. session[call[c].session].messages \in Nat
    BY <2>1 DEF DialogueInv, SessionRow
  <2> DEFINE row == [call[c] EXCEPT !.count = session[call[c].session].messages]
  <2>3. row \in CallRow
    BY <2>1, <2>2 DEF Fits, CallRow
  <2>4. Fits("reserve", row)
    BY <2>1, <2>3 DEF Prepare, Fits, CallRow, Sending, Turn, Awaiting
  <2>5. CallsInv'
    BY <2>4, MoveFits DEF Prepare, Goto
  <2>6. ControlInv'
    BY ControlTypes DEF Prepare, Running
  <2> QED BY <2>5, <2>6 DEF Prepare, db, MoneyInv, DialogueInv
<1> QED BY <1>1, <1>2, <1>3

\* A lock or an unlock of a dialogue leaves a row the code can have written.
LEMMA BusyRow ==
    ASSUME NEW row, RowOK(row), NEW busy \in BOOLEAN
    PROVE  RowOK([row EXCEPT !.busy = busy])
BY DEF RowOK, SessionRow

LEMMA NewRequest ==
    ASSUME NEW s \in Sessions, NEW amount \in Nat
    PROVE  [NoRequest EXCEPT !.status = "running", !.session = s, !.reserved = amount]
              \in RequestRow
<1>1. NoRequest \in RequestRow
  BY RowTypes
<1> QED BY <1>1 DEF RequestRow

LEMMA LockTypes ==
    ASSUME TypeInv, NEW c \in Calls, ReserveTurn(c) \/ Unlock(c)
    PROVE  TypeInv'
<1> USE DEF TypeInv
<1>1. call[c].session \in Sessions /\ call[c].request \in Requests
  BY SendRow DEF ReserveTurn, Unlock, Sending
<1>2. DialogueInv'
  <2>1. PICK busy \in BOOLEAN : session' = [session EXCEPT ![call[c].session].busy = busy]
    BY DEF ReserveTurn, Unlock, Unlocked
  <2>2. session' = [session EXCEPT ![call[c].session] = [@ EXCEPT !.busy = busy]]
    BY <2>1
  <2>3. RowOK([session[call[c].session] EXCEPT !.busy = busy])
    BY <1>1, BusyRow DEF DialogueInv
  <2>4. UNCHANGED <<submission, fails>>
    BY DEF ReserveTurn, Unlock
  <2> QED BY <1>1, <2>2, <2>3, <2>4 DEF DialogueInv, RowOK
<1>3. CASE ReserveTurn(c)
  <2> USE <1>3 DEF ReserveTurn
  <2>1. account.reserved + Reserve \in Int
    BY ConstantsAssumption DEF MoneyInv, AccountRow
  <2>2. account' \in AccountRow
    BY <2>1, AccountUpdate DEF MoneyInv
  <2>3. request' \in [Requests -> RequestRow]
    BY <1>1, ConstantsAssumption, NewRequest DEF MoneyInv
  <2>4. Fits("tutor", call[c])
    BY DEF CallsInv, Fits, Sending, Turn, Awaiting
  <2>5. ControlInv' /\ CallsInv'
    BY <2>4, StayFits, ControlTypes DEF Await, Running, Turn, Awaiting
  <2> QED BY <1>2, <2>2, <2>3, <2>5 DEF MoneyInv
<1>4. CASE Unlock(c)
  BY <1>2, <1>4, ReturnFits DEF Unlock, MoneyInv
<1> QED BY <1>3, <1>4

LEMMA DraftFits ==
    ASSUME NEW row, Fits("tutor", row), NEW passed \in BOOLEAN,
           passed => row.seen.mode = "defend" /\ row.text /\ row.count > 0
    PROVE  Fits("guard", [row EXCEPT !.passed = passed])
<1> DEFINE new == [row EXCEPT !.passed = passed]
<1>1. row \in CallRow
  BY DEF Fits
<1>2. new \in CallRow
  BY <1>1 DEF CallRow
<1>3. /\ new.op = row.op /\ new.session = row.session /\ new.request = row.request
      /\ new.seen = row.seen /\ new.mode = row.mode /\ new.submission = row.submission
      /\ new.count = row.count
  BY <1>1 DEF CallRow
<1>4. new.text <=> row.text
  BY <1>1 DEF CallRow
<1>5. new.passed <=> passed
  BY <1>1 DEF CallRow
<1> HIDE DEF new
<1>6. Fits("guard", new)
  BY <1>2, <1>3, <1>4, <1>5 DEF Fits, Sending, Turn, Awaiting
<1> QED BY <1>6 DEF new

\* The answers of the models, and the refusal of a draft.
LEMMA AnswerTypes ==
    ASSUME TypeInv, NEW c \in Calls,
           TutorDrafts(c) \/ ModelFails(c) \/ GuardAllows(c) \/ GuardRefuses(c) \/ Block(c)
    PROVE  TypeInv'
<1> USE DEF TypeInv
<1>1. pc[c] \in {"tutor", "guard", "blocked"}
  BY DEF TutorDrafts, ModelFails, GuardAllows, GuardRefuses, Block, Awaiting
<1>2. /\ call[c].request \in Requests /\ call[c] \in CallRow /\ Fits(pc[c], call[c])
      /\ call[c].seen.status = "active" /\ RowOK(call[c].seen)
  BY <1>1 DEF CallsInv, Fits, Sending, Turn, Awaiting
<1>3. ASSUME NEW cost \in Nat, NEW outcome \in {"uncertain", "received"},
             Charge(c, cost, outcome)
      PROVE  MoneyInv' /\ DialogueInv'
  BY <1>2, <1>3, ChargeTypes
<1>4. CASE TutorDrafts(c)
  <2>1. PICK cost \in TutorCosts, passed \in BOOLEAN :
           /\ passed => call[c].seen.mode = "defend" /\ call[c].text /\ call[c].count > 0
           /\ Charge(c, cost, "received")
           /\ pc' = [pc EXCEPT ![c] = "guard"]
           /\ call' = [call EXCEPT ![c].passed = passed]
           /\ UNCHANGED <<loop, crashes>>
    BY <1>4, Zenon DEF TutorDrafts, HasAnswer
  <2>2. MoneyInv' /\ DialogueInv'
    BY <1>3, <2>1, ConstantsAssumption
  <2>3. Fits("tutor", call[c])
    BY <1>4 DEF TutorDrafts, CallsInv
  <2>4. Fits("guard", [call[c] EXCEPT !.passed = passed])
    BY <2>1, <2>3, DraftFits
  <2>5. CallsInv'
    BY <2>1, <2>4, MoveFits
  <2>6. ControlInv'
    BY <2>1 DEF ControlInv, Running, Turn, Awaiting
  <2> QED BY <2>2, <2>5, <2>6
<1>5. CASE ModelFails(c) \/ GuardAllows(c) \/ GuardRefuses(c)
  <2>1. PICK cost \in Nat, outcome \in {"uncertain", "received"},
             here \in {"settle", "recheck", "blocked"} :
           Charge(c, cost, outcome) /\ Resume(c, here) /\ UNCHANGED call
    BY <1>5, ConstantsAssumption DEF ModelFails, GuardAllows, GuardRefuses
  <2>2. Fits(here, call[c])
    BY <1>1, <1>2 DEF Fits, Sending, Turn, Awaiting
  <2>3. ControlInv' /\ CallsInv'
    BY <2>1, <2>2, StayFits, ControlTypes DEF Resume, Running, Turn
  <2> QED BY <1>3, <2>1, <2>3
<1>6. CASE Block(c)
  <2>1. Fits("settle", call[c])
    BY <1>1, <1>2 DEF Fits, Sending, Turn, Awaiting
  <2>2. ControlInv' /\ CallsInv'
    BY <1>6, <2>1, StayFits, ControlTypes DEF Block, Goto, Running, Turn
  <2>3. request' \in [Requests -> RequestRow]
    BY <1>2, <1>6 DEF Block, MoneyInv, RequestRow
  <2> QED BY <1>6, <2>2, <2>3 DEF Block, MoneyInv, DialogueInv
<1> QED BY <1>4, <1>5, <1>6

\* The second look at the account, and the evidence read for a passed step.
LEMMA RecheckTypes ==
    ASSUME TypeInv, NEW c \in Calls, Revoked(c) \/ StillEnabled(c) \/ ReadEvidence(c)
    PROVE  TypeInv'
<1> USE DEF TypeInv
<1>1. CASE Revoked(c) \/ StillEnabled(c)
  <2>1. PICK here \in {"settle", "evidence", "deliver"} :
           /\ Goto(c, here) /\ UNCHANGED <<db, call>>
           /\ here = "evidence" => call[c].passed
    BY <1>1 DEF Revoked, StillEnabled
  <2>2. Fits("recheck", call[c])
    BY <1>1 DEF Revoked, StillEnabled, Read, CallsInv
  <2>3. Fits(here, call[c])
    BY <2>1, <2>2 DEF Fits, Sending, Turn, Awaiting
  <2> QED BY <2>1, <2>3, GotoTypes DEF Running, Turn
<1>2. CASE ReadEvidence(c)
  <2>1. Fits("evidence", call[c])
    BY <1>2 DEF ReadEvidence, CallsInv
  <2>2. call[c].seen.submission \in Submissions
    BY <2>1 DEF Fits, RowOK
  <2>3. submission[call[c].seen.submission].evidence \in Seq({"mechanism", "trace", "transfer"})
    BY <2>2 DEF DialogueInv, SubmissionRow
  <2>4. ASSUME NEW kept \in Seq({"mechanism", "trace", "transfer"})
        PROVE  Fits("deliver", [call[c] EXCEPT !.evidence = kept])
    BY <2>1 DEF Fits, CallRow, Sending, Turn, Awaiting
  <2>5. CallsInv' /\ ControlInv'
    BY <1>2, <2>3, <2>4, MoveFits, ControlTypes DEF ReadEvidence, Goto, Running, Turn
  <2> QED BY <1>2, <2>5 DEF ReadEvidence, db, MoneyInv, DialogueInv
<1> QED BY <1>1, <1>2

LEMMA SettleTypes ==
    ASSUME TypeInv, NEW c \in Calls, Settle(c)
    PROVE  TypeInv'
<1> USE DEF TypeInv
<1>1. Fits("settle", call[c]) /\ call[c].request \in Requests
  BY DEF Settle, CallsInv, Fits, Sending, Turn, Awaiting
<1>2. request[call[c].request].cost \in Nat /\ call[c].answer \in {"ok", "error"}
  BY <1>1 DEF MoneyInv, RequestRow, Fits, CallRow
<1>3. MoneyInv' /\ DialogueInv'
  <2>1. CASE request[call[c].request].status = "running"
    BY <1>1, <1>2, <2>1, SettledTypes DEF Settle
  <2>2. CASE request[call[c].request].status # "running"
    BY <2>2 DEF Settle, MoneyInv, DialogueInv
  <2> QED BY <2>1, <2>2
<1>4. Fits("view", call[c])
  BY <1>1 DEF Fits, Sending, Turn, Awaiting
<1>5. ControlInv' /\ CallsInv'
  <2>1. CASE Goto(c, "view") /\ UNCHANGED call
    BY <1>4, <2>1, StayFits, ControlTypes DEF Goto, Running
  <2>2. CASE Return(c)
    BY <2>2, ReturnFits
  <2> QED BY <2>1, <2>2 DEF Settle
<1> QED BY <1>3, <1>5

\* What a delivery writes into the session is a row again: a third passed
\* stage is only reached by a graded answer, which closes the defense.
LEMMA NextTypes ==
    ASSUME NEW c \in Calls, Fits("deliver", call[c])
    PROVE  /\ NextStage(c) \in 0..3 /\ NextRetries(c) \in Nat
           /\ NextStatus(c) \in Verdicts
           /\ NextStatus(c) = "active" => NextStage(c) <= 2
           /\ call[c].passed => NextStage(c) \in 1..3
           /\ Graded(c) => call[c].seen.submission \in Submissions
<1>1. /\ call[c].seen.stage \in 0..2 /\ call[c].seen.retries \in Nat
      /\ call[c].passed \in BOOLEAN
  BY DEF Fits, RowOK, SessionRow, CallRow, Turn, Awaiting
<1>2. call[c].passed => Graded(c)
  BY DEF Fits, Graded, HasAnswer
<1>3. Graded(c) => call[c].seen.submission \in Submissions
  BY DEF Fits, RowOK, Graded
<1>4. /\ NextStage(c) \in 0..3 /\ NextRetries(c) \in Nat
      /\ call[c].passed => NextStage(c) \in 1..3
      /\ ~call[c].passed => NextStage(c) <= 2
  BY <1>1 DEF NextStage, NextRetries
<1>5. NextStatus(c) \in Verdicts /\ (NextStatus(c) = "active" => NextStage(c) <= 2)
  BY <1>2, <1>4 DEF NextStatus, Verdicts
<1> QED BY <1>3, <1>4, <1>5

LEMMA DeliveredRow ==
    ASSUME NEW row, RowOK(row), NEW stage \in 0..3, NEW retries \in Nat,
           NEW status \in Verdicts, NEW count \in Nat, status = "active" => stage <= 2
    PROVE  /\ RowOK([row EXCEPT !.messages = count])
           /\ RowOK([row EXCEPT !.stage = stage, !.retries = retries,
                                !.status = status, !.messages = count])
<1>1. RowOK([row EXCEPT !.messages = count])
  BY DEF RowOK, SessionRow
<1> DEFINE new == [row EXCEPT !.stage = stage, !.retries = retries,
                              !.status = status, !.messages = count]
<1>2. row \in SessionRow
  BY DEF RowOK
<1>3. new \in SessionRow
  BY <1>2 DEF SessionRow
<1>4. /\ new.status = status /\ new.stage = stage
      /\ new.mode = row.mode /\ new.submission = row.submission
  BY <1>2 DEF SessionRow
<1> HIDE DEF new
<1>5. RowOK(new)
  BY <1>3, <1>4 DEF RowOK
<1> QED BY <1>1, <1>5 DEF new

LEMMA DeliverTypes ==
    ASSUME TypeInv, NEW c \in Calls, Deliver(c)
    PROVE  TypeInv'
<1> USE DEF TypeInv
<1>1. /\ Fits("deliver", call[c]) /\ call[c] \in CallRow
      /\ call[c].session \in Sessions /\ call[c].request \in Requests
  BY DEF Deliver, CallsInv, Fits, Sending, Turn, Awaiting
<1>2. submission' \in [Submissions -> SubmissionRow]
  <2> DEFINE b == call[c].seen.submission
             kept == submission[b].evidence
             new == [understanding |-> IF NextStatus(c) = "active" THEN "pending"
                                       ELSE NextStatus(c),
                     evidence |-> IF call[c].passed
                                  THEN Append(call[c].evidence, STAGES[NextStage(c)])
                                  ELSE kept]
  <2>1. CASE ~Graded(c)
    BY <2>1 DEF Deliver, DialogueInv
  <2>2. CASE Graded(c)
    <3>1. b \in Submissions /\ NextStatus(c) \in Verdicts
      BY <1>1, <2>2, NextTypes
    <3>2. kept \in Seq({"mechanism", "trace", "transfer"})
      BY <3>1 DEF DialogueInv, SubmissionRow
    <3>3. call[c].passed => Append(call[c].evidence, STAGES[NextStage(c)])
                               \in Seq({"mechanism", "trace", "transfer"})
      <4>1. call[c].passed => STAGES[NextStage(c)] \in {"mechanism", "trace", "transfer"}
        BY <1>1, NextTypes DEF STAGES
      <4> QED BY <1>1, <4>1 DEF CallRow
    <3>4. new \in SubmissionRow
      BY <3>1, <3>2, <3>3 DEF SubmissionRow, Verdicts
    <3>5. submission' = [submission EXCEPT ![b] = new]
      BY <2>2 DEF Deliver
    <3> QED BY <3>4, <3>5 DEF DialogueInv
  <2> QED BY <2>1, <2>2
<1>3. session' \in [Sessions -> SessionRow] /\ \A s \in Sessions : RowOK(session'[s])
  <2> DEFINE s == call[c].session
             row == session[s]
             count == row.messages + (IF call[c].text THEN 2 ELSE 1)
  <2>1. count \in Nat /\ RowOK(row)
    BY <1>1 DEF DialogueInv, SessionRow
  <2>2. PICK new : session' = [session EXCEPT ![s] = new] /\ RowOK(new)
    <3> HIDE DEF count
    <3>1. /\ RowOK([row EXCEPT !.messages = count])
          /\ RowOK([row EXCEPT !.stage = NextStage(c), !.retries = NextRetries(c),
                               !.status = NextStatus(c), !.messages = count])
      BY <1>1, <2>1, NextTypes, DeliveredRow
    <3> QED BY <3>1 DEF Deliver, count
  <2> QED BY <1>1, <2>2 DEF DialogueInv, RowOK
<1>4. request' \in [Requests -> RequestRow]
  <2>1. CASE Lands(c)
    <3>1. request' = [request EXCEPT ![call[c].request].outcome = "delivered"]
      BY <2>1 DEF Deliver
    <3> QED BY <1>1, <3>1 DEF MoneyInv, RequestRow
  <2>2. CASE ~Lands(c)
    <3>1. request' = [request EXCEPT ![call[c].request].outcome = @]
      BY <2>2 DEF Deliver
    <3> QED BY <1>1, <3>1 DEF MoneyInv, RequestRow
  <2> QED BY <2>1, <2>2
<1>5. fails' \in [Sessions -> Nat]
  BY <1>1 DEF Deliver, DialogueInv
<1>6. Fits("settle", [call[c] EXCEPT !.answer = IF Lands(c) THEN "ok" ELSE "error"])
  <2>1. ASSUME NEW answer \in {"ok", "error"}
        PROVE  Fits("settle", [call[c] EXCEPT !.answer = answer])
    BY <1>1 DEF Fits, CallRow, Sending, Turn, Awaiting
  <2> QED BY <2>1
<1>7. CallsInv' /\ ControlInv'
  BY <1>6, MoveFits, ControlTypes DEF Deliver, Goto, Running, Turn
<1> QED BY <1>2, <1>3, <1>4, <1>5, <1>7 DEF Deliver, MoneyInv, DialogueInv

-----------------------------------------------------------------------------
(* Requests that arrive, and the environment.                                *)

LEMMA StudentTypes ==
    ASSUME TypeInv, NEW c \in Calls, NEW w \in Workers, Student(c, w)
    PROVE  TypeInv'
<1> USE DEF TypeInv
<1>1. PICK here \in {"view", "account", "lookup"} : \E args :
         /\ Fits(here, [args EXCEPT !.worker = w])
         /\ Arrive(c, w, here, args) /\ UNCHANGED db
  <2>1. CASE Poll(c, w)
    <3>1. Fits("view", [[NoArgs EXCEPT !.op = "poll"] EXCEPT !.worker = w])
      BY RowTypes, ZenonT(30) DEF Fits, CallRow, Sending, Turn, Awaiting
    <3> QED BY <2>1, <3>1 DEF Poll
  <2>2. ASSUME NEW mode \in Modes, NEW b \in Submissions \cup {None},
               CreateSession(c, w, mode, b)
        PROVE  \E args : /\ Fits("account", [args EXCEPT !.worker = w])
                         /\ Arrive(c, w, "account", args) /\ UNCHANGED db
    <3> DEFINE args == [NoArgs EXCEPT !.op = "create", !.mode = mode, !.submission = b]
    <3>1. mode \in {"help", "defend"} /\ (mode = "defend" => b \in Submissions)
      BY <2>2, ConstantsAssumption DEF CreateSession
    <3>2. [args EXCEPT !.worker = w] \in CallRow
      BY <3>1, RowTypes DEF CallRow
    <3>3. /\ [args EXCEPT !.worker = w].op = "create"
          /\ [args EXCEPT !.worker = w].mode = mode
          /\ [args EXCEPT !.worker = w].submission = b
          /\ [args EXCEPT !.worker = w].seen = NoArgs.seen
      BY RowTypes DEF CallRow
    <3>4. ~[args EXCEPT !.worker = w].passed
      BY RowTypes DEF CallRow
    <3>5. Fits("account", [args EXCEPT !.worker = w])
      <4> HIDE DEF args
      <4> QED BY <3>1, <3>2, <3>3, <3>4, RowTypes DEF Fits, Sending, Turn, Awaiting
    <3> QED BY <2>2, <3>5 DEF CreateSession
  <2>3. ASSUME NEW s \in Sessions, NEW r \in Requests, NEW text \in BOOLEAN,
               SendMessage(c, w, s, r, text)
        PROVE  \E args : /\ Fits("lookup", [args EXCEPT !.worker = w])
                         /\ Arrive(c, w, "lookup", args) /\ UNCHANGED db
    <3> DEFINE args == [NoArgs EXCEPT !.op = "send", !.session = s, !.request = r,
                                      !.text = text, !.seen = session[s]]
    <3>1. RowOK(session[s])
      BY DEF DialogueInv
    <3>2. [args EXCEPT !.worker = w] \in CallRow
      BY <3>1, RowTypes DEF CallRow, RowOK
    <3>3. /\ [args EXCEPT !.worker = w].op = "send"
          /\ [args EXCEPT !.worker = w].mode = "help"
          /\ [args EXCEPT !.worker = w].session = s
          /\ [args EXCEPT !.worker = w].request = r
          /\ [args EXCEPT !.worker = w].seen = session[s]
      BY RowTypes DEF CallRow
    <3>4. ~[args EXCEPT !.worker = w].passed
      BY RowTypes DEF CallRow
    <3>5. Fits("lookup", [args EXCEPT !.worker = w])
      <4> HIDE DEF args
      <4> QED BY <3>1, <3>2, <3>3, <3>4 DEF Fits, Sending, Turn, Awaiting
    <3> QED BY <2>3, <3>5 DEF SendMessage
  <2> QED BY <2>1, <2>2, <2>3 DEF Student, Poll
<1>2. ControlInv' /\ CallsInv'
  BY <1>1, ArriveFits DEF Running
<1> QED BY <1>1, <1>2 DEF db, MoneyInv, DialogueInv

LEMMA AdminTypes ==
    ASSUME TypeInv, NEW c \in Calls, NEW w \in Workers, Admin(c, w)
    PROVE  TypeInv'
<1> USE DEF TypeInv
<1>1. PICK args : /\ Fits("account", [args EXCEPT !.worker = w])
                  /\ Arrive(c, w, "account", args) /\ UNCHANGED db
  <2>1. ASSUME NEW enabled \in BOOLEAN, NEW required \in BOOLEAN,
               UpdateAccess(c, w, enabled, required)
        PROVE  \E args : /\ Fits("account", [args EXCEPT !.worker = w])
                         /\ Arrive(c, w, "account", args) /\ UNCHANGED db
    <3> DEFINE args == [NoArgs EXCEPT !.op = "access", !.enabled = enabled,
                                      !.defense_required = required]
    <3>1. [args EXCEPT !.worker = w] \in CallRow
      BY RowTypes DEF CallRow
    <3>2. /\ [args EXCEPT !.worker = w].op = "access"
          /\ [args EXCEPT !.worker = w].mode = "help"
          /\ [args EXCEPT !.worker = w].seen = NoArgs.seen
      BY RowTypes DEF CallRow
    <3>3. ~[args EXCEPT !.worker = w].passed
      BY RowTypes DEF CallRow
    <3>4. Fits("account", [args EXCEPT !.worker = w])
      <4> HIDE DEF args
      <4> QED BY <3>1, <3>2, <3>3, RowTypes DEF Fits, Sending, Turn, Awaiting
    <3> QED BY <2>1, <3>4 DEF UpdateAccess
  <2>2. ASSUME NEW i \in CreditIds, NEW amount \in Amounts, AddCredit(c, w, i, amount)
        PROVE  \E args : /\ Fits("account", [args EXCEPT !.worker = w])
                         /\ Arrive(c, w, "account", args) /\ UNCHANGED db
    <3> DEFINE args == [NoArgs EXCEPT !.op = "credit", !.credit = i, !.amount = amount]
    <3>1. amount \in Nat
      BY ConstantsAssumption
    <3>2. [args EXCEPT !.worker = w] \in CallRow
      BY <3>1, RowTypes DEF CallRow
    <3>3. /\ [args EXCEPT !.worker = w].op = "credit"
          /\ [args EXCEPT !.worker = w].mode = "help"
          /\ [args EXCEPT !.worker = w].seen = NoArgs.seen
      BY RowTypes DEF CallRow
    <3>4. ~[args EXCEPT !.worker = w].passed
      BY RowTypes DEF CallRow
    <3>5. Fits("account", [args EXCEPT !.worker = w])
      <4> HIDE DEF args
      <4> QED BY <3>2, <3>3, <3>4, RowTypes DEF Fits, Sending, Turn, Awaiting
    <3> QED BY <2>2, <3>5 DEF AddCredit
  <2> QED BY <2>1, <2>2 DEF Admin
<1>2. ControlInv' /\ CallsInv'
  BY <1>1, ArriveFits DEF Running
<1> QED BY <1>1, <1>2 DEF db, MoneyInv, DialogueInv

LEMMA EnvironmentTypes ==
    ASSUME TypeInv,
           \/ \E w \in Workers, b \in Submissions : RecordSubmission(w, b)
           \/ \E w \in Workers : Crash(w)
           \/ \E r \in Requests : TenMinutes(r)
    PROVE  TypeInv'
<1> USE DEF TypeInv
<1>1. ASSUME NEW w \in Workers, NEW b \in Submissions, RecordSubmission(w, b)
      PROVE  TypeInv'
  <2>1. submission' \in [Submissions -> SubmissionRow]
    BY <1>1 DEF RecordSubmission, DialogueInv, SubmissionRow
  <2> QED BY <1>1, <2>1
          DEF RecordSubmission, MoneyInv, DialogueInv, ControlInv, CallsInv
<1>2. ASSUME NEW w \in Workers, Crash(w) PROVE TypeInv'
  <2>1. ControlInv'
    BY <1>2, ConstantsAssumption DEF Crash, ControlInv
  <2>2. CallsInv'
    <3>1. \A c \in Calls : \/ pc'[c] = "idle" /\ call'[c] = NoArgs
                           \/ pc'[c] = pc[c] /\ call'[c] = call[c]
      BY <1>2 DEF Crash
    <3>2. call' \in [Calls -> CallRow]
      BY <1>2, RowTypes DEF Crash, CallsInv
    <3>3. \A c \in Calls : Fits(pc'[c], call'[c])
      BY <3>1, RowTypes DEF CallsInv
    <3> QED BY <3>2, <3>3 DEF CallsInv, Fits
  <2> QED BY <1>2, <2>1, <2>2 DEF Crash, db, MoneyInv, DialogueInv
<1>3. ASSUME NEW r \in Requests, TenMinutes(r) PROVE TypeInv'
  <2>1. request' \in [Requests -> RequestRow]
    <3>1. [request[r] EXCEPT !.old = TRUE] \in RequestRow
      BY DEF MoneyInv, RequestRow
    <3>2. request' = [request EXCEPT ![r] = [request[r] EXCEPT !.old = TRUE]]
      BY <1>3, Zenon DEF TenMinutes
    <3> QED BY <3>1, <3>2 DEF MoneyInv
  <2> QED BY <1>3, <2>1 DEF TenMinutes, MoneyInv, DialogueInv, ControlInv, CallsInv
<1> QED BY <1>1, <1>2, <1>3

LEMMA TypeInvStep == TypeInv /\ [Next]_vars => TypeInv'
<1> SUFFICES ASSUME TypeInv, [Next]_vars PROVE TypeInv'
  OBVIOUS
<1>1. ASSUME NEW c \in Calls, NEW w \in Workers, Student(c, w) \/ Admin(c, w)
      PROVE  TypeInv'
  BY <1>1, StudentTypes, AdminTypes
<1>2. ASSUME NEW c \in Calls, Step(c) PROVE TypeInv'
  BY <1>2, AccountTypes, CreateTypes, EarlyTypes, LockTypes, AnswerTypes, RecheckTypes,
     DeliverTypes, SettleTypes DEF Step, SendStep
<1>3. CASE UNCHANGED vars
  BY <1>3 DEF vars, db, TypeInv, MoneyInv, DialogueInv, ControlInv, CallsInv
<1> QED BY <1>1, <1>2, <1>3, EnvironmentTypes DEF Next

\* Type correctness: however the workers interleave, crash and recover, every
\* row of ai_schema.sql keeps to its columns' domains; above all a session's
\* stage stays within 0..3 and no counter becomes negative.
THEOREM TypeCorrect == Spec => []TypeOK
<1>1. TypeInv => TypeOK
  BY DEF TypeInv, TypeOK, MoneyInv, DialogueInv, ControlInv, CallsInv
<1> QED BY <1>1, TypeInvInit, TypeInvStep, PTL DEF Spec

-----------------------------------------------------------------------------
(* One turn at a time: with one worker process, as src/ego_server is deployed *)
(* by default.                                                               *)

OneWorker == \A v, w \in Workers : v = w

-----------------------------------------------------------------------------
(* The event loop: a call that is not waiting for a model keeps its worker's *)
(* loop.                                                                     *)

LoopInv ==
    \A c \in Calls : pc[c] # "idle" =>
        /\ call[c].worker \in Workers
        /\ pc[c] \notin Awaiting => loop[call[c].worker] = c

\* How a step may move control: one call moves as Tutoring's control
\* operators say, or none does.
Moves(c) ==
    \/ UNCHANGED <<loop, pc, call>>
    \/ \E here \in Running, args \in CallRow, w \in Workers : Arrive(c, w, here, args)
    \/ pc[c] \in Awaiting /\ UNCHANGED call /\ \E here \in Running : Resume(c, here)
    \/ /\ pc[c] = "tutor" /\ pc' = [pc EXCEPT ![c] = "guard"] /\ UNCHANGED loop
       /\ \E passed \in BOOLEAN : call' = [call EXCEPT ![c].passed = passed]
    \/ /\ pc[c] \notin Awaiting \cup {"idle"}
       /\ \/ Return(c)
          \/ Await(c, "tutor") /\ UNCHANGED call
          \/ /\ \E here \in Running \ Awaiting : Goto(c, here)
             /\ \E row \in CallRow : /\ row.worker = call[c].worker
                                     /\ row.session = call[c].session
                                     /\ call' = [call EXCEPT ![c] = row]

LEMMA MovesLoop ==
    ASSUME TypeInv, LoopInv, NEW c \in Calls, Moves(c)
    PROVE  LoopInv'
<1> USE DEF TypeInv, ControlInv, CallsInv
<1>1. call[c] \in CallRow /\ None \notin Calls
  BY ConstantsAssumption
<1>2. CASE UNCHANGED <<loop, pc, call>>
  BY <1>2 DEF LoopInv
<1>3. ASSUME NEW here \in Running, NEW args \in CallRow, NEW w \in Workers,
             Arrive(c, w, here, args)
      PROVE  LoopInv'
  <2>1. [args EXCEPT !.worker = w].worker = w
    BY DEF CallRow
  <2> QED BY <1>1, <1>3, <2>1 DEF LoopInv, Arrive
<1>4. ASSUME NEW here \in Running, pc[c] \in Awaiting, UNCHANGED call, Resume(c, here)
      PROVE  LoopInv'
  BY <1>1, <1>4 DEF LoopInv, Resume, Awaiting
<1>5. ASSUME NEW passed \in BOOLEAN, pc[c] = "tutor", UNCHANGED loop,
             pc' = [pc EXCEPT ![c] = "guard"], call' = [call EXCEPT ![c].passed = passed]
      PROVE  LoopInv'
  <2>1. \A d \in Calls : call'[d].worker = call[d].worker
    BY <1>5 DEF CallRow
  <2> QED BY <1>5, <2>1 DEF LoopInv, Awaiting
<1>6. ASSUME pc[c] \notin Awaiting \cup {"idle"}, Return(c) PROVE LoopInv'
  BY <1>6 DEF LoopInv, Return
<1>7. ASSUME pc[c] \notin Awaiting \cup {"idle"}, Await(c, "tutor"), UNCHANGED call
      PROVE  LoopInv'
  BY <1>7 DEF LoopInv, Await, Awaiting
<1>8. ASSUME pc[c] \notin Awaiting \cup {"idle"}, NEW here \in Running \ Awaiting,
             NEW row, row.worker = call[c].worker, Goto(c, here),
             call' = [call EXCEPT ![c] = row]
      PROVE  LoopInv'
  BY <1>8 DEF LoopInv, Goto
<1> QED BY <1>2, <1>3, <1>4, <1>5, <1>6, <1>7, <1>8 DEF Moves

LEMMA SameCall ==
    ASSUME TypeInv, NEW c \in Calls, UNCHANGED call
    PROVE  \E row \in CallRow : /\ row.worker = call[c].worker
                                /\ row.session = call[c].session
                                /\ call' = [call EXCEPT ![c] = row]
BY DEF TypeInv, CallsInv

\* Every handler moves control so.
LEMMA StepMoves ==
    ASSUME TypeInv, NEW c \in Calls, Step(c)
    PROVE  Moves(c)
<1>1. CASE AccountStep(c)
  <2>1. CASE \E r \in Requests : Recover(c, r)
    BY <2>1 DEF Recover, Moves
  <2>2. CASE View(c) \/ RefuseCredit(c)
    BY <2>2 DEF View, RefuseCredit, Read, Moves, Awaiting
  <2>3. CASE AdminAccount(c) \/ SaveAccess(c) \/ SaveCredit(c)
    BY <2>3, SameCall
       DEF AdminAccount, SaveAccess, SaveCredit, Read, Moves, Awaiting, Running, Turn
  <2> QED BY <1>1, <2>1, <2>2, <2>3 DEF AccountStep
<1>2. CASE CreateStep(c)
  <2>1. CASE RefuseAccess(c) \/ RefuseDefense(c) \/ RefuseContext(c)
    BY <2>1 DEF RefuseAccess, RefuseDefense, RefuseContext, Read, Moves, Awaiting
  <2>2. CASE CreateAllowed(c) \/ AcceptDefense(c) \/ FindExisting(c) \/ InsertConflict(c)
    BY <2>2, SameCall DEF CreateAllowed, AcceptDefense, FindExisting, InsertConflict,
                          Read, Moves, Awaiting, Running, Turn
  <2>3. CASE \E s \in Sessions : InsertSession(c, s)
    BY <2>3, SameCall DEF InsertSession, Moves, Awaiting, Running, Turn
  <2> QED BY <1>2, <2>1, <2>2, <2>3 DEF CreateStep
<1>3. CASE SendStep(c)
  <2>1. CASE RefuseReplay(c) \/ RefuseTurn(c) \/ RefuseBusy(c) \/ Unlock(c)
    BY <2>1 DEF RefuseReplay, RefuseTurn, RefuseBusy, Unlock, Moves, Awaiting
  <2>2. CASE \/ FirstUse(c) \/ Replay(c) \/ SendAllowed(c) \/ ReserveFails(c)
             \/ Block(c) \/ Revoked(c) \/ StillEnabled(c)
    <3>1. PICK here \in Running \ Awaiting :
             Goto(c, here) /\ UNCHANGED call /\ pc[c] \notin Awaiting \cup {"idle"}
      BY <2>2 DEF FirstUse, Replay, SendAllowed, ReserveFails, Block, Revoked,
                  StillEnabled, Read, Awaiting, Running, Turn
    <3> QED BY <3>1, SameCall DEF Moves
  <2>3. CASE ReserveTurn(c)
    BY <2>3 DEF ReserveTurn, Moves, Awaiting
  <2>4. CASE TutorDrafts(c)
    BY <2>4, Zenon DEF TutorDrafts, Moves
  <2>5. CASE ModelFails(c) \/ GuardAllows(c) \/ GuardRefuses(c)
    BY <2>5 DEF ModelFails, GuardAllows, GuardRefuses, Moves, Awaiting, Running, Turn
  <2>6. CASE Prepare(c) \/ ReadEvidence(c) \/ Deliver(c)
    <3>1. PICK here \in Running \ Awaiting :
             Goto(c, here) /\ pc[c] \notin Awaiting \cup {"idle"}
      BY <2>6 DEF Prepare, ReadEvidence, Deliver, Awaiting, Running, Turn
    <3>2. PICK row : call' = [call EXCEPT ![c] = row] /\ row.worker = call[c].worker
                     /\ row.session = call[c].session
      <4>1. call \in [Calls -> CallRow]
        BY DEF TypeInv, CallsInv
      <4>2. PICK x : \/ call' = [call EXCEPT ![c].count = x]
                     \/ call' = [call EXCEPT ![c].evidence = x]
                     \/ call' = [call EXCEPT ![c].answer = x]
        BY <2>6, Zenon DEF Prepare, ReadEvidence, Deliver
      <4>3. call' = [call EXCEPT ![c] = call'[c]]
        BY <4>1, <4>2
      <4>4. call'[c].worker = call[c].worker /\ call'[c].session = call[c].session
        BY <4>1, <4>2 DEF CallRow
      <4> QED BY <4>3, <4>4
    <3>3. row \in CallRow
      <4>1. TypeInv'
        BY <2>6, EarlyTypes, RecheckTypes, DeliverTypes
      <4> QED BY <3>2, <4>1 DEF TypeInv, CallsInv
    <3> QED BY <3>1, <3>2, <3>3 DEF Moves
  <2>7. CASE Settle(c)
    BY <2>7, SameCall DEF Settle, Moves, Awaiting, Running, Turn
  <2> QED BY <1>3, <2>1, <2>2, <2>3, <2>4, <2>5, <2>6, <2>7 DEF SendStep
<1> QED BY <1>1, <1>2, <1>3 DEF Step

LEMMA ArrivalMoves ==
    ASSUME TypeInv, NEW c \in Calls, NEW w \in Workers, Student(c, w) \/ Admin(c, w)
    PROVE  Moves(c) /\ UNCHANGED db /\ pc'[c] # "unlock"
<1> USE DEF TypeInv
<1>1. PICK here \in {"view", "account", "lookup"}, args \in CallRow :
         Arrive(c, w, here, args) /\ UNCHANGED db
  <2>1. CASE Poll(c, w)
    BY <2>1, RowTypes DEF Poll, CallRow
  <2>2. ASSUME NEW mode \in Modes, NEW b \in Submissions \cup {None},
               CreateSession(c, w, mode, b)
        PROVE  \E args \in CallRow : Arrive(c, w, "account", args) /\ UNCHANGED db
    <3>1. mode \in {"help", "defend"}
      BY ConstantsAssumption
    <3>2. [NoArgs EXCEPT !.op = "create", !.mode = mode, !.submission = b] \in CallRow
      BY <3>1, RowTypes DEF CallRow
    <3> QED BY <2>2, <3>2 DEF CreateSession
  <2>3. ASSUME NEW s \in Sessions, NEW r \in Requests, NEW text \in BOOLEAN,
               SendMessage(c, w, s, r, text)
        PROVE  \E args \in CallRow : Arrive(c, w, "lookup", args) /\ UNCHANGED db
    <3>1. session[s] \in SessionRow
      BY DEF DialogueInv
    <3>2. [NoArgs EXCEPT !.op = "send", !.session = s, !.request = r, !.text = text,
                         !.seen = session[s]] \in CallRow
      BY <3>1, RowTypes DEF CallRow
    <3> QED BY <2>3, <3>2 DEF SendMessage
  <2>4. ASSUME NEW enabled \in BOOLEAN, NEW required \in BOOLEAN,
               UpdateAccess(c, w, enabled, required)
        PROVE  \E args \in CallRow : Arrive(c, w, "account", args) /\ UNCHANGED db
    <3>1. [NoArgs EXCEPT !.op = "access", !.enabled = enabled,
                         !.defense_required = required] \in CallRow
      BY RowTypes DEF CallRow
    <3> QED BY <2>4, <3>1 DEF UpdateAccess
  <2>5. ASSUME NEW i \in CreditIds, NEW amount \in Amounts, AddCredit(c, w, i, amount)
        PROVE  \E args \in CallRow : Arrive(c, w, "account", args) /\ UNCHANGED db
    <3>1. [NoArgs EXCEPT !.op = "credit", !.credit = i, !.amount = amount] \in CallRow
      BY ConstantsAssumption, RowTypes DEF CallRow
    <3> QED BY <2>5, <3>1 DEF AddCredit
  <2> QED BY <2>1, <2>2, <2>3, <2>4, <2>5 DEF Student, Admin
<1>2. Moves(c)
  BY <1>1 DEF Moves, Running
<1>3. pc'[c] # "unlock"
  BY <1>1 DEF Arrive, ControlInv
<1> QED BY <1>1, <1>2, <1>3

LEMMA LoopInvStep == TypeInv /\ LoopInv /\ [Next]_vars => LoopInv'
<1> SUFFICES ASSUME TypeInv, LoopInv, [Next]_vars PROVE LoopInv'
  OBVIOUS
<1>1. ASSUME NEW c \in Calls, NEW w \in Workers, Student(c, w) \/ Admin(c, w)
      PROVE  LoopInv'
  BY <1>1, ArrivalMoves, MovesLoop
<1>2. ASSUME NEW c \in Calls, Step(c) PROVE LoopInv'
  BY <1>2, StepMoves, MovesLoop
<1>3. ASSUME NEW w \in Workers, Crash(w) PROVE LoopInv'
  <2>1. \A c \in Calls : \/ pc'[c] = "idle"
                         \/ call[c].worker # w /\ pc'[c] = pc[c] /\ call'[c] = call[c]
    BY <1>3 DEF Crash
  <2>2. \A v \in Workers : v # w => loop'[v] = loop[v]
    BY <1>3 DEF Crash, TypeInv, ControlInv
  <2> QED BY <2>1, <2>2 DEF LoopInv
<1>4. CASE UNCHANGED <<loop, pc, call>>
  BY <1>4 DEF LoopInv
<1> QED BY <1>1, <1>2, <1>3, <1>4 DEF Next, RecordSubmission, TenMinutes, vars

-----------------------------------------------------------------------------
(* The busy column and the running requests.                                 *)

LocksInv ==
    /\ OneTurnAtATime
    /\ \A r \in Requests : Open(r) => request[r].session \in Sessions
    /\ \A s \in Sessions : session[s].status = "none" => ~session[s].busy

\* The handler of a failed reservation unlocks what no other turn has locked.
UnlockInv ==
    \A c \in Calls : pc[c] = "unlock" => ~session[call[c].session].busy

\* A step that opens or closes no turn.
Neutral ==
    /\ \A r \in Requests : /\ Open(r) <=> request'[r].status = "running"
                           /\ Open(r) => request'[r].session = request[r].session
    /\ \A s \in Sessions : /\ session[s].busy <=> session'[s].busy
                           /\ session'[s].status = "none" => session[s].status = "none"

LEMMA NeutralLocks == LocksInv /\ Neutral => LocksInv'
BY DEF LocksInv, OneTurnAtATime, Open, Neutral

LEMMA SettledLocks ==
    ASSUME TypeInv, LocksInv, NEW r \in Requests, Open(r), NEW charged, NEW answer,
           Settled(r, charged, answer)
    PROVE  LocksInv'
<1> USE DEF TypeInv, MoneyInv, DialogueInv
<1>1. request[r].session \in Sessions
  BY DEF LocksInv
<1>2. request'[r].status = "done" /\ \A q \in Requests \ {r} : request'[q] = request[q]
  BY DEF Settled, RequestRow
<1>3. /\ ~session'[request[r].session].busy
      /\ \A s \in Sessions \ {request[r].session} : session'[s] = session[s]
  BY <1>1 DEF Settled, Unlocked, SessionRow
<1>4. \A q \in Requests : Open(q)' => Open(q) /\ q # r
  BY <1>2 DEF Open
<1>5. OneTurnAtATime'
  BY <1>1, <1>2, <1>3, <1>4 DEF LocksInv, OneTurnAtATime, Open
<1>6. \A q \in Requests : Open(q)' => request'[q].session \in Sessions
  BY <1>2, <1>4 DEF LocksInv, Open
<1>7. \A s \in Sessions : session'[s].status = "none" => ~session'[s].busy
  BY <1>3 DEF LocksInv
<1> QED BY <1>5, <1>6, <1>7 DEF LocksInv

LEMMA ReserveLocks ==
    ASSUME TypeInv, LocksInv, NEW c \in Calls, ReserveTurn(c)
    PROVE  LocksInv'
<1> USE DEF TypeInv, MoneyInv, DialogueInv
<1> DEFINE s == call[c].session
           r == call[c].request
<1>1. s \in Sessions /\ r \in Requests
  BY SendRow DEF ReserveTurn, Sending
<1>2. ~session[s].busy /\ session[s].status = "active" /\ ~Open(r)
  BY DEF ReserveTurn, Fresh, CanReserve, Open
<1>3. /\ request'[r].status = "running" /\ request'[r].session = s
      /\ \A q \in Requests \ {r} : request'[q] = request[q]
  BY <1>1 DEF ReserveTurn, NoRequest
<1>4. /\ session'[s].busy /\ session'[s].status = session[s].status
      /\ \A t \in Sessions \ {s} : session'[t] = session[t]
  BY <1>1 DEF ReserveTurn, SessionRow
<1> HIDE DEF s, r
<1>5. OneTurnAtATime'
  BY <1>1, <1>2, <1>3, <1>4 DEF LocksInv, OneTurnAtATime, Open
<1> QED BY <1>1, <1>2, <1>3, <1>4, <1>5 DEF LocksInv, Open

\* A step after which no dialogue is busy that was not.
Quiet == \A s \in Sessions : session'[s].busy => session[s].busy

LEMMA ChargeNeutral ==
    ASSUME TypeInv, NEW c \in Calls, call[c].request \in Requests, NEW cost, NEW outcome,
           Charge(c, cost, outcome)
    PROVE  /\ request'[call[c].request].status = request[call[c].request].status
           /\ request'[call[c].request].session = request[call[c].request].session
           /\ \A q \in Requests \ {call[c].request} : request'[q] = request[q]
<1> DEFINE old == request[call[c].request]
<1>1. old \in RequestRow
  BY DEF TypeInv, MoneyInv
<1>2. \A x : /\ [old EXCEPT !.cost = x, !.outcome = outcome].status = old.status
             /\ [old EXCEPT !.cost = x, !.outcome = outcome].session = old.session
  BY <1>1 DEF RequestRow
<1>3. request'[call[c].request] = [old EXCEPT !.cost = old.cost + cost, !.outcome = outcome]
  BY DEF Charge, TypeInv, MoneyInv
<1>4. \A q \in Requests \ {call[c].request} : request'[q] = request[q]
  BY DEF Charge, TypeInv, MoneyInv
<1> HIDE DEF old
<1>5. /\ request'[call[c].request].status = old.status
      /\ request'[call[c].request].session = old.session
  BY <1>2, <1>3
<1> QED BY <1>4, <1>5 DEF old

LEMMA DeliverNeutral ==
    ASSUME TypeInv, NEW c \in Calls, Fits("deliver", call[c]), Deliver(c)
    PROVE  LET s == call[c].session
           IN  /\ session'[s].busy <=> session[s].busy
               /\ session'[s].status = "none" => session[s].status = "none"
               /\ \A t \in Sessions \ {s} : session'[t] = session[t]
<1> DEFINE s == call[c].session
           row == session[s]
           count == row.messages + (IF call[c].text THEN 2 ELSE 1)
<1>1. s \in Sessions /\ row \in SessionRow /\ NextStatus(c) # "none"
  BY NextTypes DEF Fits, Sending, Turn, Awaiting, TypeInv, DialogueInv, Verdicts
<1>2. \/ session' = [session EXCEPT ![s] = [row EXCEPT !.messages = count]]
      \/ session' = [session EXCEPT ![s] = [row EXCEPT !.stage = NextStage(c),
                         !.retries = NextRetries(c), !.status = NextStatus(c),
                         !.messages = count]]
  BY DEF Deliver
<1> HIDE DEF count
<1>3. CASE session' = [session EXCEPT ![s] = [row EXCEPT !.messages = count]]
  BY <1>1, <1>3 DEF SessionRow, TypeInv, DialogueInv
<1>4. CASE session' = [session EXCEPT ![s] = [row EXCEPT !.stage = NextStage(c),
                         !.retries = NextRetries(c), !.status = NextStatus(c),
                         !.messages = count]]
  <2>1. ASSUME NEW stage, NEW retries, NEW status
        PROVE  LET new == [row EXCEPT !.stage = stage, !.retries = retries,
                                      !.status = status, !.messages = count]
               IN  (new.busy <=> row.busy) /\ new.status = status
    BY <1>1 DEF SessionRow
  <2> QED BY <1>1, <1>4, <2>1 DEF TypeInv, DialogueInv
<1> QED BY <1>2, <1>3, <1>4

LEMMA StepLocks ==
    ASSUME TypeInv, LocksInv, UnlockInv, NEW c \in Calls, Step(c)
    PROVE  LocksInv' /\ (ReserveTurn(c) \/ Quiet)
<1> USE DEF TypeInv, MoneyInv, DialogueInv
<1>1. CASE UNCHANGED <<request, session>>
  BY <1>1, NeutralLocks DEF Neutral, Quiet, Open
<1>2. ASSUME NEW r \in Requests, Open(r), NEW charged, NEW answer, Settled(r, charged, answer)
      PROVE  LocksInv' /\ Quiet
  <2>1. request[r].session \in Sessions
    BY <1>2 DEF LocksInv
  <2>2. Quiet
    BY <1>2, <2>1 DEF Settled, Unlocked, SessionRow, Quiet
  <2> QED BY <1>2, <2>2, SettledLocks
<1>3. CASE AccountStep(c)
  <2>1. CASE \E r \in Requests : Recover(c, r)
    BY <2>1, <1>2 DEF Recover, Interrupted, Open
  <2> QED BY <1>1, <1>3, <2>1 DEF AccountStep, View, AdminAccount, SaveAccess, SaveCredit,
                                  RefuseCredit, db
<1>4. CASE CreateStep(c)
  <2>1. ASSUME NEW s \in Sessions, InsertSession(c, s) PROVE LocksInv' /\ Quiet
    <3>1. ~session[s].busy
      BY <2>1 DEF InsertSession, LocksInv
    <3>2. /\ ~session'[s].busy /\ session'[s].status = "active"
          /\ \A t \in Sessions \ {s} : session'[t] = session[t]
      BY <2>1 DEF InsertSession, NoSession
    <3>3. UNCHANGED request
      BY <2>1 DEF InsertSession
    <3>4. Neutral /\ Quiet
      BY <3>1, <3>2, <3>3 DEF Neutral, Quiet, Open
    <3> QED BY <3>4, NeutralLocks
  <2> QED BY <1>1, <1>4, <2>1 DEF CreateStep, RefuseAccess, CreateAllowed, RefuseDefense,
             AcceptDefense, FindExisting, RefuseContext, InsertConflict, db
<1>5. CASE SendStep(c)
  <2>1. CASE ReserveTurn(c)
    BY <2>1, ReserveLocks
  <2>2. CASE Unlock(c)
    <3>1. call[c].session \in Sessions /\ ~session[call[c].session].busy
      BY <2>2, SendRow DEF Unlock, UnlockInv, Sending
    <3>2. /\ ~session'[call[c].session].busy
          /\ session'[call[c].session].status = session[call[c].session].status
          /\ \A t \in Sessions \ {call[c].session} : session'[t] = session[t]
      BY <2>2, <3>1 DEF Unlock, Unlocked, SessionRow
    <3>3. UNCHANGED request
      BY <2>2 DEF Unlock
    <3>4. Neutral /\ Quiet
      BY <3>1, <3>2, <3>3 DEF Neutral, Quiet, Open
    <3> QED BY <3>4, NeutralLocks
  <2>3. CASE TutorDrafts(c) \/ ModelFails(c) \/ GuardAllows(c) \/ GuardRefuses(c)
             \/ Block(c)
    <3>1. call[c].request \in Requests
      BY <2>3, SendRow DEF TutorDrafts, ModelFails, GuardAllows, GuardRefuses, Block,
                           Sending, Turn, Awaiting
    <3>2. /\ request'[call[c].request].status = request[call[c].request].status
          /\ request'[call[c].request].session = request[call[c].request].session
          /\ \A q \in Requests \ {call[c].request} : request'[q] = request[q]
      <4>1. CASE Block(c)
        BY <3>1, <4>1 DEF Block, RequestRow
      <4> QED BY <2>3, <3>1, <4>1, ChargeNeutral
              DEF TutorDrafts, ModelFails, GuardAllows, GuardRefuses
    <3>3. UNCHANGED session
      BY <2>3 DEF TutorDrafts, ModelFails, GuardAllows, GuardRefuses, Block, Charge
    <3>4. Neutral /\ Quiet
      BY <3>1, <3>2, <3>3 DEF Neutral, Quiet, Open
    <3> QED BY <3>4, NeutralLocks
  <2>4. CASE Deliver(c)
    <3>1. Fits("deliver", call[c])
      BY <2>4 DEF Deliver, CallsInv
    <3>2. /\ call[c].request \in Requests /\ call[c].session \in Sessions
          /\ NextStatus(c) # "none"
      BY <3>1, NextTypes DEF Fits, Sending, Turn, Awaiting, Verdicts
    <3>3. /\ request'[call[c].request].status = request[call[c].request].status
          /\ request'[call[c].request].session = request[call[c].request].session
          /\ \A q \in Requests \ {call[c].request} : request'[q] = request[q]
      BY <2>4, <3>2 DEF Deliver, RequestRow
    <3>4. /\ session'[call[c].session].busy <=> session[call[c].session].busy
          /\ session'[call[c].session].status = "none" => session[call[c].session].status = "none"
          /\ \A t \in Sessions \ {call[c].session} : session'[t] = session[t]
      BY <2>4, <3>1, DeliverNeutral
    <3>5. Neutral /\ Quiet
      BY <3>2, <3>3, <3>4 DEF Neutral, Quiet, Open
    <3> QED BY <3>5, NeutralLocks
  <2>5. CASE Settle(c)
    <3>1. call[c].request \in Requests
      BY <2>5, SendRow DEF Settle, Sending, Turn
    <3> QED BY <1>1, <1>2, <2>5, <3>1 DEF Settle, Open
  <2> QED BY <1>1, <1>5, <2>1, <2>2, <2>3, <2>4, <2>5
          DEF SendStep, FirstUse, Replay, RefuseReplay, SendAllowed, Prepare, RefuseTurn,
              RefuseBusy, ReserveFails, Revoked, StillEnabled, ReadEvidence, db
<1> QED BY <1>3, <1>4, <1>5 DEF Step

\* Only a failed reservation leads to the handler that unlocks.
LEMMA ToUnlock ==
    ASSUME TypeInv, NEW c \in Calls, Step(c), pc'[c] = "unlock"
    PROVE  ReserveFails(c)
<1> USE DEF TypeInv, ControlInv
<1>1. CASE AccountStep(c)
  BY <1>1 DEF AccountStep, Recover, View, AdminAccount, SaveAccess, SaveCredit, RefuseCredit,
              Read, Goto, Return, AccountRead
<1>2. CASE CreateStep(c)
  BY <1>2 DEF CreateStep, RefuseAccess, CreateAllowed, RefuseDefense, AcceptDefense,
              FindExisting, RefuseContext, InsertConflict, InsertSession, Goto, Return
<1>3. CASE SendStep(c)
  BY <1>3 DEF SendStep, FirstUse, Replay, RefuseReplay, SendAllowed, Prepare, RefuseTurn,
              ReserveTurn, RefuseBusy, Unlock, TutorDrafts, ModelFails, GuardAllows,
              GuardRefuses, Block, Revoked, StillEnabled, ReadEvidence, Deliver, Settle,
              Goto, Return, Await, Resume
<1> QED BY <1>1, <1>2, <1>3 DEF Step

LEMMA UnlockStep ==
    ASSUME OneWorker, TypeInv, LoopInv, LocksInv, UnlockInv, NEW c \in Calls, Step(c)
    PROVE  UnlockInv'
<1> SUFFICES ASSUME NEW d \in Calls, pc'[d] = "unlock"
             PROVE  ~session'[call'[d].session].busy
  BY DEF UnlockInv
<1>1. CASE d = c
  <2>1. ReserveFails(c)
    BY <1>1, ToUnlock
  <2> QED BY <1>1, <2>1 DEF ReserveFails, Fresh, db
<1>2. CASE d # c
  <2>1. pc[d] = "unlock" /\ call'[d] = call[d]
    BY <1>2, StepMoves DEF Moves, Arrive, Resume, Return, Await, Goto,
                           TypeInv, ControlInv, CallsInv
  <2>2. call[d].session \in Sessions /\ ~session[call[d].session].busy
    BY <2>1, SendRow DEF UnlockInv, Sending, TypeInv
  <2>3. CASE ReserveTurn(c)
    <3>1. loop[call[c].worker] = c /\ loop[call[d].worker] = d
          /\ call[c].worker \in Workers /\ call[d].worker \in Workers
      BY <2>1, <2>3 DEF ReserveTurn, LoopInv, Awaiting
    <3> QED BY <1>2, <3>1 DEF OneWorker
  <2>4. CASE Quiet
    BY <2>1, <2>2, <2>4 DEF Quiet
  <2> QED BY <2>3, <2>4, StepLocks
<1> QED BY <1>1, <1>2

TurnsInv == TypeInv /\ LoopInv /\ LocksInv /\ UnlockInv

LEMMA TurnsInvInit == Init => TurnsInv
<1> SUFFICES ASSUME Init PROVE TurnsInv
  OBVIOUS
<1>1. LoopInv /\ UnlockInv
  BY DEF Init, LoopInv, UnlockInv
<1>2. LocksInv
  BY DEF Init, LocksInv, OneTurnAtATime, Open, NoSession, NoRequest
<1> QED BY <1>1, <1>2, TypeInvInit DEF TurnsInv

LEMMA TurnsInvStep ==
    ASSUME OneWorker
    PROVE  TurnsInv /\ [Next]_vars => TurnsInv'
<1> SUFFICES ASSUME TurnsInv, [Next]_vars PROVE TurnsInv'
  OBVIOUS
<1> USE DEF TurnsInv
<1>1. TypeInv' /\ LoopInv'
  BY TypeInvStep, LoopInvStep
<1>2. ASSUME NEW c \in Calls, NEW w \in Workers, Student(c, w) \/ Admin(c, w)
      PROVE  LocksInv' /\ UnlockInv'
  <2>1. Moves(c) /\ UNCHANGED db /\ pc'[c] # "unlock"
    BY <1>2, ArrivalMoves
  <2>2. LocksInv'
    BY <2>1, NeutralLocks DEF db, Neutral, Open
  <2>3. \A d \in Calls : pc'[d] = "unlock" => pc[d] = "unlock" /\ call'[d] = call[d]
    BY <2>1 DEF Moves, Arrive, Resume, Return, Await, Goto, TypeInv, ControlInv, CallsInv
  <2> QED BY <2>1, <2>2, <2>3 DEF UnlockInv, db
<1>3. ASSUME NEW c \in Calls, Step(c) PROVE LocksInv' /\ UnlockInv'
  BY <1>3, StepLocks, UnlockStep
<1>4. ASSUME NEW w \in Workers, NEW b \in Submissions, RecordSubmission(w, b)
      PROVE  LocksInv' /\ UnlockInv'
  BY <1>4, NeutralLocks DEF RecordSubmission, Neutral, Open, UnlockInv
<1>5. ASSUME NEW w \in Workers, Crash(w) PROVE LocksInv' /\ UnlockInv'
  <2>1. LocksInv'
    BY <1>5, NeutralLocks DEF Crash, db, Neutral, Open
  <2>2. \A d \in Calls : pc'[d] = "unlock" => pc[d] = "unlock" /\ call'[d] = call[d]
    BY <1>5 DEF Crash
  <2> QED BY <1>5, <2>1, <2>2 DEF Crash, UnlockInv, db
<1>6. ASSUME NEW r \in Requests, TenMinutes(r) PROVE LocksInv' /\ UnlockInv'
  <2>1. Neutral
    BY <1>6 DEF TenMinutes, Neutral, Open, TypeInv, MoneyInv, RequestRow
  <2> QED BY <1>6, <2>1, NeutralLocks DEF TenMinutes, UnlockInv
<1>7. CASE UNCHANGED vars
  <2>1. UNCHANGED <<request, session, pc, call>>
    BY <1>7 DEF vars, db
  <2>2. LocksInv'
    BY <2>1, NeutralLocks DEF Neutral, Open
  <2>3. UnlockInv'
    BY <2>1 DEF UnlockInv
  <2> QED BY <1>1, <2>2, <2>3
<1> QED BY <1>1, <1>2, <1>3, <1>4, <1>5, <1>6, <1>7 DEF Next

\* With one worker process a dialogue is busy exactly while one of its turns
\* is running, and never two of them run, through any number of concurrent
\* calls, failed reservations, crashes and recoveries.
THEOREM OneTurnWithOneWorker ==
    ASSUME OneWorker
    PROVE  Spec => []OneTurnAtATime
<1>1. TurnsInv => OneTurnAtATime
  BY DEF TurnsInv, LocksInv
<1>2. TurnsInv /\ [Next]_vars => TurnsInv'
  BY TurnsInvStep
<1> QED BY <1>1, <1>2, TurnsInvInit, PTL DEF Spec

-----------------------------------------------------------------------------
(* What a student pays and is told: theorems about Tutoring for any number of *)
(* worker processes, and every value of the other constants.                  *)
-----------------------------------------------------------------------------
(* What a handler keeps in its local variables from one step to the next.    *)

SameArgs(new, old) ==
    /\ new.worker = old.worker /\ new.op = old.op /\ new.session = old.session
    /\ new.request = old.request /\ new.text = old.text /\ new.seen = old.seen
    /\ new.mode = old.mode /\ new.submission = old.submission
    /\ new.credit = old.credit /\ new.amount = old.amount

LEMMA OthersStay ==
    ASSUME TypeInv, NEW c \in Calls, NEW d \in Calls, d # c,
           Step(c) \/ \E w \in Workers : Student(c, w) \/ Admin(c, w)
    PROVE  pc'[d] = pc[d] /\ call'[d] = call[d]
<1>1. Moves(c)
  BY StepMoves, ArrivalMoves
<1> QED BY <1>1 DEF Moves, Arrive, Resume, Return, Await, Goto, TypeInv, ControlInv, CallsInv

LEMMA ArgsKept ==
    ASSUME TypeInv, NEW c \in Calls, Step(c), pc'[c] # "idle"
    PROVE  SameArgs(call'[c], call[c])
<1>1. call[c] \in CallRow
  BY DEF TypeInv, CallsInv
<1>2. CASE UNCHANGED call
  BY <1>2 DEF SameArgs
<1>3. CASE Return(c)
  BY <1>3 DEF Return, TypeInv, ControlInv
<1>4. ASSUME NEW x, \/ call' = [call EXCEPT ![c].passed = x]
                    \/ call' = [call EXCEPT ![c].count = x]
                    \/ call' = [call EXCEPT ![c].evidence = x]
                    \/ call' = [call EXCEPT ![c].answer = x]
      PROVE  SameArgs(call'[c], call[c])
  BY <1>1, <1>4 DEF SameArgs, CallRow, TypeInv, CallsInv
<1>5. CASE AccountStep(c)
  BY <1>2, <1>3, <1>5 DEF AccountStep, Recover, View, AdminAccount, SaveAccess, SaveCredit,
                          RefuseCredit
<1>6. CASE CreateStep(c)
  BY <1>2, <1>3, <1>6 DEF CreateStep, RefuseAccess, CreateAllowed, RefuseDefense, AcceptDefense,
                          FindExisting, RefuseContext, InsertConflict, InsertSession
<1>7. CASE SendStep(c)
  BY <1>2, <1>3, <1>4, <1>7
     DEF SendStep, FirstUse, Replay, RefuseReplay, SendAllowed, Prepare, RefuseTurn,
         ReserveTurn, RefuseBusy, ReserveFails, Unlock, TutorDrafts, ModelFails, GuardAllows,
         GuardRefuses, Block, Revoked, StillEnabled, ReadEvidence, Deliver, Settle
<1> QED BY <1>5, <1>6, <1>7 DEF Step

-----------------------------------------------------------------------------
(* What each step does to the rows of ai_requests.                           *)

\* The columns a turn leaves alone while it runs.
SameHold(new, old) ==
    /\ new.status = old.status /\ new.session = old.session /\ new.old = old.old
    /\ new.reserved = old.reserved /\ new.answer = old.answer

OthersSame(r) == \A q \in Requests : q # r => request'[q] = request[q]

LEMMA ChargeEffect ==
    ASSUME TypeInv, NEW c \in Calls, NEW r \in Requests, call[c].request = r,
           NEW cost, NEW outcome, Charge(c, cost, outcome)
    PROVE  /\ SameHold(request'[r], request[r]) /\ OthersSame(r)
           /\ request'[r].cost = request[r].cost + cost /\ request'[r].outcome = outcome
<1> DEFINE old == request[r]
           new == [old EXCEPT !.cost = old.cost + cost, !.outcome = outcome]
<1>1. old \in RequestRow
  BY DEF TypeInv, MoneyInv
<1>2. /\ new.status = old.status /\ new.session = old.session /\ new.old = old.old
      /\ new.reserved = old.reserved /\ new.answer = old.answer
      /\ new.cost = old.cost + cost /\ new.outcome = outcome
  BY <1>1 DEF RequestRow
<1>3. request'[r] = new /\ OthersSame(r)
  BY DEF Charge, OthersSame, TypeInv, MoneyInv
<1> HIDE DEF new
<1> QED BY <1>2, <1>3 DEF SameHold

\* Only the outcome noted for a request changes.
Notes(r, outcome) == request' = [request EXCEPT ![r].outcome = outcome]

LEMMA OutcomeEffect ==
    ASSUME TypeInv, NEW r \in Requests, NEW outcome, Notes(r, outcome)
    PROVE  /\ SameHold(request'[r], request[r]) /\ OthersSame(r)
           /\ request'[r].cost = request[r].cost /\ request'[r].outcome = outcome
BY DEF Notes, SameHold, OthersSame, RequestRow, TypeInv, MoneyInv

LEMMA NotesOutcome ==
    ASSUME NEW c \in Calls, NEW r, call[c].request = r
    PROVE  /\ Block(c) => Notes(r, "blocked")
           /\ Deliver(c) /\ Lands(c) => Notes(r, "delivered")
           /\ Deliver(c) /\ ~Lands(c) => Notes(r, request[r].outcome)
<1>1. Block(c) => Notes(r, "blocked")
  BY Zenon DEF Block, Notes
<1>2. PICK x : x = IF Lands(c) THEN "delivered" ELSE request[r].outcome
  OBVIOUS
<1>3. ASSUME Deliver(c) PROVE Notes(r, x)
  <2>1. request' = [request EXCEPT ![r].outcome = IF Lands(c) THEN "delivered"
                                                  ELSE request[r].outcome]
    BY <1>3, Zenon DEF Deliver
  <2> QED BY <1>2, <2>1, Zenon DEF Notes
<1> QED BY <1>1, <1>2, <1>3

LEMMA SettledEffect ==
    ASSUME TypeInv, NEW r \in Requests, NEW charged \in Nat, NEW answer,
           Settled(r, charged, answer)
    PROVE  /\ request'[r].status = "done" /\ request'[r].answer = answer
           /\ request'[r].outcome = request[r].outcome /\ OthersSame(r)
           /\ account'.balance = account.balance - charged
           /\ account'.spent = account.spent + charged
           /\ account'.reserved = account.reserved - request[r].reserved
           /\ account'.enabled = account.enabled
<1>1. /\ request'[r].status = "done" /\ request'[r].answer = answer
      /\ request'[r].outcome = request[r].outcome /\ OthersSame(r)
  <2>1. request[r] \in RequestRow
    BY DEF TypeInv, MoneyInv
  <2> DEFINE new == [request[r] EXCEPT !.status = "done", !.old = FALSE, !.cost = charged,
                                       !.answer = answer]
  <2>2. new.status = "done" /\ new.answer = answer /\ new.outcome = request[r].outcome
    BY <2>1 DEF RequestRow
  <2>3. request'[r] = new /\ OthersSame(r)
    BY DEF Settled, OthersSame, TypeInv, MoneyInv
  <2> HIDE DEF new
  <2> QED BY <2>2, <2>3
<1>2. /\ account'.balance = account.balance - charged
      /\ account'.spent = account.spent + charged
      /\ account'.reserved = account.reserved - request[r].reserved
      /\ account'.enabled = account.enabled
  <2> DEFINE x == account.balance - charged
             y == account.spent + charged
             z == account.reserved - request[r].reserved
  <2>1. account' = [account EXCEPT !.balance = x, !.spent = y, !.reserved = z]
    BY DEF Settled
  <2> HIDE DEF x, y, z
  <2>2. account'.balance = x /\ account'.spent = y /\ account'.reserved = z
        /\ account'.enabled = account.enabled
    BY <2>1 DEF TypeInv, MoneyInv, AccountRow
  <2> QED BY <2>2 DEF x, y, z
<1> QED BY <1>1, <1>2

LEMMA ReserveEffect ==
    ASSUME TypeInv, NEW c \in Calls, NEW r \in Requests, call[c].request = r, ReserveTurn(c)
    PROVE  /\ request[r].status = "none" /\ OthersSame(r)
           /\ request'[r].status = "running" /\ ~request'[r].old
           /\ request'[r].session = call[c].session /\ request'[r].reserved = Reserve
           /\ request'[r].cost = 0 /\ request'[r].outcome = "none"
           /\ account'.reserved = account.reserved + Reserve
           /\ account'.balance = account.balance /\ account'.enabled = account.enabled
           /\ account'.spent = account.spent
           /\ account.enabled /\ account.balance - account.reserved >= Reserve
<1>1. request[r].status = "none"
      /\ account.enabled /\ account.balance - account.reserved >= Reserve
  BY DEF ReserveTurn, CanReserve
<1>2. request' = [request EXCEPT ![r] = [NoRequest EXCEPT !.status = "running",
                                         !.session = call[c].session, !.reserved = Reserve]]
  BY DEF ReserveTurn
<1>3. /\ OthersSame(r) /\ request'[r].status = "running" /\ ~request'[r].old
      /\ request'[r].session = call[c].session /\ request'[r].reserved = Reserve
      /\ request'[r].cost = 0 /\ request'[r].outcome = "none"
  BY <1>2 DEF NoRequest, OthersSame, TypeInv, MoneyInv
<1>4. account' = [account EXCEPT !.reserved = account.reserved + Reserve]
  BY DEF ReserveTurn
<1>5. /\ account'.reserved = account.reserved + Reserve
      /\ account'.balance = account.balance /\ account'.enabled = account.enabled
      /\ account'.spent = account.spent
  BY <1>4 DEF TypeInv, MoneyInv, AccountRow
<1> QED BY <1>1, <1>3, <1>5

-----------------------------------------------------------------------------
(* What a request brings with it.                                            *)

\* The local variables of a call whose request has just arrived here.
Brought(here, row) ==
    /\ row.answer = "error" /\ ~row.passed /\ row.count = 0
    /\ row.mode = "help" <=> row.submission = None
    /\ row.op = "credit" => row.credit \in CreditIds /\ row.amount \in Amounts
    /\ row.op = "send" <=> here = "lookup"
    /\ row.op = "send" => /\ row.session \in Sessions /\ row.seen = session[row.session]
                          /\ row.seen.status # "none"

LEMMA Arrivals ==
    ASSUME TypeInv, NEW c \in Calls, NEW w \in Workers, Student(c, w) \/ Admin(c, w)
    PROVE  /\ pc[c] = "idle" /\ pc'[c] \in {"view", "account", "lookup"}
           /\ loop[w] = None /\ call'[c].worker = w
           /\ Brought(pc'[c], call'[c]) /\ UNCHANGED <<db, crashes>>
<1> USE DEF TypeInv, ControlInv
<1>1. /\ NoArgs \in CallRow /\ ~NoArgs.passed /\ NoArgs.answer = "error" /\ NoArgs.count = 0
      /\ NoArgs.mode = "help" /\ NoArgs.submission = None
  BY RowTypes DEF NoArgs
<1>2. ASSUME NEW here \in {"view", "account", "lookup"}, NEW args \in CallRow,
             Arrive(c, w, here, args), UNCHANGED db,
             args.answer = "error", ~args.passed, args.count = 0,
             args.mode = "help" <=> args.submission = None,
             args.op = "credit" => args.credit \in CreditIds /\ args.amount \in Amounts,
             args.op = "send" <=> here = "lookup",
             args.op = "send" => /\ args.session \in Sessions
                                 /\ args.seen = session[args.session]
                                 /\ args.seen.status # "none"
      PROVE  /\ pc[c] = "idle" /\ pc'[c] \in {"view", "account", "lookup"}
             /\ loop[w] = None /\ call'[c].worker = w
             /\ Brought(pc'[c], call'[c]) /\ UNCHANGED <<db, crashes>>
  <2> DEFINE row == [args EXCEPT !.worker = w]
  <2>1. /\ row.worker = w /\ row.answer = args.answer /\ row.count = args.count
        /\ row.op = args.op /\ row.credit = args.credit /\ row.amount = args.amount
        /\ row.session = args.session /\ row.seen = args.seen
        /\ row.mode = args.mode /\ row.submission = args.submission
    BY DEF CallRow
  <2>2. row.passed = args.passed
    BY DEF CallRow
  <2>3. /\ pc[c] = "idle" /\ loop[w] = None /\ pc'[c] = here /\ call'[c] = row
        /\ UNCHANGED crashes
    BY <1>2 DEF Arrive, CallsInv
  <2> HIDE DEF row
  <2> QED BY <1>2, <2>1, <2>2, <2>3 DEF Brought
<1> DEFINE Goal == /\ pc[c] = "idle" /\ pc'[c] \in {"view", "account", "lookup"}
                   /\ loop[w] = None /\ call'[c].worker = w
                   /\ Brought(pc'[c], call'[c]) /\ UNCHANGED <<db, crashes>>
<1>3. CASE Poll(c, w)
  <2> DEFINE args == [NoArgs EXCEPT !.op = "poll"]
  <2>1. args \in CallRow
    BY RowTypes DEF CallRow
  <2>5. /\ args.answer = "error" /\ args.count = 0 /\ args.op = "poll"
        /\ args.mode = "help" /\ args.submission = None
    BY <1>1 DEF CallRow
  <2>2. ~args.passed
    BY <1>1 DEF CallRow
  <2>3. Arrive(c, w, "view", args) /\ UNCHANGED db
    BY <1>3 DEF Poll
  <2> HIDE DEF args
  <2> QED BY <1>2, <2>1, <2>2, <2>3, <2>5
<1>4. ASSUME NEW mode \in Modes, NEW b \in Submissions \cup {None},
             CreateSession(c, w, mode, b)
      PROVE  Goal
  <2> DEFINE args == [NoArgs EXCEPT !.op = "create", !.mode = mode, !.submission = b]
  <2>1. mode \in {"help", "defend"}
    BY ConstantsAssumption
  <2>2. args \in CallRow
    BY RowTypes, <2>1 DEF CallRow
  <2>5. /\ args.answer = "error" /\ args.count = 0 /\ args.op = "create"
        /\ args.mode = mode /\ args.submission = b
    BY <1>1, <2>1 DEF CallRow
  <2>3. ~args.passed
    BY <1>1 DEF CallRow
  <2>4. Arrive(c, w, "account", args) /\ UNCHANGED db /\ (mode = "help" <=> b = None)
    BY <1>4 DEF CreateSession
  <2> HIDE DEF args
  <2> QED BY <1>2, <2>2, <2>3, <2>4, <2>5
<1>5. ASSUME NEW s \in Sessions, NEW r \in Requests, NEW text \in BOOLEAN,
             SendMessage(c, w, s, r, text)
      PROVE  Goal
  <2> DEFINE args == [NoArgs EXCEPT !.op = "send", !.session = s, !.request = r,
                                    !.text = text, !.seen = session[s]]
  <2>1. session[s] \in SessionRow
    BY DEF DialogueInv
  <2>2. args \in CallRow
    BY RowTypes, <2>1 DEF CallRow
  <2>5. /\ args.answer = "error" /\ args.count = 0 /\ args.op = "send"
        /\ args.mode = "help" /\ args.submission = None
        /\ args.session = s /\ args.seen = session[s]
    BY <1>1, <2>1 DEF CallRow
  <2>3. ~args.passed
    BY <1>1 DEF CallRow
  <2>4. Arrive(c, w, "lookup", args) /\ UNCHANGED db /\ session[s].status # "none"
    BY <1>5 DEF SendMessage
  <2> HIDE DEF args
  <2> QED BY <1>2, <2>2, <2>3, <2>4, <2>5
<1>6. ASSUME NEW enabled \in BOOLEAN, NEW required \in BOOLEAN,
             UpdateAccess(c, w, enabled, required)
      PROVE  Goal
  <2> DEFINE args == [NoArgs EXCEPT !.op = "access", !.enabled = enabled,
                                    !.defense_required = required]
  <2>1. args \in CallRow
    BY RowTypes DEF CallRow
  <2>5. /\ args.answer = "error" /\ args.count = 0 /\ args.op = "access"
        /\ args.mode = "help" /\ args.submission = None
    BY <1>1 DEF CallRow
  <2>2. ~args.passed
    BY <1>1 DEF CallRow
  <2>3. Arrive(c, w, "account", args) /\ UNCHANGED db
    BY <1>6 DEF UpdateAccess
  <2> HIDE DEF args
  <2> QED BY <1>2, <2>1, <2>2, <2>3, <2>5
<1>7. ASSUME NEW i \in CreditIds, NEW amount \in Amounts, AddCredit(c, w, i, amount)
      PROVE  Goal
  <2> DEFINE args == [NoArgs EXCEPT !.op = "credit", !.credit = i, !.amount = amount]
  <2>1. amount \in Nat
    BY ConstantsAssumption
  <2>2. args \in CallRow
    BY RowTypes, <2>1 DEF CallRow
  <2>5. /\ args.answer = "error" /\ args.count = 0 /\ args.op = "credit"
        /\ args.mode = "help" /\ args.submission = None
        /\ args.credit = i /\ args.amount = amount
    BY <1>1, <2>1 DEF CallRow
  <2>3. ~args.passed
    BY <1>1 DEF CallRow
  <2>4. Arrive(c, w, "account", args) /\ UNCHANGED db
    BY <1>7 DEF AddCredit
  <2> HIDE DEF args
  <2> QED BY <1>2, <2>2, <2>3, <2>4, <2>5
<1> QED BY <1>3, <1>4, <1>5, <1>6, <1>7 DEF Student, Admin

-----------------------------------------------------------------------------
(* One call pays for a request, and says what became of it.                  *)

Owns(c, r) == pc[c] \in Turn /\ call[c].request = r

\* Where call[c].answer may be what _deliver made it.
Answering == {"settle", "view"}

Tells(c, r) == request[r].outcome = "delivered" <=> call[c].answer = "ok"

OwnersInv ==
    /\ \A c, d \in Calls, r \in Requests : Owns(c, r) /\ Owns(d, r) => c = d
    /\ \A c \in Calls, r \in Requests : Owns(c, r) =>
         Open(r) /\ ~request[r].old /\ request[r].session = call[c].session /\ Tells(c, r)
    /\ \A c \in Calls : pc[c] \notin Answering => call[c].answer = "error"

HoldsInv == \A r \in Requests : Open(r) => /\ request[r].reserved = Reserve
                                           /\ crashes = 0 => Owned(r)

PaidInv == OwnersInv /\ HoldsInv /\ SavedAnswerIsTrue

LEMMA AnswerStep ==
    ASSUME TypeInv, NEW c \in Calls, Step(c),
           pc[c] \notin Answering => call[c].answer = "error"
    PROVE  pc'[c] \notin Answering => call'[c].answer = "error"
<1> USE DEF TypeInv, ControlInv, Answering
<1>1. call[c] \in CallRow /\ call \in [Calls -> CallRow]
  BY DEF CallsInv
<1>2. CASE Return(c)
  BY <1>1, <1>2 DEF Return, NoArgs
<1>3. CASE UNCHANGED call /\ pc[c] \notin Answering
  BY <1>3
<1>4. ASSUME NEW x, \/ call' = [call EXCEPT ![c].passed = x]
                    \/ call' = [call EXCEPT ![c].count = x]
                    \/ call' = [call EXCEPT ![c].evidence = x],
             pc[c] \notin Answering
      PROVE  call'[c].answer = "error"
  BY <1>1, <1>4 DEF CallRow
<1>5. CASE AccountStep(c)
  BY <1>2, <1>3, <1>5 DEF AccountStep, Recover, View, AdminAccount, SaveAccess, SaveCredit,
                          RefuseCredit, Read, AccountRead
<1>6. CASE CreateStep(c)
  BY <1>2, <1>3, <1>6 DEF CreateStep, RefuseAccess, CreateAllowed, RefuseDefense, AcceptDefense,
                          FindExisting, RefuseContext, InsertConflict, InsertSession, Read
<1>7. CASE Deliver(c) \/ Settle(c)
  BY <1>2, <1>7 DEF Deliver, Settle, Goto
<1>8. CASE SendStep(c)
  BY <1>2, <1>3, <1>4, <1>7, <1>8
     DEF SendStep, FirstUse, Replay, RefuseReplay, SendAllowed, Prepare, RefuseTurn,
         ReserveTurn, RefuseBusy, ReserveFails, Unlock, TutorDrafts, ModelFails, GuardAllows,
         GuardRefuses, Block, Revoked, StillEnabled, ReadEvidence, Read, Awaiting
<1> QED BY <1>5, <1>6, <1>8 DEF Step

\* A step of a call outside a turn, or of a turn that stays one.
LEMMA TurnGoesOn ==
    ASSUME TypeInv, PaidInv, NEW c \in Calls, NEW r \in Requests, UNCHANGED crashes,
           \A d \in Calls \ {c} : pc'[d] = pc[d] /\ call'[d] = call[d],
           pc'[c] \in Turn <=> pc[c] \in Turn,
           pc'[c] \notin Answering => call'[c].answer = "error",
           SameHold(request'[r], request[r]), OthersSame(r),
           ~Owns(c, r) => request'[r] = request[r],
           Owns(c, r) => /\ call'[c].request = r /\ call'[c].session = call[c].session
                         /\ Tells(c, r)',
           pc[c] \in Turn => call[c].request = r
    PROVE  PaidInv'
<1>1. \A d \in Calls, q \in Requests : Owns(d, q)' <=> Owns(d, q)
  BY DEF Owns
<1>2. \A q \in Requests : SameHold(request'[q], request[q])
  BY DEF OthersSame, SameHold
<1>3. \A d \in Calls, q \in Requests : Owns(d, q) => Tells(d, q)'
  <2> SUFFICES ASSUME NEW d \in Calls, NEW q \in Requests, Owns(d, q) PROVE Tells(d, q)'
    OBVIOUS
  <2>1. CASE d = c
    BY <2>1 DEF Owns
  <2>2. CASE d # c
    <3>1. request'[q] = request[q] /\ call'[d] = call[d]
      BY <2>2 DEF OthersSame, PaidInv, OwnersInv, Owns
    <3> QED BY <3>1 DEF PaidInv, OwnersInv, Tells
  <2> QED BY <2>1, <2>2
<1>4. OwnersInv'
  <2>1. \A d, e \in Calls, q \in Requests : Owns(d, q)' /\ Owns(e, q)' => d = e
    BY <1>1 DEF PaidInv, OwnersInv
  <2>2. ASSUME NEW d \in Calls, NEW q \in Requests, Owns(d, q)'
        PROVE  Open(q)' /\ ~request'[q].old /\ request'[q].session = call'[d].session
               /\ Tells(d, q)'
    <3>1. Owns(d, q)
      BY <1>1, <2>2
    <3>2. Open(q) /\ ~request[q].old /\ request[q].session = call[d].session
      BY <3>1 DEF PaidInv, OwnersInv
    <3>3. call'[d].session = call[d].session
      BY <3>1 DEF Owns
    <3> QED BY <1>2, <1>3, <3>1, <3>2, <3>3 DEF SameHold, Open
  <2>3. \A d \in Calls : pc'[d] \notin Answering => call'[d].answer = "error"
    BY DEF PaidInv, OwnersInv
  <2> QED BY <2>1, <2>2, <2>3 DEF OwnersInv
<1>5. HoldsInv'
  <2>1. \A q \in Requests : Owned(q) <=> \E d \in Calls : Owns(d, q)
    BY DEF Owned, Owns
  <2>2. \A q \in Requests : Owned(q)' <=> \E d \in Calls : Owns(d, q)'
    BY DEF Owned, Owns
  <2> QED BY <1>1, <1>2, <2>1, <2>2 DEF PaidInv, HoldsInv, SameHold, Open
<1>6. SavedAnswerIsTrue'
  <2> SUFFICES ASSUME NEW q \in Requests, request'[q].status = "done"
               PROVE  /\ request'[q].answer = "ok" => request'[q].outcome = "delivered"
                      /\ request'[q].outcome = "delivered" /\ crashes' = 0
                         => request'[q].answer = "ok"
    BY DEF SavedAnswerIsTrue
  <2>1. request[q].status = "done"
    BY <1>2 DEF SameHold
  <2>2. request'[q] = request[q]
    BY <2>1 DEF OthersSame, PaidInv, OwnersInv, Owns, Open
  <2> QED BY <2>1, <2>2 DEF PaidInv, SavedAnswerIsTrue
<1> QED BY <1>4, <1>5, <1>6 DEF PaidInv

LEMMA SettledPaid ==
    ASSUME TypeInv, PaidInv, NEW c \in Calls, NEW r \in Requests, Open(r),
           NEW charged \in Nat, NEW answer, Settled(r, charged, answer), UNCHANGED crashes,
           \A d \in Calls \ {c} : pc'[d] = pc[d] /\ call'[d] = call[d],
           pc'[c] \notin Answering => call'[c].answer = "error",
           \/ UNCHANGED <<pc, call>> /\ ~Owned(r) /\ answer = "error"
           \/ Owns(c, r) /\ pc'[c] \notin Turn /\ answer = call[c].answer
              /\ answer \in {"ok", "error"}
    PROVE  PaidInv'
<1>1. /\ request'[r].status = "done" /\ request'[r].answer = answer
      /\ request'[r].outcome = request[r].outcome /\ OthersSame(r)
  BY SettledEffect
<1>2. \A d \in Calls, q \in Requests : Owns(d, q)' => Owns(d, q) /\ q # r
  BY DEF Owns, Owned, PaidInv, OwnersInv
<1>3. \A d \in Calls, q \in Requests : Owns(d, q) /\ q # r => Owns(d, q)'
  BY DEF Owns
<1>4. \A d \in Calls, q \in Requests :
         Owns(d, q)' => request'[q] = request[q] /\ call'[d] = call[d]
  BY <1>1, <1>2 DEF OthersSame, Owns
<1>5. OwnersInv'
  BY <1>2, <1>4 DEF PaidInv, OwnersInv, Tells, Open
<1>6. HoldsInv'
  <2>1. \A q \in Requests : Owned(q) <=> \E d \in Calls : Owns(d, q)
    BY DEF Owned, Owns
  <2>2. \A q \in Requests : Owned(q)' <=> \E d \in Calls : Owns(d, q)'
    BY DEF Owned, Owns
  <2> QED BY <1>1, <1>3, <2>1, <2>2 DEF PaidInv, HoldsInv, Open, OthersSame
<1>7. SavedAnswerIsTrue'
  <2>1. /\ answer = "ok" => request[r].outcome = "delivered"
        /\ request[r].outcome = "delivered" /\ crashes = 0 => answer = "ok"
    BY DEF PaidInv, OwnersInv, HoldsInv, Tells
  <2> QED BY <1>1, <2>1 DEF PaidInv, SavedAnswerIsTrue, OthersSame
<1> QED BY <1>5, <1>6, <1>7 DEF PaidInv

LEMMA ReservePaid ==
    ASSUME TypeInv, PaidInv, NEW c \in Calls, ReserveTurn(c),
           \A d \in Calls \ {c} : pc'[d] = pc[d] /\ call'[d] = call[d]
    PROVE  PaidInv'
<1> DEFINE r == call[c].request
<1>1. r \in Requests /\ pc[c] = "reserve" /\ pc'[c] = "tutor" /\ UNCHANGED <<call, crashes>>
  BY SendRow DEF ReserveTurn, Await, Sending, TypeInv, ControlInv
<1>2. /\ request[r].status = "none" /\ OthersSame(r)
      /\ request'[r].status = "running" /\ ~request'[r].old
      /\ request'[r].session = call[c].session /\ request'[r].reserved = Reserve
      /\ request'[r].outcome = "none"
  BY <1>1, ReserveEffect
<1>3. \A d \in Calls : ~Owns(d, r)
  BY <1>1, <1>2 DEF PaidInv, OwnersInv, Open
<1>4. \A d \in Calls, q \in Requests :
         Owns(d, q)' <=> (d = c /\ q = r) \/ Owns(d, q)
  BY <1>1 DEF Owns, Turn, Awaiting
<1>5. call[c].answer = "error"
  BY <1>1 DEF PaidInv, OwnersInv, Answering
<1> HIDE DEF r
<1>6. OwnersInv'
  <2>1. \A d, e \in Calls, q \in Requests : Owns(d, q)' /\ Owns(e, q)' => d = e
    BY <1>3, <1>4 DEF PaidInv, OwnersInv
  <2>2. ASSUME NEW d \in Calls, NEW q \in Requests, Owns(d, q)'
        PROVE  Open(q)' /\ ~request'[q].old /\ request'[q].session = call'[d].session
               /\ Tells(d, q)'
    <3>1. CASE d = c /\ q = r
      BY <1>1, <1>2, <1>5, <3>1 DEF Open, Tells
    <3>2. CASE q # r
      BY <1>1, <1>2, <1>4, <2>2, <3>2 DEF PaidInv, OwnersInv, Open, Tells, OthersSame
    <3> QED BY <1>3, <1>4, <2>2, <3>1, <3>2
  <2>3. \A d \in Calls : pc'[d] \notin Answering => call'[d].answer = "error"
    BY <1>1, <1>5 DEF PaidInv, OwnersInv
  <2> QED BY <2>1, <2>2, <2>3 DEF OwnersInv
<1>7. HoldsInv'
  <2>1. \A q \in Requests : Owned(q) <=> \E d \in Calls : Owns(d, q)
    BY DEF Owned, Owns
  <2>2. \A q \in Requests : Owned(q)' <=> \E d \in Calls : Owns(d, q)'
    BY DEF Owned, Owns
  <2> QED BY <1>1, <1>2, <1>4, <2>1, <2>2 DEF PaidInv, HoldsInv, Open, OthersSame
<1>8. SavedAnswerIsTrue'
  BY <1>1, <1>2 DEF PaidInv, SavedAnswerIsTrue, OthersSame
<1> QED BY <1>6, <1>7, <1>8 DEF PaidInv

\* Steps of a turn between its reservation and its settlement.
LEMMA WorkingPaid ==
    ASSUME TypeInv, PaidInv, NEW c \in Calls, NEW r, call[c].request = r,
           \/ TutorDrafts(c) \/ ModelFails(c) \/ GuardAllows(c) \/ GuardRefuses(c) \/ Block(c)
           \/ Revoked(c) \/ StillEnabled(c) \/ ReadEvidence(c) \/ Deliver(c),
           Step(c)
    PROVE  PaidInv'
<1> USE DEF TypeInv, ControlInv
<1>1. pc[c] \in Turn \ {"settle"} /\ r \in Requests /\ Owns(c, r)
  <2>1. pc[c] \in Turn \ {"settle"}
    BY DEF TutorDrafts, ModelFails, GuardAllows, GuardRefuses, Block, Revoked, StillEnabled,
           ReadEvidence, Deliver, Read, Turn, Awaiting
  <2> QED BY <2>1, SendRow DEF Sending, Owns
<1>2. pc'[c] \in Turn /\ UNCHANGED crashes
  BY DEF TutorDrafts, ModelFails, GuardAllows, GuardRefuses, Block, Revoked, StillEnabled,
         ReadEvidence, Deliver, Goto, Resume, Turn, Awaiting
<1>3. /\ \A d \in Calls \ {c} : pc'[d] = pc[d] /\ call'[d] = call[d]
      /\ call'[c].request = r /\ call'[c].session = call[c].session
  <2>1. pc'[c] # "idle"
    BY <1>2 DEF Turn, Awaiting
  <2> QED BY <2>1, ArgsKept, OthersStay DEF SameArgs
<1>4. pc'[c] \notin Answering => call'[c].answer = "error"
  BY AnswerStep DEF PaidInv, OwnersInv
<1>5. call[c].answer = "error" /\ request[r].outcome # "delivered"
  BY <1>1 DEF PaidInv, OwnersInv, Tells, Answering, Turn, Awaiting
<1>6. call \in [Calls -> CallRow] /\ request[r] \in RequestRow
  BY <1>1 DEF CallsInv, MoneyInv
<1>7. ASSUME NEW outcome, Notes(r, outcome)
      PROVE  SameHold(request'[r], request[r]) /\ OthersSame(r) /\ request'[r].outcome = outcome
  BY <1>1, <1>7, OutcomeEffect
<1>8. SameHold(request'[r], request[r]) /\ OthersSame(r) /\ Tells(c, r)'
  <2>1. CASE \E cost, outcome : outcome # "delivered" /\ Charge(c, cost, outcome)
                 /\ (UNCHANGED call \/ \E x : call' = [call EXCEPT ![c].passed = x])
    <3>1. call'[c].answer = "error"
      BY <1>5, <1>6, <2>1 DEF CallRow
    <3> QED BY <1>1, <2>1, <3>1, ChargeEffect DEF Tells
  <2>2. CASE TutorDrafts(c) \/ ModelFails(c) \/ GuardAllows(c) \/ GuardRefuses(c)
    BY <2>1, <2>2, Zenon DEF TutorDrafts, ModelFails, GuardAllows, GuardRefuses
  <2>3. CASE Block(c)
    BY <1>1, <1>5, <1>7, <2>3, NotesOutcome DEF Block, Tells
  <2>4. CASE Revoked(c) \/ StillEnabled(c) \/ ReadEvidence(c)
    <3>1. request' = request
      BY <2>4 DEF Revoked, StillEnabled, ReadEvidence, db
    <3>2. call'[c].answer = "error"
      BY <1>5, <1>6, <2>4 DEF Revoked, StillEnabled, ReadEvidence, CallRow
    <3> QED BY <1>5, <3>1, <3>2 DEF SameHold, OthersSame, Tells
  <2>5. CASE Deliver(c)
    <3>1. CASE Lands(c)
      <4>1. call' = [call EXCEPT ![c].answer = "ok"]
        BY <2>5, <3>1 DEF Deliver
      <4>2. call'[c].answer = "ok"
        BY <1>6, <4>1 DEF CallRow
      <4>3. SameHold(request'[r], request[r]) /\ OthersSame(r)
            /\ request'[r].outcome = "delivered"
        BY <1>7, <2>5, <3>1, NotesOutcome
      <4> QED BY <4>2, <4>3 DEF Tells
    <3>2. CASE ~Lands(c)
      <4>1. call' = [call EXCEPT ![c].answer = "error"]
        BY <2>5, <3>2, Zenon DEF Deliver
      <4>2. call'[c].answer = "error"
        BY <1>6, <4>1 DEF CallRow
      <4>3. SameHold(request'[r], request[r]) /\ OthersSame(r)
            /\ request'[r].outcome = request[r].outcome
        BY <1>7, <2>5, <3>2, NotesOutcome
      <4> QED BY <1>5, <4>2, <4>3 DEF Tells
    <3> QED BY <3>1, <3>2
  <2> QED BY <2>2, <2>3, <2>4, <2>5
<1> QED BY <1>1, <1>2, <1>3, <1>4, <1>8, TurnGoesOn

LEMMA StepPaid ==
    ASSUME TypeInv, PaidInv, NEW c \in Calls, Step(c)
    PROVE  PaidInv'
<1> USE DEF TypeInv, ControlInv
<1>1. \A d \in Calls \ {c} : pc'[d] = pc[d] /\ call'[d] = call[d]
  BY OthersStay
<1>2. pc'[c] \notin Answering => call'[c].answer = "error"
  BY AnswerStep DEF PaidInv, OwnersInv
<1>3. ASSUME pc[c] \notin Turn, pc'[c] \notin Turn, UNCHANGED <<request, crashes>>
      PROVE  PaidInv'
  <2>1. CASE Requests = {}
    BY <1>2, <1>1, <2>1 DEF PaidInv, OwnersInv, HoldsInv, SavedAnswerIsTrue
  <2>2. ASSUME NEW r \in Requests PROVE PaidInv'
    <3>1. SameHold(request'[r], request[r]) /\ OthersSame(r) /\ ~Owns(c, r)
      BY <1>3 DEF SameHold, OthersSame, Owns
    <3> QED BY <1>1, <1>2, <1>3, <3>1, TurnGoesOn
  <2> QED BY <2>1, <2>2
<1>4. CASE \E r \in Requests : Recover(c, r)
  <2>1. PICK r \in Requests : Recover(c, r)
    BY <1>4
  <2>2. Open(r) /\ ~Owned(r)
    BY <2>1 DEF Recover, Interrupted, PaidInv, OwnersInv, Open, Owned, Owns
  <2>3. PICK charged \in Nat : Settled(r, charged, "error")
    BY <2>1 DEF Recover, MoneyInv, RequestRow
  <2> QED BY <1>1, <1>2, <2>1, <2>2, <2>3, SettledPaid DEF Recover
<1>5. CASE ReserveTurn(c)
  BY <1>1, <1>5, ReservePaid
<1>6. CASE Settle(c)
  <2>1. PICK r \in Requests : call[c].request = r
    BY <1>6, SendRow DEF Settle, Sending, Turn
  <2>2. Owns(c, r) /\ Open(r) /\ pc'[c] \notin Turn
    BY <1>6, <2>1 DEF Settle, Owns, Turn, Awaiting, PaidInv, OwnersInv, Goto, Return
  <2>3. request[r].cost \in Nat /\ call[c].answer \in {"ok", "error"}
    BY DEF MoneyInv, RequestRow, CallsInv, CallRow
  <2>4. Settled(r, request[r].cost, call[c].answer) /\ UNCHANGED crashes
    BY <1>6, <2>1, <2>2 DEF Settle, Open, Goto, Return
  <2> QED BY <1>1, <1>2, <2>2, <2>3, <2>4, SettledPaid
<1>7. CASE \/ TutorDrafts(c) \/ ModelFails(c) \/ GuardAllows(c) \/ GuardRefuses(c) \/ Block(c)
           \/ Revoked(c) \/ StillEnabled(c) \/ ReadEvidence(c) \/ Deliver(c)
  BY <1>7, WorkingPaid
<1>8. CASE AccountStep(c)
  <2>1. CASE View(c) \/ AdminAccount(c) \/ SaveAccess(c) \/ SaveCredit(c) \/ RefuseCredit(c)
    <3>1. pc[c] \notin Turn /\ pc'[c] \notin Turn /\ UNCHANGED <<request, crashes>>
      BY <2>1 DEF View, AdminAccount, SaveAccess, SaveCredit, RefuseCredit, Read, Goto, Return,
                  db, Turn, Awaiting
    <3> QED BY <1>3, <3>1
  <2> QED BY <1>4, <1>8, <2>1 DEF AccountStep
<1>9. CASE CreateStep(c)
  <2>1. pc[c] \notin Turn /\ pc'[c] \notin Turn /\ UNCHANGED <<request, crashes>>
    BY <1>9 DEF CreateStep, RefuseAccess, CreateAllowed, RefuseDefense, AcceptDefense,
                FindExisting, RefuseContext, InsertConflict, InsertSession, Read, Goto, Return,
                db, Turn, Awaiting
  <2> QED BY <1>3, <2>1
<1>10. CASE \/ FirstUse(c) \/ Replay(c) \/ RefuseReplay(c) \/ SendAllowed(c) \/ Prepare(c)
            \/ RefuseTurn(c) \/ RefuseBusy(c) \/ ReserveFails(c) \/ Unlock(c)
  <2>1. pc[c] \notin Turn /\ pc'[c] \notin Turn /\ UNCHANGED <<request, crashes>>
    BY <1>10 DEF FirstUse, Replay, RefuseReplay, SendAllowed, Prepare, RefuseTurn, RefuseBusy,
                 ReserveFails, Unlock, Read, Goto, Return, db, Turn, Awaiting
  <2> QED BY <1>3, <2>1
<1> QED BY <1>5, <1>6, <1>7, <1>8, <1>9, <1>10 DEF Step, SendStep

LEMMA PaidInvInit == Init => PaidInv
BY DEF Init, PaidInv, OwnersInv, HoldsInv, SavedAnswerIsTrue, Owns, Open, NoRequest, NoArgs,
       Turn, Awaiting

LEMMA PaidInvStep == TypeInv /\ PaidInv /\ [Next]_vars => PaidInv'
<1> SUFFICES ASSUME TypeInv, PaidInv, [Next]_vars PROVE PaidInv'
  OBVIOUS
<1> USE DEF TypeInv, ControlInv
<1>1. ASSUME UNCHANGED <<request, crashes>>,
             \A d \in Calls : pc[d] \in Turn => pc'[d] = pc[d] /\ call'[d] = call[d],
             \A d \in Calls : pc'[d] \in Turn => pc[d] \in Turn,
             \A d \in Calls : pc'[d] \notin Answering => call'[d].answer = "error"
      PROVE  PaidInv'
  <2>1. \A d \in Calls, q \in Requests : Owns(d, q)' <=> Owns(d, q)
    BY <1>1 DEF Owns
  <2>2. \A d \in Calls, q \in Requests : Owns(d, q) => call'[d] = call[d]
    BY <1>1 DEF Owns
  <2>3. OwnersInv' /\ SavedAnswerIsTrue'
    BY <1>1, <2>1, <2>2 DEF PaidInv, OwnersInv, SavedAnswerIsTrue, Tells, Open
  <2>4. HoldsInv'
    <3>1. \A q \in Requests : Owned(q) => Owned(q)'
      BY <2>1 DEF Owned, Owns
    <3> QED BY <1>1, <3>1 DEF PaidInv, HoldsInv, Open
  <2> QED BY <2>3, <2>4 DEF PaidInv
<1>2. ASSUME NEW c \in Calls, NEW w \in Workers, Student(c, w) \/ Admin(c, w)
      PROVE  PaidInv'
  <2>2. /\ pc[c] = "idle" /\ pc'[c] \in {"view", "account", "lookup"}
        /\ call'[c].answer = "error" /\ UNCHANGED <<request, crashes>>
    BY <1>2, Arrivals DEF Brought, db
  <2>3. \A d \in Calls \ {c} : pc'[d] = pc[d] /\ call'[d] = call[d]
    BY <1>2, OthersStay
  <2> QED BY <1>1, <2>2, <2>3 DEF Turn, Awaiting, PaidInv, OwnersInv
<1>3. ASSUME NEW w \in Workers, NEW b \in Submissions, RecordSubmission(w, b)
      PROVE  PaidInv'
  BY <1>1, <1>3 DEF RecordSubmission, PaidInv, OwnersInv
<1>4. ASSUME NEW w \in Workers, Crash(w) PROVE PaidInv'
  <2>1. \A d \in Calls : \/ pc'[d] = pc[d] /\ call'[d] = call[d]
                         \/ pc'[d] = "idle" /\ call'[d] = NoArgs
    BY <1>4 DEF Crash
  <2>2. \A d \in Calls, q \in Requests : Owns(d, q)' => Owns(d, q) /\ call'[d] = call[d]
    BY <2>1 DEF Owns, Turn, Awaiting
  <2>3. request' = request /\ crashes' # 0
    BY <1>4 DEF Crash, db
  <2>4. OwnersInv'
    BY <2>1, <2>2, <2>3 DEF PaidInv, OwnersInv, Open, Tells, NoArgs
  <2> QED BY <2>3, <2>4 DEF PaidInv, HoldsInv, SavedAnswerIsTrue, Open
<1>5. ASSUME NEW r \in Requests, TenMinutes(r) PROVE PaidInv'
  <2>1. /\ ~Owned(r) /\ request[r].status = "running" /\ UNCHANGED <<pc, call, crashes>>
        /\ request' = [request EXCEPT ![r] = [request[r] EXCEPT !.old = TRUE]]
    BY <1>5, Zenon DEF TenMinutes
  <2>2. \A d \in Calls : ~Owns(d, r)
    BY <2>1 DEF Owned, Owns
  <2>3. OthersSame(r) /\ request'[r].status = "running"
        /\ request'[r].reserved = request[r].reserved
    BY <2>1 DEF OthersSame, MoneyInv, RequestRow
  <2>4. OwnersInv'
    BY <2>1, <2>2, <2>3 DEF PaidInv, OwnersInv, Owns, Open, Tells, OthersSame
  <2>5. HoldsInv'
    BY <2>1, <2>3 DEF PaidInv, HoldsInv, Owned, Open, OthersSame
  <2>6. SavedAnswerIsTrue'
    BY <2>1, <2>3 DEF PaidInv, SavedAnswerIsTrue, OthersSame
  <2> QED BY <2>4, <2>5, <2>6 DEF PaidInv
<1>6. CASE UNCHANGED vars
  BY <1>1, <1>6 DEF vars, db, PaidInv, OwnersInv
<1> QED BY <1>2, <1>3, <1>4, <1>5, <1>6, StepPaid DEF Next

LEMMA PaidHolds == Spec => [](TypeInv /\ PaidInv)
BY TypeInvInit, TypeInvStep, PaidInvInit, PaidInvStep, PTL DEF Spec

\* The answer saved for a repeated request_id tells what happened, for any
\* number of workers: "ok" only of a delivered turn, and, as long as no worker
\* died, of every delivered turn.
THEOREM AnswersAreTrue == Spec => []SavedAnswerIsTrue
BY PaidHolds, PTL DEF PaidInv

-----------------------------------------------------------------------------
(* The steps of the whole system, as the wallet sees them.                   *)

\* A request that is neither begun nor settled; a settled one stays as it is.
Kept(r) == /\ request'[r].status = request[r].status
           /\ request'[r].reserved = request[r].reserved
           /\ request[r].status = "done" => request'[r] = request[r]

LEMMA WalletSteps ==
    ASSUME TypeInv, PaidInv, [Next]_vars
    PROVE  \/ UNCHANGED <<account, credited>> /\ \A r \in Requests : Kept(r)
           \/ \E c \in Calls : ReserveTurn(c)
           \/ \E r \in Requests, charged \in Nat, answer \in {"ok", "error"} :
                /\ Open(r) /\ Settled(r, charged, answer) /\ UNCHANGED credited
                /\ charged \in {request[r].cost, request[r].reserved}
           \/ \E c \in Calls : SaveCredit(c) \/ SaveAccess(c)
<1> USE DEF TypeInv
<1> DEFINE Goal ==
           \/ UNCHANGED <<account, credited>> /\ \A r \in Requests : Kept(r)
           \/ \E c \in Calls : ReserveTurn(c)
           \/ \E r \in Requests, charged \in Nat, answer \in {"ok", "error"} :
                /\ Open(r) /\ Settled(r, charged, answer) /\ UNCHANGED credited
                /\ charged \in {request[r].cost, request[r].reserved}
           \/ \E c \in Calls : SaveCredit(c) \/ SaveAccess(c)
<1>1. CASE UNCHANGED <<account, credited, request>>
  BY <1>1 DEF Kept
<1>2. ASSUME NEW c \in Calls, NEW r \in Requests, Recover(c, r) PROVE Goal
  <2>1. request[r] \in RequestRow /\ Open(r)
    BY <1>2 DEF MoneyInv, Recover, Interrupted, Open
  <2>2. PICK charged \in {request[r].cost, request[r].reserved} : Settled(r, charged, "error")
    BY <1>2 DEF Recover
  <2>3. charged \in Nat /\ UNCHANGED credited
    BY <1>2, <2>1, <2>2 DEF RequestRow, Recover
  <2> QED BY <2>1, <2>2, <2>3
<1>3. ASSUME NEW c \in Calls, Settle(c) PROVE Goal
  <2>1. CASE request[call[c].request].status # "running"
    BY <1>1, <1>3, <2>1 DEF Settle
  <2>2. CASE request[call[c].request].status = "running"
    <3>1. PICK r \in Requests : r = call[c].request
      BY <1>3, SendRow DEF Settle, Sending, Turn
    <3>2. Open(r) /\ Settled(r, request[r].cost, call[c].answer) /\ UNCHANGED credited
      BY <1>3, <2>2, <3>1 DEF Settle, Open
    <3>3. request[r].cost \in Nat /\ call[c].answer \in {"ok", "error"}
      BY DEF MoneyInv, RequestRow, CallsInv, CallRow
    <3> QED BY <3>2, <3>3
  <2> QED BY <2>1, <2>2
<1>4. ASSUME NEW c \in Calls, Step(c),
             TutorDrafts(c) \/ ModelFails(c) \/ GuardAllows(c) \/ GuardRefuses(c) \/ Block(c)
             \/ Deliver(c)
      PROVE  Goal
  <2>1. PICK r \in Requests : call[c].request = r
    BY <1>4, SendRow DEF TutorDrafts, ModelFails, GuardAllows, GuardRefuses, Block, Deliver,
                         Sending, Turn, Awaiting
  <2>2. Owns(c, r) /\ Open(r)
    BY <1>4, <2>1 DEF TutorDrafts, ModelFails, GuardAllows, GuardRefuses, Block, Deliver,
                      Turn, Awaiting, Owns, PaidInv, OwnersInv
  <2>3. UNCHANGED <<account, credited>>
    BY <1>4 DEF TutorDrafts, ModelFails, GuardAllows, GuardRefuses, Charge, Block, Deliver
  <2>4. SameHold(request'[r], request[r]) /\ OthersSame(r)
    <3>1. CASE \E cost, outcome : Charge(c, cost, outcome)
      BY <2>1, <3>1, ChargeEffect
    <3>2. CASE TutorDrafts(c) \/ ModelFails(c) \/ GuardAllows(c) \/ GuardRefuses(c)
      BY <3>1, <3>2, Zenon DEF TutorDrafts, ModelFails, GuardAllows, GuardRefuses
    <3>3. CASE Block(c) \/ Deliver(c)
      <4>1. \E outcome : Notes(r, outcome)
        BY <2>1, <3>3, NotesOutcome
      <4> QED BY <4>1, OutcomeEffect
    <3> QED BY <1>4, <3>2, <3>3
  <2>5. \A q \in Requests : Kept(q)
    BY <2>2, <2>4 DEF SameHold, OthersSame, Kept, Open
  <2> QED BY <2>3, <2>5
<1>5. ASSUME NEW c \in Calls, AccountStep(c) PROVE Goal
  BY <1>1, <1>2, <1>5 DEF AccountStep, View, AdminAccount, RefuseCredit, db
<1>6. ASSUME NEW c \in Calls, CreateStep(c) PROVE Goal
  BY <1>1, <1>6 DEF CreateStep, RefuseAccess, CreateAllowed, RefuseDefense, AcceptDefense,
                    FindExisting, RefuseContext, InsertConflict, InsertSession, db
<1>7. ASSUME NEW c \in Calls, SendStep(c) PROVE Goal
  <2>1. CASE TutorDrafts(c) \/ ModelFails(c) \/ GuardAllows(c) \/ GuardRefuses(c) \/ Block(c)
             \/ Deliver(c)
    BY <1>4, <1>7, <2>1 DEF Step
  <2>2. CASE \/ FirstUse(c) \/ Replay(c) \/ RefuseReplay(c) \/ SendAllowed(c) \/ Prepare(c)
             \/ RefuseTurn(c) \/ RefuseBusy(c) \/ ReserveFails(c) \/ Unlock(c)
             \/ Revoked(c) \/ StillEnabled(c) \/ ReadEvidence(c)
    <3>1. UNCHANGED <<account, credited, request>>
      BY <2>2 DEF FirstUse, Replay, RefuseReplay, SendAllowed, Prepare, RefuseTurn, RefuseBusy,
                  ReserveFails, Unlock, Revoked, StillEnabled, ReadEvidence, db
    <3> QED BY <1>1, <3>1
  <2> QED BY <1>3, <1>7, <2>1, <2>2 DEF SendStep
<1>8. ASSUME NEW c \in Calls, NEW w \in Workers, Student(c, w) \/ Admin(c, w) PROVE Goal
  BY <1>1, <1>8, Arrivals DEF db
<1>9. ASSUME NEW r \in Requests, TenMinutes(r) PROVE Goal
  <2>1. /\ request' = [request EXCEPT ![r] = [request[r] EXCEPT !.old = TRUE]]
        /\ request[r].status = "running" /\ UNCHANGED <<account, credited>>
    BY <1>9, Zenon DEF TenMinutes
  <2>2. /\ [request[r] EXCEPT !.old = TRUE].status = "running"
        /\ [request[r] EXCEPT !.old = TRUE].reserved = request[r].reserved
    BY <2>1 DEF MoneyInv, RequestRow
  <2>3. \A q \in Requests : Kept(q)
    BY <2>1, <2>2 DEF Kept, MoneyInv
  <2> QED BY <2>1, <2>3
<1>10. CASE \/ \E w \in Workers, b \in Submissions : RecordSubmission(w, b)
            \/ \E w \in Workers : Crash(w)
            \/ UNCHANGED vars
  BY <1>1, <1>10 DEF RecordSubmission, Crash, vars, db
<1> QED BY <1>5, <1>6, <1>7, <1>8, <1>9, <1>10 DEF Next, Step

\* A request_id buys one turn: one call at a time pays for it, and once it is
\* settled neither its price nor its saved answer changes, for any number of
\* workers, whatever is repeated and whoever dies.
THEOREM OneTurnPerPayment == Spec => OnePaymentPerRequest
<1> DEFINE A == \A r \in Requests :
         /\ request[r].status = "done" => request'[r] = request[r]
         /\ Open(r) => request'[r].status # "none"
         /\ \A c, d \in Calls : /\ pc[c] \in Turn /\ call[c].request = r
                                 /\ pc[d] \in Turn /\ call[d].request = r => c = d
<1>1. TypeInv /\ PaidInv /\ [Next]_vars => [A]_vars
  <2> SUFFICES ASSUME TypeInv, PaidInv, [Next]_vars, NEW r \in Requests
               PROVE  /\ request[r].status = "done" => request'[r] = request[r]
                      /\ Open(r) => request'[r].status # "none"
                      /\ \A c, d \in Calls : /\ pc[c] \in Turn /\ call[c].request = r
                                              /\ pc[d] \in Turn /\ call[d].request = r => c = d
    OBVIOUS
  <2>1. ASSUME \A q \in Requests : Kept(q)
        PROVE  /\ request[r].status = "done" => request'[r] = request[r]
               /\ Open(r) => request'[r].status # "none"
    <3>1. Kept(r)
      BY <2>1
    <3> QED BY <3>1 DEF Kept, Open
  <2>2. ASSUME NEW c \in Calls, ReserveTurn(c)
        PROVE  /\ request[r].status = "done" => request'[r] = request[r]
               /\ Open(r) => request'[r].status # "none"
    <3>1. call[c].request \in Requests
      BY <2>2, SendRow DEF ReserveTurn, Sending, TypeInv
    <3> QED BY <2>2, <3>1, ReserveEffect DEF OthersSame, Open
  <2>3. ASSUME NEW q \in Requests, NEW charged \in Nat, NEW answer \in {"ok", "error"},
               Open(q), Settled(q, charged, answer)
        PROVE  /\ request[r].status = "done" => request'[r] = request[r]
               /\ Open(r) => request'[r].status # "none"
    BY <2>3, SettledEffect DEF OthersSame, Open
  <2>4. ASSUME NEW c \in Calls, SaveCredit(c) \/ SaveAccess(c)
        PROVE  UNCHANGED request
    BY <2>4 DEF SaveCredit, SaveAccess
  <2>5. /\ request[r].status = "done" => request'[r] = request[r]
        /\ Open(r) => request'[r].status # "none"
    BY <2>1, <2>2, <2>3, <2>4, WalletSteps DEF Open
  <2>6. \A c, d \in Calls : /\ pc[c] \in Turn /\ call[c].request = r
                             /\ pc[d] \in Turn /\ call[d].request = r => c = d
    BY DEF PaidInv, OwnersInv, Owns
  <2> QED BY <2>5, <2>6
<1> HIDE DEF A
<1>2. Spec => [][A]_vars
  BY <1>1, PaidHolds, PTL DEF Spec
<1> QED BY <1>2 DEF A, OnePaymentPerRequest

-----------------------------------------------------------------------------
(* What an administrator's step does to the account.                         *)

LEMMA AccessEffect ==
    ASSUME TypeInv, NEW c \in Calls, SaveAccess(c)
    PROVE  /\ account'.balance = account.balance /\ account'.reserved = account.reserved
           /\ account'.spent = account.spent /\ account'.enabled \in BOOLEAN
           /\ UNCHANGED <<credited, request>>
<1> DEFINE new == [account EXCEPT !.enabled = call[c].enabled,
                                  !.defense_required = call[c].defense_required]
<1>1. account \in AccountRow /\ call[c].enabled \in BOOLEAN
  BY DEF TypeInv, MoneyInv, CallsInv, CallRow
<1>2. new.balance = account.balance /\ new.reserved = account.reserved
      /\ new.spent = account.spent
  BY <1>1 DEF AccountRow
<1>3. new.enabled = call[c].enabled
  BY <1>1 DEF AccountRow
<1>4. account' = new /\ UNCHANGED <<credited, request>>
  BY DEF SaveAccess
<1> HIDE DEF new
<1> QED BY <1>1, <1>2, <1>3, <1>4

LEMMA CreditEffect ==
    ASSUME TypeInv, NEW c \in Calls, SaveCredit(c)
    PROVE  /\ account'.reserved = account.reserved /\ account'.spent = account.spent
           /\ account'.enabled = account.enabled /\ UNCHANGED request
           /\ \/ UNCHANGED <<account, credited>>
              \/ /\ credited[call[c].credit] = 0
                 /\ credited' = [credited EXCEPT ![call[c].credit] = call[c].amount]
                 /\ account'.balance = account.balance + call[c].amount
<1>1. CASE credited[call[c].credit] = 0
  <2> DEFINE x == account.balance + call[c].amount
  <2>1. /\ account' = [account EXCEPT !.balance = x]
        /\ credited' = [credited EXCEPT ![call[c].credit] = call[c].amount]
        /\ UNCHANGED request
    BY <1>1, Zenon DEF SaveCredit
  <2> HIDE DEF x
  <2>2. /\ account'.balance = x /\ account'.reserved = account.reserved
        /\ account'.spent = account.spent
    BY <2>1 DEF TypeInv, MoneyInv, AccountRow
  <2>3. account'.enabled = account.enabled
    BY <2>1 DEF TypeInv, MoneyInv, AccountRow
  <2> QED BY <1>1, <2>1, <2>2, <2>3 DEF x
<1>2. CASE credited[call[c].credit] # 0
  BY <1>2 DEF SaveCredit
<1> QED BY <1>1, <1>2

-----------------------------------------------------------------------------
(* No overdraft.                                                             *)

\* A turn's two model calls cost no more than what was reserved for them.
ReserveCovers ==
    \A t \in TutorCosts : t <= Reserve /\ \A g \in GuardCosts : t + g <= Reserve

OpenRequests == {r \in Requests : Open(r)}

\* What the account holds back is what the running requests reserved, ...
HeldInv == /\ IsFiniteSet(OpenRequests)
           /\ account.reserved = Reserve * Cardinality(OpenRequests)

\* ... which no running request has exceeded, ...
CostInv ==
    /\ \A r \in Requests : Open(r) => request[r].cost <= Reserve
    /\ \A c \in Calls, r \in Requests : Owns(c, r) =>
         /\ pc[c] = "tutor" => request[r].cost = 0
         /\ pc[c] = "guard" => request[r].cost \in TutorCosts

\* ... so that the balance covers it.
CoveredInv == HeldInv /\ CostInv /\ account.balance >= account.reserved

LEMMA CoveredInit == Init => CoveredInv
<1> SUFFICES ASSUME Init PROVE CoveredInv
  OBVIOUS
<1>1. OpenRequests = {} /\ \A c \in Calls : pc[c] = "idle"
  BY DEF Init, OpenRequests, Open, NoRequest
<1>2. IsFiniteSet(OpenRequests) /\ Cardinality(OpenRequests) = 0
  BY <1>1, FS_EmptySet
<1> QED BY <1>1, <1>2, ConstantsAssumption
        DEF Init, CoveredInv, HeldInv, CostInv, OpenRequests, Owns, Turn, Awaiting

\* The money side of a step.
LEMMA HeldStep ==
    ASSUME TypeInv, PaidInv, CoveredInv, [Next]_vars
    PROVE  HeldInv' /\ account'.balance >= account'.reserved
<1> USE ConstantsAssumption
<1>1. /\ account.balance \in Int /\ account.reserved \in Int /\ account.spent \in Int
      /\ account.balance >= account.reserved
      /\ IsFiniteSet(OpenRequests) /\ Cardinality(OpenRequests) \in Nat
      /\ account.reserved = Reserve * Cardinality(OpenRequests)
  BY FS_CardinalityType DEF TypeInv, MoneyInv, AccountRow, CoveredInv, HeldInv
<1>2. CASE UNCHANGED <<account, credited>> /\ \A r \in Requests : Kept(r)
  <2>1. OpenRequests' = OpenRequests
    BY <1>2 DEF Kept, OpenRequests, Open
  <2> QED BY <1>1, <1>2, <2>1 DEF HeldInv
<1>3. ASSUME NEW c \in Calls, ReserveTurn(c)
      PROVE  HeldInv' /\ account'.balance >= account'.reserved
  <2>1. PICK r \in Requests : call[c].request = r
    BY <1>3, SendRow DEF ReserveTurn, Sending, TypeInv
  <2>2. /\ request[r].status = "none" /\ OthersSame(r) /\ request'[r].status = "running"
        /\ account'.reserved = account.reserved + Reserve
        /\ account'.balance = account.balance
        /\ account.balance - account.reserved >= Reserve
    BY <1>3, <2>1, ReserveEffect
  <2>3. OpenRequests' = OpenRequests \cup {r} /\ r \notin OpenRequests
    BY <2>2 DEF OpenRequests, Open, OthersSame
  <2>4. IsFiniteSet(OpenRequests') /\ Cardinality(OpenRequests') = Cardinality(OpenRequests) + 1
    BY <1>1, <2>3, FS_AddElement
  <2>5. account'.balance >= account'.reserved
    BY <1>1, <2>2
  <2>6. account'.reserved = Reserve * Cardinality(OpenRequests')
    BY <1>1, <2>2, <2>4
  <2> QED BY <2>4, <2>5, <2>6 DEF HeldInv
<1>4. ASSUME NEW r \in Requests, NEW charged \in Nat, NEW answer \in {"ok", "error"},
             Open(r), Settled(r, charged, answer),
             charged \in {request[r].cost, request[r].reserved}
      PROVE  HeldInv' /\ account'.balance >= account'.reserved
  <2>1. /\ request'[r].status = "done" /\ OthersSame(r)
        /\ account'.balance = account.balance - charged
        /\ account'.reserved = account.reserved - request[r].reserved
    BY <1>4, SettledEffect
  <2>2. request[r].reserved = Reserve /\ charged <= Reserve
    BY <1>4 DEF PaidInv, HoldsInv, CoveredInv, CostInv
  <2>3. OpenRequests' = OpenRequests \ {r} /\ r \in OpenRequests
    BY <1>4, <2>1 DEF OpenRequests, Open, OthersSame
  <2>4. IsFiniteSet(OpenRequests') /\ Cardinality(OpenRequests') = Cardinality(OpenRequests) - 1
    BY <1>1, <2>3, FS_RemoveElement
  <2>5. account'.balance >= account'.reserved
    BY <1>1, <2>1, <2>2
  <2>6. account'.reserved = Reserve * Cardinality(OpenRequests')
    BY <1>1, <2>1, <2>2, <2>4
  <2> QED BY <2>4, <2>5, <2>6 DEF HeldInv
<1>5. ASSUME NEW c \in Calls, SaveCredit(c) \/ SaveAccess(c)
      PROVE  HeldInv' /\ account'.balance >= account'.reserved
  <2>1. call[c].amount \in Nat
    BY DEF TypeInv, CallsInv, CallRow
  <2>2. account'.reserved = account.reserved /\ UNCHANGED request
        /\ \/ account'.balance = account.balance
           \/ account'.balance = account.balance + call[c].amount
    BY <1>5, AccessEffect, CreditEffect
  <2>3. account'.balance >= account'.reserved
    BY <1>1, <2>1, <2>2
  <2>4. OpenRequests' = OpenRequests
    BY <2>2 DEF OpenRequests, Open
  <2> QED BY <1>1, <2>2, <2>3, <2>4 DEF HeldInv
<1> QED BY <1>2, <1>3, <1>4, <1>5, WalletSteps

\* A step that charges nothing.
LEMMA CostStays ==
    ASSUME CostInv,
           \A q \in Requests : Open(q)' => Open(q) /\ request'[q].cost = request[q].cost,
           \A d \in Calls, q \in Requests : Owns(d, q)' /\ pc'[d] \in Awaiting =>
              Owns(d, q) /\ pc'[d] = pc[d] /\ request'[q].cost = request[q].cost
    PROVE  CostInv'
BY DEF CostInv, Awaiting

\* The usage row of one model call.
LEMMA CostGrows ==
    ASSUME TypeInv, PaidInv, CostInv, NEW c \in Calls, NEW r \in Requests,
           pc[c] \in Awaiting, call[c].request = r,
           NEW cost, NEW outcome, Charge(c, cost, outcome), request[r].cost + cost <= Reserve,
           \A d \in Calls \ {c} : pc'[d] = pc[d] /\ call'[d] = call[d],
           \/ pc'[c] = "guard" /\ request[r].cost + cost \in TutorCosts
           \/ pc'[c] \notin Awaiting,
           pc'[c] \in Turn => call'[c].request = r
    PROVE  CostInv'
<1>1. SameHold(request'[r], request[r]) /\ OthersSame(r)
      /\ request'[r].cost = request[r].cost + cost
  BY ChargeEffect
<1>2. Owns(c, r)
  BY DEF Owns, Turn
<1>3. \A q \in Requests : Open(q)' => request'[q].cost <= Reserve
  BY <1>1 DEF OthersSame, CostInv, Open
<1>4. ASSUME NEW d \in Calls, NEW q \in Requests, Owns(d, q)'
      PROVE  /\ pc'[d] = "tutor" => request'[q].cost = 0
             /\ pc'[d] = "guard" => request'[q].cost \in TutorCosts
  <2>1. CASE d = c
    BY <1>1, <1>4, <2>1 DEF Owns, Awaiting
  <2>2. CASE d # c
    <3>1. Owns(d, q) /\ pc'[d] = pc[d]
      BY <1>4, <2>2 DEF Owns
    <3>2. q # r
      BY <1>2, <2>2, <3>1 DEF PaidInv, OwnersInv
    <3> QED BY <1>1, <3>1, <3>2 DEF OthersSame, CostInv
  <2> QED BY <2>1, <2>2
<1> QED BY <1>3, <1>4 DEF CostInv

\* What the two calls of a turn have cost when they have both answered.
LEMMA ModelCost ==
    ASSUME ReserveCovers, TypeInv, CostInv, NEW c \in Calls, NEW r \in Requests,
           pc[c] \in Awaiting, call[c].request = r,
           NEW cost \in IF pc[c] = "tutor" THEN TutorCosts ELSE GuardCosts
    PROVE  request[r].cost + cost <= Reserve
<1>1. Owns(c, r) /\ cost \in Nat
  BY ConstantsAssumption DEF Owns, Turn
<1>2. CASE pc[c] = "tutor"
  BY <1>1, <1>2 DEF CostInv, ReserveCovers
<1>3. CASE pc[c] = "guard"
  BY <1>1, <1>3 DEF CostInv, ReserveCovers
<1> QED BY <1>2, <1>3 DEF Awaiting

LEMMA StepCost ==
    ASSUME ReserveCovers, TypeInv, PaidInv, CostInv, NEW c \in Calls, Step(c), PaidInv'
    PROVE  CostInv'
<1> USE DEF TypeInv, ControlInv
<1>1. \A d \in Calls \ {c} : pc'[d] = pc[d] /\ call'[d] = call[d]
  BY OthersStay
<1>2. ASSUME pc'[c] \notin Awaiting \/ UNCHANGED <<pc, call>>,
             \A q \in Requests : Open(q)' => Open(q) /\ request'[q].cost = request[q].cost
      PROVE  CostInv'
  <2>1. \A d \in Calls, q \in Requests : Owns(d, q)' => Open(q)'
    BY DEF PaidInv, OwnersInv
  <2>2. \A d \in Calls, q \in Requests : Owns(d, q)' /\ pc'[d] \in Awaiting =>
           Owns(d, q) /\ pc'[d] = pc[d]
    BY <1>1, <1>2 DEF Owns
  <2> QED BY <1>2, <2>1, <2>2, CostStays
<1>3. ASSUME NEW r \in Requests, NEW charged \in Nat, NEW answer, Settled(r, charged, answer)
      PROVE  \A q \in Requests : Open(q)' => Open(q) /\ request'[q].cost = request[q].cost
  BY <1>3, SettledEffect DEF OthersSame, Open
<1>4. CASE UNCHANGED request /\ (pc'[c] \notin Awaiting \/ UNCHANGED <<pc, call>>)
  BY <1>2, <1>4 DEF Open
<1>5. CASE AccountStep(c)
  <2>1. ASSUME NEW r \in Requests, Recover(c, r) PROVE CostInv'
    <3>1. PICK charged \in Nat : Settled(r, charged, "error")
      BY <2>1 DEF Recover, MoneyInv, RequestRow
    <3> QED BY <1>2, <1>3, <2>1, <3>1 DEF Recover
  <2>2. CASE View(c) \/ AdminAccount(c) \/ SaveAccess(c) \/ SaveCredit(c) \/ RefuseCredit(c)
    BY <1>4, <2>2 DEF View, AdminAccount, SaveAccess, SaveCredit, RefuseCredit, Goto, Return,
                      db, Awaiting
  <2> QED BY <1>5, <2>1, <2>2 DEF AccountStep
<1>6. CASE CreateStep(c)
  BY <1>4, <1>6 DEF CreateStep, RefuseAccess, CreateAllowed, RefuseDefense, AcceptDefense,
                    FindExisting, RefuseContext, InsertConflict, InsertSession, Goto, Return,
                    db, Awaiting
<1>7. CASE ReserveTurn(c)
  <2>1. PICK r \in Requests : call[c].request = r
    BY <1>7, SendRow DEF ReserveTurn, Sending
  <2>2. /\ request[r].status = "none" /\ OthersSame(r) /\ request'[r].cost = 0
        /\ UNCHANGED call /\ pc'[c] = "tutor"
    BY <1>7, <2>1, ReserveEffect, ZenonT(30) DEF ReserveTurn, Await
  <2>3. \A q \in Requests : Open(q)' => request'[q].cost <= Reserve
    BY <2>2, ConstantsAssumption DEF OthersSame, CostInv, Open
  <2>4. ASSUME NEW d \in Calls, NEW q \in Requests, Owns(d, q)'
        PROVE  /\ pc'[d] = "tutor" => request'[q].cost = 0
               /\ pc'[d] = "guard" => request'[q].cost \in TutorCosts
    <3>1. CASE d = c
      BY <2>1, <2>2, <2>4, <3>1 DEF Owns
    <3>2. CASE d # c
      <4>1. Owns(d, q) /\ pc'[d] = pc[d]
        BY <1>1, <2>4, <3>2 DEF Owns
      <4>2. q # r
        BY <2>2, <4>1 DEF PaidInv, OwnersInv, Open
      <4> QED BY <2>2, <4>1, <4>2 DEF OthersSame, CostInv
    <3> QED BY <3>1, <3>2
  <2> QED BY <2>3, <2>4 DEF CostInv
<1>8. CASE TutorDrafts(c) \/ ModelFails(c) \/ GuardAllows(c) \/ GuardRefuses(c)
  <2>1. PICK r \in Requests : call[c].request = r
    BY <1>8, SendRow DEF TutorDrafts, ModelFails, GuardAllows, GuardRefuses, Sending, Turn,
                         Awaiting
  <2>2. pc[c] \in Awaiting
    BY <1>8 DEF TutorDrafts, ModelFails, GuardAllows, GuardRefuses, Awaiting
  <2>3. call'[c].request = r
    <3>1. pc'[c] # "idle"
      BY <1>8 DEF TutorDrafts, ModelFails, GuardAllows, GuardRefuses, Resume
    <3> QED BY <2>1, <3>1, ArgsKept DEF SameArgs
  <2>4. CASE TutorDrafts(c)
    <3>1. PICK cost \in TutorCosts : Charge(c, cost, "received") /\ pc' = [pc EXCEPT ![c] = "guard"]
      BY <2>4, Zenon DEF TutorDrafts
    <3>2. Owns(c, r) /\ pc[c] = "tutor"
      BY <2>1, <2>4 DEF TutorDrafts, Owns, Turn, Awaiting
    <3>3. request[r].cost + cost = cost /\ cost <= Reserve
      BY <3>1, <3>2, ConstantsAssumption DEF CostInv, ReserveCovers
    <3> QED BY <1>1, <2>1, <2>2, <2>3, <3>1, <3>3, CostGrows
  <2>5. CASE ModelFails(c) \/ GuardAllows(c) \/ GuardRefuses(c)
    <3>1. PICK cost \in IF pc[c] = "tutor" THEN TutorCosts ELSE GuardCosts,
               outcome \in {"uncertain", "received"} :
                  Charge(c, cost, outcome) /\ pc'[c] \notin Awaiting
      BY <2>5 DEF ModelFails, GuardAllows, GuardRefuses, Resume, Awaiting
    <3>2. request[r].cost + cost <= Reserve
      BY <2>1, <2>2, <3>1, ModelCost
    <3> QED BY <1>1, <2>1, <2>2, <2>3, <3>1, <3>2, CostGrows
  <2> QED BY <1>8, <2>4, <2>5
<1>9. CASE Block(c) \/ Deliver(c)
  <2>1. PICK r \in Requests : call[c].request = r
    BY <1>9, SendRow DEF Block, Deliver, Sending, Turn
  <2>2. PICK outcome : Notes(r, outcome)
    BY <1>9, <2>1, NotesOutcome
  <2>3. SameHold(request'[r], request[r]) /\ OthersSame(r) /\ request'[r].cost = request[r].cost
    BY <2>1, <2>2, OutcomeEffect
  <2>4. pc'[c] \notin Awaiting
    BY <1>9 DEF Block, Deliver, Goto, Awaiting
  <2> QED BY <1>2, <2>3, <2>4 DEF SameHold, OthersSame, Open
<1>10. CASE Settle(c)
  <2>1. pc'[c] \notin Awaiting /\ call[c].request \in Requests
    BY <1>10, SendRow DEF Settle, Goto, Return, Awaiting, Sending, Turn
  <2>2. request[call[c].request].cost \in Nat
    BY <2>1 DEF MoneyInv, RequestRow
  <2> QED BY <1>2, <1>3, <1>4, <1>10, <2>1, <2>2 DEF Settle
<1>11. CASE \/ FirstUse(c) \/ Replay(c) \/ RefuseReplay(c) \/ SendAllowed(c) \/ Prepare(c)
            \/ RefuseTurn(c) \/ RefuseBusy(c) \/ ReserveFails(c) \/ Unlock(c)
            \/ Revoked(c) \/ StillEnabled(c) \/ ReadEvidence(c)
  BY <1>4, <1>11 DEF FirstUse, Replay, RefuseReplay, SendAllowed, Prepare, RefuseTurn, RefuseBusy,
                 ReserveFails, Unlock, Revoked, StillEnabled, ReadEvidence, Goto, Return, db,
                 Awaiting
<1> QED BY <1>5, <1>6, <1>7, <1>8, <1>9, <1>10, <1>11 DEF Step, SendStep

LEMMA CoveredStep ==
    ASSUME ReserveCovers
    PROVE  TypeInv /\ PaidInv /\ CoveredInv /\ [Next]_vars => CoveredInv'
<1> SUFFICES ASSUME TypeInv, PaidInv, CoveredInv, [Next]_vars PROVE CoveredInv'
  OBVIOUS
<1> USE DEF TypeInv, ControlInv
<1>1. PaidInv' /\ HeldInv' /\ account'.balance >= account'.reserved
  BY PaidInvStep, HeldStep
<1>2. ASSUME NEW c \in Calls, NEW w \in Workers, Student(c, w) \/ Admin(c, w) PROVE CostInv'
  <2>1. pc'[c] \notin Awaiting /\ UNCHANGED request
    BY <1>2, Arrivals DEF Awaiting, db
  <2>2. \A d \in Calls \ {c} : pc'[d] = pc[d] /\ call'[d] = call[d]
    BY <1>2, OthersStay
  <2>3. \A d \in Calls, q \in Requests : Owns(d, q)' /\ pc'[d] \in Awaiting =>
           Owns(d, q) /\ pc'[d] = pc[d]
    BY <2>1, <2>2 DEF Owns
  <2> QED BY <2>1, <2>3, CostStays DEF Open, CoveredInv
<1>3. ASSUME NEW w \in Workers, Crash(w) PROVE CostInv'
  <2>1. \A d \in Calls : (pc'[d] = pc[d] /\ call'[d] = call[d]) \/ pc'[d] = "idle"
    BY <1>3 DEF Crash
  <2>2. \A d \in Calls, q \in Requests : Owns(d, q)' /\ pc'[d] \in Awaiting =>
           Owns(d, q) /\ pc'[d] = pc[d]
    BY <2>1 DEF Owns, Awaiting
  <2> QED BY <1>3, <2>2, CostStays DEF Open, CoveredInv, Crash, db
<1>4. ASSUME NEW r \in Requests, TenMinutes(r) PROVE CostInv'
  <2>1. request' = [request EXCEPT ![r] = [request[r] EXCEPT !.old = TRUE]]
        /\ request[r].status = "running" /\ UNCHANGED <<pc, call>>
    BY <1>4, Zenon DEF TenMinutes
  <2>2. [request[r] EXCEPT !.old = TRUE].cost = request[r].cost
    BY DEF MoneyInv, RequestRow
  <2>3. \A q \in Requests : request'[q].cost = request[q].cost /\ (Open(q)' => Open(q))
    BY <2>1, <2>2 DEF MoneyInv, Open
  <2> QED BY <2>1, <2>3, CostStays DEF CoveredInv, Owns
<1>5. ASSUME UNCHANGED <<request, pc, call>> PROVE CostInv'
  BY <1>5 DEF CoveredInv, CostInv, Open, Owns
<1>6. CostInv'
  BY <1>1, <1>2, <1>3, <1>4, <1>5, StepCost
     DEF Next, RecordSubmission, vars, db, CoveredInv
<1> QED BY <1>1, <1>6 DEF CoveredInv

\* Parallel turns on any number of workers never spend more than the student
\* has, as long as the two model calls of a turn cost no more than what
\* send_message reserved for them.
THEOREM WalletNeverOverdrawn ==
    ASSUME ReserveCovers
    PROVE  Spec => []NoOverdraft
<1>1. TypeInv /\ CoveredInv => NoOverdraft
  BY ConstantsAssumption, FS_CardinalityType
     DEF CoveredInv, HeldInv, NoOverdraft, TypeInv, MoneyInv, AccountRow
<1>2. TypeInv /\ PaidInv /\ CoveredInv /\ [Next]_vars => CoveredInv'
  BY CoveredStep
<1> QED BY <1>1, <1>2, PaidHolds, CoveredInit, PTL DEF Spec

-----------------------------------------------------------------------------
(* The wallet that is implemented.                                           *)

\* A credit that is being booked is one an administrator sent.
CreditInv == \A c \in Calls :
    /\ call[c].op = "credit" => call[c].credit \in CreditIds /\ call[c].amount \in Amounts
    /\ pc[c] = "credit" => call[c].op = "credit"

LEMMA CreditInvInit == Init => CreditInv
BY DEF Init, CreditInv, NoArgs

LEMMA CreditInvStep == TypeInv /\ CreditInv /\ [Next]_vars => CreditInv'
<1> SUFFICES ASSUME TypeInv, CreditInv, [Next]_vars PROVE CreditInv'
  OBVIOUS
<1> USE DEF TypeInv, ControlInv
<1>1. ASSUME NEW c \in Calls, NEW w \in Workers, Student(c, w) \/ Admin(c, w)
      PROVE  CreditInv'
  BY <1>1, Arrivals, OthersStay DEF CreditInv, Brought
<1>2. ASSUME NEW c \in Calls, Step(c) PROVE CreditInv'
  <2>1. \A d \in Calls \ {c} : pc'[d] = pc[d] /\ call'[d] = call[d]
    BY <1>2, OthersStay
  <2>2. CASE pc'[c] = "idle"
    <3>1. call'[c].op # "credit" \/ call'[c] = call[c]
      <4>1. Moves(c)
        BY <1>2, StepMoves
      <4>2. pc[c] # "idle" \/ UNCHANGED call
        BY <1>2, <4>1, <2>2 DEF Moves, Arrive, Resume, Running, Turn, Awaiting
      <4>3. CASE UNCHANGED call
        BY <4>3
      <4>4. CASE pc[c] # "idle" /\ Return(c)
        BY <4>4 DEF Return, NoArgs, CallsInv
      <4>5. Return(c) \/ UNCHANGED call
        BY <4>1, <4>2, <2>2 DEF Moves, Arrive, Resume, Await, Goto, Running, Turn, Awaiting
      <4> QED BY <4>2, <4>3, <4>4, <4>5
    <3> QED BY <2>1, <2>2, <3>1 DEF CreditInv
  <2>3. CASE pc'[c] # "idle"
    <3>1. SameArgs(call'[c], call[c])
      BY <1>2, <2>3, ArgsKept
    <3>2. pc'[c] = "credit" => call[c].op = "credit"
      <4>1. CASE AccountStep(c)
        BY <4>1 DEF AccountStep, Recover, View, AdminAccount, SaveAccess, SaveCredit,
                    RefuseCredit, Goto, Return, CreditInv
      <4>2. CASE CreateStep(c)
        BY <4>2 DEF CreateStep, RefuseAccess, CreateAllowed, RefuseDefense, AcceptDefense,
                    FindExisting, RefuseContext, InsertConflict, InsertSession, Goto, Return
      <4>3. CASE SendStep(c)
        BY <4>3 DEF SendStep, FirstUse, Replay, RefuseReplay, SendAllowed, Prepare, RefuseTurn,
              ReserveTurn, RefuseBusy, ReserveFails, Unlock, TutorDrafts, ModelFails, GuardAllows,
              GuardRefuses, Block, Revoked, StillEnabled, ReadEvidence, Deliver, Settle,
              Goto, Return, Await, Resume
      <4> QED BY <1>2, <4>1, <4>2, <4>3 DEF Step
    <3> QED BY <2>1, <3>1, <3>2 DEF CreditInv, SameArgs
  <2> QED BY <2>2, <2>3
<1>3. ASSUME NEW w \in Workers, Crash(w) PROVE CreditInv'
  BY <1>3 DEF Crash, CreditInv, NoArgs
<1>4. CASE UNCHANGED <<pc, call>>
  BY <1>4 DEF CreditInv
<1> QED BY <1>1, <1>2, <1>3, <1>4 DEF Next, RecordSubmission, TenMinutes, vars

\* The abstract hold of a request.
Hold(row) == CASE row.status = "none" -> "new"
               [] row.status = "running" -> "open"
               [] row.status = "done" -> "closed"

LEMMA HoldIs ==
    ASSUME NEW row \in RequestRow
    PROVE  /\ row.status = "none" => Hold(row) = "new"
           /\ row.status = "running" => Hold(row) = "open"
           /\ row.status = "done" => Hold(row) = "closed"
<1>1. row.status = "none" => Hold(row) = "new"
  BY DEF Hold
<1>2. row.status = "running" => Hold(row) = "open"
  BY DEF Hold
<1>3. row.status = "done" => Hold(row) = "closed"
  BY DEF Hold
<1> QED BY <1>1, <1>2, <1>3

\* One request's hold becomes another one, the others stay.
LEMMA HoldMoves ==
    ASSUME TypeInv, TypeInv', NEW r \in Requests, OthersSame(r)
    PROVE  [q \in Requests |-> Hold(request'[q])]
              = [[q \in Requests |-> Hold(request[q])] EXCEPT ![r] = Hold(request'[r])]
BY DEF OthersSame

LEMMA WalletInit == Init => WalletOf!Init
<1> SUFFICES ASSUME Init PROVE WalletOf!Init
  OBVIOUS
<1>1. \A r \in Requests : request[r].status = "none"
  BY DEF Init, NoRequest
<1> QED BY <1>1 DEF Init, WalletOf!Init

LEMMA WalletStep ==
    ASSUME TypeInv, PaidInv, CreditInv, [Next]_vars
    PROVE  [WalletOf!Next]_(WalletOf!vars)
<1> DEFINE hold == [r \in Requests |-> Hold(request[r])]
<1>1. TypeInv'
  BY TypeInvStep
<1>2. CASE UNCHANGED <<account, credited>> /\ \A r \in Requests : Kept(r)
  <2>1. hold' = hold
    <3>1. \A r \in Requests : Hold(request'[r]) = Hold(request[r])
      BY <1>1, <1>2, HoldIs DEF Kept, TypeInv, MoneyInv, RequestRow
    <3> QED BY <3>1
  <2> QED BY <1>2, <2>1 DEF WalletOf!vars, Hold
<1>3. ASSUME NEW c \in Calls, ReserveTurn(c) PROVE WalletOf!Next
  <2>1. PICK r \in Requests : call[c].request = r
    BY <1>3, SendRow DEF ReserveTurn, Sending, TypeInv
  <2>2. /\ request[r].status = "none" /\ OthersSame(r) /\ request'[r].status = "running"
        /\ account'.reserved = account.reserved + Reserve
        /\ account'.balance = account.balance /\ account'.enabled = account.enabled
        /\ account'.spent = account.spent
        /\ account.enabled /\ account.balance - account.reserved >= Reserve
    BY <1>3, <2>1, ReserveEffect
  <2>3. UNCHANGED credited
    BY <1>3 DEF ReserveTurn
  <2>4. hold[r] = "new" /\ hold' = [hold EXCEPT ![r] = "open"]
    <3>1. Hold(request[r]) = "new" /\ Hold(request'[r]) = "open"
      BY <1>1, <2>2, HoldIs DEF TypeInv, MoneyInv
    <3> QED BY <1>1, <2>2, <3>1, HoldMoves
  <2>5. WalletOf!Hold(r)
    BY <2>2, <2>3, <2>4 DEF WalletOf!Hold, Hold
  <2> QED BY <2>5 DEF WalletOf!Next
<1>4. ASSUME NEW r \in Requests, NEW charged \in Nat, NEW answer \in {"ok", "error"},
             Open(r), Settled(r, charged, answer), UNCHANGED credited
      PROVE  WalletOf!Next
  <2>1. /\ request'[r].status = "done" /\ OthersSame(r)
        /\ account'.balance = account.balance - charged
        /\ account'.spent = account.spent + charged
        /\ account'.reserved = account.reserved - request[r].reserved
        /\ account'.enabled = account.enabled
    BY <1>4, SettledEffect
  <2>2. request[r].reserved = Reserve
    BY <1>4 DEF PaidInv, HoldsInv
  <2>3. hold[r] = "open" /\ hold' = [hold EXCEPT ![r] = "closed"]
    <3>1. Hold(request[r]) = "open" /\ Hold(request'[r]) = "closed"
      BY <1>1, <1>4, <2>1, HoldIs DEF TypeInv, MoneyInv, Open
    <3> QED BY <1>1, <2>1, <3>1, HoldMoves
  <2>4. /\ account'.balance \in Int /\ account'.balance <= account.balance
        /\ account'.spent = account.spent + (account.balance - account'.balance)
    BY <2>1 DEF TypeInv, MoneyInv, AccountRow
  <2>5. WalletOf!Close(r)
    BY <1>4, <2>1, <2>2, <2>3, <2>4 DEF WalletOf!Close, Hold
  <2> QED BY <2>5 DEF WalletOf!Next
<1>5. ASSUME NEW c \in Calls, SaveCredit(c) PROVE [WalletOf!Next]_(WalletOf!vars)
  <2>1. /\ account'.reserved = account.reserved /\ account'.spent = account.spent
        /\ account'.enabled = account.enabled /\ UNCHANGED request
        /\ \/ UNCHANGED <<account, credited>>
           \/ /\ credited[call[c].credit] = 0
              /\ credited' = [credited EXCEPT ![call[c].credit] = call[c].amount]
              /\ account'.balance = account.balance + call[c].amount
    BY <1>5, CreditEffect
  <2>2. call[c].credit \in CreditIds /\ call[c].amount \in Amounts
    BY <1>5 DEF SaveCredit, CreditInv
  <2>3. CASE UNCHANGED <<account, credited>>
    BY <2>1, <2>3 DEF WalletOf!vars
  <2>4. CASE ~UNCHANGED <<account, credited>>
    <3>1. WalletOf!Credit(call[c].credit, call[c].amount)
      BY <2>1, <2>4 DEF WalletOf!Credit
    <3> QED BY <2>2, <3>1 DEF WalletOf!Next
  <2> QED BY <2>3, <2>4
<1>6. ASSUME NEW c \in Calls, SaveAccess(c) PROVE WalletOf!Next
  <2>1. WalletOf!SetAccess
    <3>1. /\ account'.balance = account.balance /\ account'.reserved = account.reserved
          /\ account'.spent = account.spent /\ account'.enabled \in BOOLEAN
          /\ UNCHANGED <<credited, request>>
      BY <1>6, AccessEffect
    <3> QED BY <3>1 DEF WalletOf!SetAccess
  <2> QED BY <2>1 DEF WalletOf!Next
<1> QED BY <1>2, <1>3, <1>4, <1>5, <1>6, WalletSteps

\* Every step of the tutor is a step of the wallet it promises, or leaves the
\* wallet alone: money moves only by a credit booked once, a hold, and the one
\* settlement of that hold, for any number of workers, calls and crashes.
THEOREM WalletImplemented == Spec => ImplementsWallet
<1>1. TypeInv /\ PaidInv /\ CreditInv /\ [Next]_vars => [WalletOf!Next]_(WalletOf!vars)
  BY WalletStep
<1>2. Spec => WalletOf!Init /\ [][WalletOf!Next]_(WalletOf!vars)
  BY <1>1, WalletInit, PaidHolds, CreditInvInit, CreditInvStep, PTL DEF Spec
<1> QED BY <1>2 DEF ImplementsWallet, WalletOf!Spec

-----------------------------------------------------------------------------
(* Sums.  SumFunctionOnSet is a recursive function of the subsets of a set;  *)
(* what it computes is shown from a smallest set, or a smallest number, of   *)
(* which it would not hold.                                                  *)

LEMMA LeastSubset ==
    ASSUME NEW S, IsFiniteSet(S), NEW bad \in SUBSET SUBSET S, bad # {}
    PROVE  \E s \in bad : \A t \in bad : t \subseteq s => t = s
<1>1. IsWellFoundedOn(StrictSubsetOrdering(S), SUBSET S)
  BY FS_StrictSubsetOrderingWellFounded, FS_FiniteSubsetsOfFinite
<1>2. PICK s \in bad : \A t \in bad : <<t, s>> \notin StrictSubsetOrdering(S)
  BY <1>1, WFMin
<1> QED BY <1>2 DEF StrictSubsetOrdering

LEMMA LeastNumber ==
    ASSUME NEW bad \in SUBSET Nat, bad # {}
    PROVE  \E n \in bad : n = 0 \/ n - 1 \in Nat \ bad
<1>1. PICK n \in bad : \A m \in bad : <<m, n>> \notin OpToRel(<, Nat)
  BY NatLessThanWellFounded, WFMin
<1>2. n = 0 \/ (n - 1 \in Nat /\ n - 1 < n)
  OBVIOUS
<1>3. \A m \in bad : ~(m < n)
  BY <1>1 DEF OpToRel
<1> QED BY <1>2, <1>3

\* One number and the sum of the others.
Add(h, f, s) == IF s = {} THEN 0
                ELSE LET x == CHOOSE x \in s : TRUE IN f[x] + h[s \ {x}]

Sums(h, f, S) == h = [s \in SUBSET S |-> Add(h, f, s)]

LEMMA SumIs ==
    ASSUME NEW f, NEW S
    PROVE  SumFunctionOnSet(f, S) = (CHOOSE h : Sums(h, f, S))[S]
BY DEF SumFunctionOnSet, FoldFunctionOnSet, MapThenFoldSet, Sums, Add

LEMMA AddIs ==
    ASSUME NEW f, NEW s
    PROVE  \/ s = {} /\ \A h : Add(h, f, s) = 0
           \/ \E x \in s : \A h : Add(h, f, s) = f[x] + h[s \ {x}]
<1>1. CASE s = {}
  BY <1>1 DEF Add
<1>2. CASE s # {}
  <2>1. (CHOOSE x \in s : TRUE) \in s
    BY <1>2
  <2> QED BY <1>2, <2>1 DEF Add
<1> QED BY <1>1, <1>2

\* A function that is right about the subsets of at most n elements.
RightUpTo(n, h, f, S) ==
    \A s \in SUBSET S : Cardinality(s) <= n => h[s] = Add(h, f, s)

LEMMA SumsExist ==
    ASSUME NEW S, IsFiniteSet(S), NEW f
    PROVE  \E h : Sums(h, f, S)
<1> DEFINE bad == {n \in Nat : ~\E h : RightUpTo(n, h, f, S)}
<1>1. \A s \in SUBSET S : IsFiniteSet(s) /\ Cardinality(s) \in Nat
                          /\ Cardinality(s) <= Cardinality(S)
  BY FS_Subset, FS_CardinalityType
<1>2. ASSUME NEW n \in Nat, n = 0 \/ n - 1 \in Nat \ bad
      PROVE  \E h : RightUpTo(n, h, f, S)
  <2>1. PICK g : n = 0 \/ RightUpTo(n - 1, g, f, S)
    BY <1>2
  <2> DEFINE h == [s \in SUBSET S |-> Add(g, f, s)]
  <2>2. ASSUME NEW s \in SUBSET S, Cardinality(s) <= n
        PROVE  h[s] = Add(h, f, s)
    <3>1. CASE s = {}
      BY <3>1 DEF Add
    <3>2. CASE s # {}
      <4>1. PICK x \in s : \A k : Add(k, f, s) = f[x] + k[s \ {x}]
        BY <3>2, AddIs
      <4>2. /\ s \ {x} \in SUBSET S /\ Cardinality(s \ {x}) = Cardinality(s) - 1
            /\ Cardinality(s \ {x}) \in Nat /\ Cardinality(s) \in Nat
        BY <1>1, <4>1, FS_RemoveElement
      <4>3. n # 0 /\ Cardinality(s \ {x}) <= n - 1
        BY <2>2, <4>2
      <4>4. g[s \ {x}] = Add(g, f, s \ {x})
        BY <2>1, <4>2, <4>3 DEF RightUpTo
      <4>5. h[s \ {x}] = g[s \ {x}]
        BY <4>2, <4>4
      <4>6. Add(h, f, s) = f[x] + h[s \ {x}] /\ Add(g, f, s) = f[x] + g[s \ {x}]
        BY <4>1
      <4> QED BY <4>5, <4>6
    <3> QED BY <3>1, <3>2
  <2>3. RightUpTo(n, h, f, S)
    BY <2>2 DEF RightUpTo
  <2> QED BY <2>3
<1>3. bad = {}
  <2>1. bad \in SUBSET Nat
    OBVIOUS
  <2> QED BY <1>2, <2>1, LeastNumber
<1>4. PICK g : RightUpTo(Cardinality(S), g, f, S)
  BY <1>1, <1>3
<1> DEFINE h == [s \in SUBSET S |-> g[s]]
<1>5. ASSUME NEW s \in SUBSET S PROVE h[s] = Add(h, f, s)
  <2>1. g[s] = Add(g, f, s)
    BY <1>1, <1>4 DEF RightUpTo
  <2>2. CASE s = {}
    BY <2>1, <2>2 DEF Add
  <2>3. CASE s # {}
    <3>1. PICK x \in s : \A k : Add(k, f, s) = f[x] + k[s \ {x}]
      BY <2>3, AddIs
    <3>2. Add(h, f, s) = f[x] + h[s \ {x}] /\ Add(g, f, s) = f[x] + g[s \ {x}]
      BY <3>1
    <3>3. h[s \ {x}] = g[s \ {x}]
      OBVIOUS
    <3> QED BY <2>1, <3>2, <3>3
  <2> QED BY <2>2, <2>3
<1>6. Sums(h, f, S)
  BY <1>5 DEF Sums
<1> QED BY <1>6

\* In whatever order the numbers are added.
LEMMA SumsAny ==
    ASSUME NEW S, IsFiniteSet(S), NEW f, \A x \in S : f[x] \in Int,
           NEW h, Sums(h, f, S)
    PROVE  \A s \in SUBSET S : /\ h[s] \in Int
                               /\ s = {} => h[s] = 0
                               /\ \A x \in s : h[s] = f[x] + h[s \ {x}]
<1> DEFINE good(s) == /\ h[s] \in Int
                      /\ s = {} => h[s] = 0
                      /\ \A x \in s : h[s] = f[x] + h[s \ {x}]
           bad == {s \in SUBSET S : ~good(s)}
<1>1. \A s \in SUBSET S : h[s] = Add(h, f, s)
  BY DEF Sums
<1>2. ASSUME NEW s \in SUBSET S, \A t \in SUBSET S : t \subseteq s /\ t # s => good(t)
      PROVE  good(s)
  <2>1. CASE s = {}
    <3>1. h[s] = 0
      BY <1>1, <2>1 DEF Add
    <3> QED BY <2>1, <3>1
  <2>2. CASE s # {}
    <3>0. PICK y \in s : \A g : Add(g, f, s) = f[y] + g[s \ {y}]
      BY <2>2, AddIs
    <3>1. h[s] = f[y] + h[s \ {y}]
      BY <1>1, <3>0
    <3>2. good(s \ {y})
      BY <1>2, <3>1
    <3>3. h[s] \in Int
      BY <3>1, <3>2
    <3>4. ASSUME NEW x \in s PROVE h[s] = f[x] + h[s \ {x}]
      <4>1. CASE x = y
        BY <3>1, <4>1
      <4>2. CASE x # y
        <5>1. good(s \ {x})
          BY <1>2, <3>4
        <5>2. x \in s \ {y} /\ y \in s \ {x}
              /\ (s \ {y}) \ {x} = (s \ {x}) \ {y}
          BY <3>1, <3>4, <4>2
        <5>3. good((s \ {x}) \ {y})
          BY <1>2, <3>4
        <5>4. h[s \ {y}] = f[x] + h[(s \ {x}) \ {y}] /\ h[s \ {x}] = f[y] + h[(s \ {x}) \ {y}]
          BY <3>2, <5>1, <5>2
        <5>5. f[x] \in Int /\ f[y] \in Int /\ h[(s \ {x}) \ {y}] \in Int
          BY <3>1, <3>4, <5>3
        <5> QED BY <3>1, <5>4, <5>5
      <4> QED BY <4>1, <4>2
    <3> QED BY <2>2, <3>3, <3>4
  <2> QED BY <2>1, <2>2
<1>3. bad = {}
  <2>1. bad \in SUBSET SUBSET S
    OBVIOUS
  <2>2. ASSUME bad # {} PROVE FALSE
    <3> HIDE DEF bad
    <3>1. PICK s \in bad : \A t \in bad : t \subseteq s => t = s
      BY <2>1, <2>2, LeastSubset
    <3> USE DEF bad
    <3>2. \A t \in SUBSET S : t \subseteq s /\ t # s => good(t)
      BY <3>1
    <3> QED BY <1>2, <3>1, <3>2
  <2> QED BY <2>2
<1> QED BY <1>3

\* Only the numbers of the set matter.
LEMMA SumsAgree ==
    ASSUME NEW S, IsFiniteSet(S), NEW f, NEW g, NEW h, NEW k, NEW T,
           Sums(h, f, S), Sums(k, g, T), S \subseteq T, \A x \in S : f[x] = g[x]
    PROVE  h[S] = k[S]
<1> DEFINE bad == {s \in SUBSET S : h[s] # k[s]}
<1>1. \A s \in SUBSET S : h[s] = Add(h, f, s) /\ k[s] = Add(k, g, s)
  BY DEF Sums
<1>2. ASSUME NEW s \in SUBSET S, \A t \in SUBSET S : t \subseteq s /\ t # s => h[t] = k[t]
      PROVE  h[s] = k[s]
  <2>1. CASE s = {}
    BY <1>1, <2>1 DEF Add
  <2>2. CASE s # {}
    <3> DEFINE x == CHOOSE x \in s : TRUE
    <3>1. x \in s
      BY <2>2
    <3>2. h[s] = f[x] + h[s \ {x}] /\ k[s] = g[x] + k[s \ {x}]
      BY <1>1, <2>2 DEF Add
    <3>3. f[x] = g[x]
      BY <3>1
    <3>4. h[s \ {x}] = k[s \ {x}]
      BY <1>2, <3>1
    <3> HIDE DEF x
    <3> QED BY <3>2, <3>3, <3>4
  <2> QED BY <2>1, <2>2
<1>3. bad = {}
  <2>1. bad \in SUBSET SUBSET S
    OBVIOUS
  <2>2. ASSUME bad # {} PROVE FALSE
    <3> HIDE DEF bad
    <3>1. PICK s \in bad : \A t \in bad : t \subseteq s => t = s
      BY <2>1, <2>2, LeastSubset
    <3> USE DEF bad
    <3>2. \A t \in SUBSET S : t \subseteq s /\ t # s => h[t] = k[t]
      BY <3>1
    <3> QED BY <1>2, <3>1, <3>2
  <2> QED BY <2>2
<1> QED BY <1>3

LEMMA SumSame ==
    ASSUME NEW S, IsFiniteSet(S), NEW f, NEW g, \A x \in S : f[x] = g[x]
    PROVE  SumFunctionOnSet(f, S) = SumFunctionOnSet(g, S)
<1>1. Sums(CHOOSE h : Sums(h, f, S), f, S) /\ Sums(CHOOSE h : Sums(h, g, S), g, S)
  BY SumsExist
<1> QED BY <1>1, SumsAgree, SumIs

LEMMA SumOf ==
    ASSUME NEW S, IsFiniteSet(S), NEW f, \A x \in S : f[x] \in Int
    PROVE  /\ SumFunctionOnSet(f, S) \in Int
           /\ S = {} => SumFunctionOnSet(f, S) = 0
           /\ \A x \in S : SumFunctionOnSet(f, S) = f[x] + SumFunctionOnSet(f, S \ {x})
<1> DEFINE h == CHOOSE h : Sums(h, f, S)
<1>1. Sums(h, f, S)
  BY SumsExist
<1>2. SumFunctionOnSet(f, S) = h[S]
  BY SumIs
<1>3. \A s \in SUBSET S : SumFunctionOnSet(f, s) = h[s]
  <2> TAKE s \in SUBSET S
  <2> DEFINE k == CHOOSE k : Sums(k, f, s)
  <2>1. IsFiniteSet(s)
    BY FS_Subset
  <2>2. Sums(k, f, s)
    BY <2>1, SumsExist
  <2> HIDE DEF h, k
  <2>3. k[s] = h[s]
    BY <1>1, <2>1, <2>2, SumsAgree
  <2> QED BY <2>3, SumIs DEF k
<1> HIDE DEF h
<1>4. \A s \in SUBSET S : /\ h[s] \in Int
                          /\ s = {} => h[s] = 0
                          /\ \A x \in s : h[s] = f[x] + h[s \ {x}]
  BY <1>1, SumsAny
<1> QED BY <1>2, <1>3, <1>4

\* A number changes, comes in or goes out.
LEMMA SumMoves ==
    ASSUME NEW S, IsFiniteSet(S), NEW f, NEW x \in S,
           \A y \in S : f[y] \in Int
    PROVE  /\ SumFunctionOnSet(f, S \ {x}) \in Int
           /\ SumFunctionOnSet(f, S) = f[x] + SumFunctionOnSet(f, S \ {x})
<1>1. IsFiniteSet(S \ {x})
  BY FS_RemoveElement
<1>2. \A y \in S \ {x} : f[y] \in Int
  OBVIOUS
<1> QED BY <1>1, <1>2, SumOf

-----------------------------------------------------------------------------
(* The wallet balances.                                                      *)

Reserved == [r \in Requests |-> request[r].reserved]
Costs == [r \in Requests |-> request[r].cost]
DoneRequests == {r \in Requests : request[r].status = "done"}

\* The three equations of LedgerBalanced.
LEMMA LedgerIs ==
    LedgerBalanced <=>
        /\ account.reserved = SumFunctionOnSet(Reserved, OpenRequests)
        /\ account.balance + account.spent = SumFunctionOnSet(credited, CreditIds)
        /\ account.spent = SumFunctionOnSet(Costs, DoneRequests)
BY DEF LedgerBalanced, Reserved, Costs, OpenRequests, DoneRequests

LEMMA SumZero ==
    ASSUME NEW S, IsFiniteSet(S), NEW f, \A x \in S : f[x] = 0
    PROVE  SumFunctionOnSet(f, S) = 0
<1> DEFINE bad == {s \in SUBSET S : SumFunctionOnSet(f, s) # 0}
<1>1. ASSUME bad # {} PROVE FALSE
  <2>1. bad \in SUBSET SUBSET S
    OBVIOUS
  <2> HIDE DEF bad
  <2>2. PICK s \in bad : \A t \in bad : t \subseteq s => t = s
    BY <1>1, <2>1, LeastSubset
  <2> USE DEF bad
  <2>3. IsFiniteSet(s) /\ \A x \in s : f[x] \in Int /\ f[x] = 0
    BY FS_Subset
  <2>4. PICK x \in s : TRUE
    BY <2>3, SumOf
  <2>5. SumFunctionOnSet(f, s \ {x}) = 0
    BY <2>2
  <2> QED BY <2>3, <2>4, <2>5, SumMoves
<1> QED BY <1>1

LEMMA LedgerInit ==
    ASSUME IsFiniteSet(Requests), IsFiniteSet(CreditIds), Init
    PROVE  LedgerBalanced
<1>1. OpenRequests = {} /\ DoneRequests = {}
  BY DEF Init, NoRequest, OpenRequests, DoneRequests, Open
<1>2. \A f : SumFunctionOnSet(f, {}) = 0
  BY FS_EmptySet, SumOf
<1>3. SumFunctionOnSet(credited, CreditIds) = 0
  BY SumZero DEF Init
<1>4. account.reserved = 0 /\ account.balance = 0 /\ account.spent = 0
  BY DEF Init
<1> QED BY <1>1, <1>2, <1>3, <1>4, LedgerIs

\* The rows as the sums see them.
LEMMA LedgerRows ==
    ASSUME TypeInv, IsFiniteSet(Requests)
    PROVE  /\ IsFiniteSet(OpenRequests) /\ IsFiniteSet(DoneRequests)
           /\ \A r \in Requests : /\ Reserved[r] = request[r].reserved /\ Reserved[r] \in Int
                                  /\ Costs[r] = request[r].cost /\ Costs[r] \in Int
           /\ credited \in [CreditIds -> Nat]
           /\ account.reserved \in Int /\ account.balance \in Int /\ account.spent \in Int
<1>1. OpenRequests \subseteq Requests /\ DoneRequests \subseteq Requests
  BY DEF OpenRequests, DoneRequests
<1>2. IsFiniteSet(OpenRequests) /\ IsFiniteSet(DoneRequests)
  BY <1>1, FS_Subset
<1> QED BY <1>2 DEF Reserved, Costs, TypeInv, MoneyInv, RequestRow, AccountRow

\* A turn begins: one more hold.
LEMMA LedgerReserve ==
    ASSUME TypeInv, TypeInv', IsFiniteSet(Requests), LedgerBalanced,
           NEW c \in Calls, ReserveTurn(c)
    PROVE  LedgerBalanced'
<1>1. PICK r \in Requests : call[c].request = r
  BY SendRow DEF ReserveTurn, Sending, TypeInv
<1>2. /\ request[r].status = "none" /\ OthersSame(r) /\ request'[r].status = "running"
      /\ request'[r].reserved = Reserve
      /\ account'.reserved = account.reserved + Reserve
      /\ account'.balance = account.balance /\ account'.spent = account.spent
      /\ UNCHANGED credited
  BY <1>1, ReserveEffect DEF ReserveTurn
<1>3. OpenRequests' = OpenRequests \cup {r} /\ r \notin OpenRequests
      /\ DoneRequests' = DoneRequests /\ r \notin DoneRequests
  BY <1>2 DEF OpenRequests, DoneRequests, Open, OthersSame
<1>4. \A q \in Requests \ {r} : Reserved'[q] = Reserved[q] /\ Costs'[q] = Costs[q]
  BY <1>2 DEF Reserved, Costs, OthersSame
<1>5. Reserved'[r] = Reserve
  BY <1>2 DEF Reserved
<1>6. SumFunctionOnSet(Reserved', OpenRequests') = Reserve + SumFunctionOnSet(Reserved, OpenRequests)
  <2>1. IsFiniteSet(OpenRequests') /\ r \in OpenRequests'
        /\ \A q \in OpenRequests' : Reserved'[q] \in Int
    <3>1. IsFiniteSet(OpenRequests) /\ \A q \in Requests : Reserved[q] \in Int
      BY LedgerRows
    <3>2. IsFiniteSet(OpenRequests')
      BY <1>3, <3>1, FS_AddElement
    <3> QED BY <1>3, <1>4, <1>5, <3>1, <3>2, ConstantsAssumption DEF OpenRequests
  <2>2. SumFunctionOnSet(Reserved', OpenRequests')
          = Reserve + SumFunctionOnSet(Reserved', OpenRequests' \ {r})
    BY <1>5, <2>1, SumMoves
  <2>3. OpenRequests' \ {r} = OpenRequests
    BY <1>3
  <2>4. SumFunctionOnSet(Reserved', OpenRequests) = SumFunctionOnSet(Reserved, OpenRequests)
    <3>1. \A q \in OpenRequests : Reserved'[q] = Reserved[q]
      BY <1>3, <1>4 DEF OpenRequests
    <3> QED BY <3>1, LedgerRows, SumSame
  <2> QED BY <2>2, <2>3, <2>4
<1>7. SumFunctionOnSet(Costs', DoneRequests') = SumFunctionOnSet(Costs, DoneRequests)
  <2>1. \A q \in DoneRequests : Costs'[q] = Costs[q]
    BY <1>3, <1>4 DEF DoneRequests
  <2> QED BY <1>3, <2>1, LedgerRows, SumSame
<1>8. /\ account.reserved = SumFunctionOnSet(Reserved, OpenRequests)
      /\ account.balance + account.spent = SumFunctionOnSet(credited, CreditIds)
      /\ account.spent = SumFunctionOnSet(Costs, DoneRequests)
  BY LedgerIs
<1>9. account'.reserved = SumFunctionOnSet(Reserved', OpenRequests')
  BY <1>2, <1>6, <1>8, LedgerRows, ConstantsAssumption
<1>10. /\ account'.balance + account'.spent = SumFunctionOnSet(credited', CreditIds)
       /\ account'.spent = SumFunctionOnSet(Costs', DoneRequests')
  BY <1>2, <1>7, <1>8
<1> QED BY <1>9, <1>10 DEF LedgerBalanced, Reserved, Costs, OpenRequests, DoneRequests

\* A turn is settled: its hold goes, its cost comes in.
LEMMA LedgerSettled ==
    ASSUME TypeInv, TypeInv', IsFiniteSet(Requests), LedgerBalanced,
           NEW r \in Requests, NEW charged \in Nat, NEW answer,
           Open(r), Settled(r, charged, answer), UNCHANGED credited
    PROVE  LedgerBalanced'
<1>1. /\ request'[r].status = "done" /\ OthersSame(r) /\ request'[r].cost = charged
      /\ account'.balance = account.balance - charged
      /\ account'.spent = account.spent + charged
      /\ account'.reserved = account.reserved - request[r].reserved
  <2>1. request'[r].cost = charged
    BY DEF Settled, TypeInv, MoneyInv, RequestRow
  <2> QED BY <2>1, SettledEffect
<1>2. OpenRequests' = OpenRequests \ {r} /\ r \in OpenRequests
      /\ DoneRequests' = DoneRequests \cup {r} /\ r \notin DoneRequests
  BY <1>1 DEF OpenRequests, DoneRequests, Open, OthersSame
<1>3. \A q \in Requests \ {r} : Reserved'[q] = Reserved[q] /\ Costs'[q] = Costs[q]
  BY <1>1 DEF Reserved, Costs, OthersSame
<1>4. Costs'[r] = charged /\ Reserved[r] = request[r].reserved /\ Reserved[r] \in Int
  BY <1>1, LedgerRows DEF Costs
<1>5. /\ SumFunctionOnSet(Reserved, OpenRequests)
            = request[r].reserved + SumFunctionOnSet(Reserved', OpenRequests')
      /\ SumFunctionOnSet(Reserved', OpenRequests') \in Int
  <2>1. \A q \in OpenRequests : Reserved[q] \in Int
    BY LedgerRows DEF OpenRequests
  <2>2. /\ SumFunctionOnSet(Reserved, OpenRequests)
              = request[r].reserved + SumFunctionOnSet(Reserved, OpenRequests \ {r})
        /\ SumFunctionOnSet(Reserved, OpenRequests \ {r}) \in Int
    BY <1>2, <1>4, <2>1, LedgerRows, SumMoves
  <2>3. SumFunctionOnSet(Reserved', OpenRequests \ {r})
          = SumFunctionOnSet(Reserved, OpenRequests \ {r})
    <3>1. \A q \in OpenRequests \ {r} : Reserved'[q] = Reserved[q]
      BY <1>3 DEF OpenRequests
    <3>2. IsFiniteSet(OpenRequests \ {r})
      BY LedgerRows, FS_RemoveElement
    <3> QED BY <3>1, <3>2, SumSame
  <2> QED BY <1>2, <2>2, <2>3
<1>6. SumFunctionOnSet(Costs', DoneRequests') = charged + SumFunctionOnSet(Costs, DoneRequests)
  <2>1. IsFiniteSet(DoneRequests') /\ r \in DoneRequests'
        /\ \A q \in DoneRequests' : Costs'[q] \in Int
    <3>1. IsFiniteSet(DoneRequests) /\ \A q \in Requests : Costs[q] \in Int
      BY LedgerRows
    <3>2. IsFiniteSet(DoneRequests')
      BY <1>2, <3>1, FS_AddElement
    <3> QED BY <1>2, <1>3, <1>4, <3>1, <3>2 DEF DoneRequests
  <2>2. SumFunctionOnSet(Costs', DoneRequests')
          = charged + SumFunctionOnSet(Costs', DoneRequests' \ {r})
    BY <1>4, <2>1, SumMoves
  <2>3. DoneRequests' \ {r} = DoneRequests
    BY <1>2
  <2>4. SumFunctionOnSet(Costs', DoneRequests) = SumFunctionOnSet(Costs, DoneRequests)
    <3>1. \A q \in DoneRequests : Costs'[q] = Costs[q]
      BY <1>2, <1>3 DEF DoneRequests
    <3> QED BY <3>1, LedgerRows, SumSame
  <2> QED BY <2>2, <2>3, <2>4
<1>7. /\ account.reserved = SumFunctionOnSet(Reserved, OpenRequests)
      /\ account.balance + account.spent = SumFunctionOnSet(credited, CreditIds)
      /\ account.spent = SumFunctionOnSet(Costs, DoneRequests)
  BY LedgerIs
<1>8. request[r].reserved \in Int /\ account.balance \in Int /\ account.spent \in Int
  BY <1>4, LedgerRows
<1>9. account'.reserved = SumFunctionOnSet(Reserved', OpenRequests')
  BY <1>1, <1>5, <1>7, <1>8
<1>10. account'.spent = SumFunctionOnSet(Costs', DoneRequests')
  BY <1>1, <1>6, <1>7, <1>8
<1>11. account'.balance + account'.spent = SumFunctionOnSet(credited', CreditIds)
  BY <1>1, <1>7, <1>8
<1> QED BY <1>9, <1>10, <1>11 DEF LedgerBalanced, Reserved, Costs, OpenRequests, DoneRequests

\* A step that moves no money, or money between no requests.
LEMMA LedgerKept ==
    ASSUME TypeInv, TypeInv', IsFiniteSet(Requests), LedgerBalanced,
           \A r \in Requests : Kept(r),
           account'.reserved = account.reserved, account'.spent = account.spent,
           account'.balance + account'.spent = SumFunctionOnSet(credited', CreditIds)
    PROVE  LedgerBalanced'
<1>1. OpenRequests' = OpenRequests /\ DoneRequests' = DoneRequests
  BY DEF Kept, OpenRequests, DoneRequests, Open
<1>2. \A q \in OpenRequests : Reserved'[q] = Reserved[q]
  BY DEF Kept, OpenRequests, Reserved
<1>3. \A q \in DoneRequests : Costs'[q] = Costs[q]
  BY DEF Kept, DoneRequests, Costs
<1>4. /\ SumFunctionOnSet(Reserved', OpenRequests) = SumFunctionOnSet(Reserved, OpenRequests)
      /\ SumFunctionOnSet(Costs', DoneRequests) = SumFunctionOnSet(Costs, DoneRequests)
  BY <1>2, <1>3, LedgerRows, SumSame
<1>5. /\ account.reserved = SumFunctionOnSet(Reserved, OpenRequests)
      /\ account.spent = SumFunctionOnSet(Costs, DoneRequests)
  BY LedgerIs
<1> QED BY <1>1, <1>4, <1>5 DEF LedgerBalanced, Reserved, Costs, OpenRequests, DoneRequests

LEMMA LedgerStep ==
    ASSUME IsFiniteSet(Requests), IsFiniteSet(CreditIds),
           TypeInv, PaidInv, CreditInv, LedgerBalanced, [Next]_vars
    PROVE  LedgerBalanced'
<1>1. TypeInv'
  BY TypeInvStep
<1>2. /\ account.balance + account.spent = SumFunctionOnSet(credited, CreditIds)
      /\ credited \in [CreditIds -> Nat]
      /\ account.balance \in Int /\ account.spent \in Int
  BY LedgerIs, LedgerRows
<1>3. CASE UNCHANGED <<account, credited>> /\ \A r \in Requests : Kept(r)
  BY <1>1, <1>2, <1>3, LedgerKept
<1>4. ASSUME NEW c \in Calls, ReserveTurn(c) PROVE LedgerBalanced'
  BY <1>1, <1>4, LedgerReserve
<1>5. ASSUME NEW r \in Requests, NEW charged \in Nat, NEW answer \in {"ok", "error"},
             Open(r), Settled(r, charged, answer), UNCHANGED credited
      PROVE  LedgerBalanced'
  BY <1>1, <1>5, LedgerSettled
<1>6. ASSUME NEW c \in Calls, SaveAccess(c) PROVE LedgerBalanced'
  <2>1. /\ account'.balance = account.balance /\ account'.reserved = account.reserved
        /\ account'.spent = account.spent /\ UNCHANGED <<credited, request>>
    BY <1>6, AccessEffect
  <2>2. \A r \in Requests : Kept(r)
    BY <2>1 DEF Kept
  <2> QED BY <1>1, <1>2, <2>1, <2>2, LedgerKept
<1>7. ASSUME NEW c \in Calls, SaveCredit(c) PROVE LedgerBalanced'
  <2>1. /\ account'.reserved = account.reserved /\ account'.spent = account.spent
        /\ UNCHANGED request
        /\ \/ UNCHANGED <<account, credited>>
           \/ /\ credited[call[c].credit] = 0
              /\ credited' = [credited EXCEPT ![call[c].credit] = call[c].amount]
              /\ account'.balance = account.balance + call[c].amount
    BY <1>7, CreditEffect
  <2>2. \A r \in Requests : Kept(r)
    BY <2>1 DEF Kept
  <2>3. ASSUME NEW i \in CreditIds, NEW amount \in Nat, credited[i] = 0,
               credited' = [credited EXCEPT ![i] = amount]
        PROVE  SumFunctionOnSet(credited', CreditIds)
                 = SumFunctionOnSet(credited, CreditIds) + amount
    <3>1. /\ credited'[i] = amount /\ \A j \in CreditIds \ {i} : credited'[j] = credited[j]
          /\ \A j \in CreditIds : credited'[j] \in Int /\ credited[j] \in Int
      BY <1>2, <2>3
    <3>2. /\ SumFunctionOnSet(credited', CreditIds)
                = credited'[i] + SumFunctionOnSet(credited', CreditIds \ {i})
          /\ SumFunctionOnSet(credited, CreditIds)
                = credited[i] + SumFunctionOnSet(credited, CreditIds \ {i})
          /\ SumFunctionOnSet(credited, CreditIds \ {i}) \in Int
      BY <3>1, SumMoves
    <3>3. SumFunctionOnSet(credited', CreditIds \ {i}) = SumFunctionOnSet(credited, CreditIds \ {i})
      <4>1. IsFiniteSet(CreditIds \ {i})
        BY FS_RemoveElement
      <4> QED BY <3>1, <4>1, SumSame
    <3> QED BY <2>3, <3>1, <3>2, <3>3
  <2>4. call[c].credit \in CreditIds /\ call[c].amount \in Nat
    BY <1>7, ConstantsAssumption DEF SaveCredit, CreditInv
  <2>5. account'.balance + account'.spent = SumFunctionOnSet(credited', CreditIds)
    BY <1>2, <2>1, <2>3, <2>4
  <2> QED BY <1>1, <2>1, <2>2, <2>5, LedgerKept
<1> QED BY <1>3, <1>4, <1>5, <1>6, <1>7, WalletSteps

\* The wallet balances in every state, for any number of workers, calls,
\* crashes and recoveries and any finite number of ids: what is reserved is what
\* the running requests hold, what was credited is there or was spent, and
\* what was spent is what the finished requests cost.
THEOREM WalletBalances ==
    ASSUME IsFiniteSet(Requests), IsFiniteSet(CreditIds)
    PROVE  Spec => []LedgerBalanced
<1>1. TypeInv /\ PaidInv /\ CreditInv /\ LedgerBalanced /\ [Next]_vars => LedgerBalanced'
  BY LedgerStep
<1>2. Init => LedgerBalanced
  BY LedgerInit
<1> QED BY <1>1, <1>2, PaidHolds, CreditInvInit, CreditInvStep, PTL DEF Spec
=============================================================================
