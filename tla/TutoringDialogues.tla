--------------------------- MODULE TutoringDialogues ---------------------------
(* What a defense promises: theorems about Tutoring with one worker process,  *)
(* for every value of the other constants.                                    *)
EXTENDS TutoringProofs, SequenceTheorems

-----------------------------------------------------------------------------
(* One event loop.                                                           *)

\* The call is between two awaits of its handler.
Holding(c) == pc[c] \notin Awaiting \cup {"idle"}

\* While one call holds the only loop, nothing but that call, time and the
\* death of its worker can move.
LEMMA Alone ==
    ASSUME OneWorker, TypeInv, LoopInv, NEW c \in Calls, Holding(c), [Next]_vars
    PROVE  \/ Step(c)
           \/ UNCHANGED db /\ \A d \in Calls : pc'[d] = "idle"
           \/ \E r \in Requests : TenMinutes(r)
           \/ UNCHANGED vars
<1> USE DEF TypeInv, ControlInv
<1>1. PICK w \in Workers : w = call[c].worker /\ loop[w] = c
  BY DEF LoopInv, Holding
<1>2. \A v \in Workers : v = w
  BY DEF OneWorker
<1>3. c # None
  BY ConstantsAssumption
<1>4. ASSUME NEW d \in Calls, NEW v \in Workers, Student(d, v) \/ Admin(d, v) PROVE FALSE
  BY <1>1, <1>2, <1>3, <1>4, Arrivals
<1>5. ASSUME NEW d \in Calls, d # c, Step(d) PROVE FALSE
  <2>1. pc[d] # "idle"
    BY <1>5 DEF Step, AccountStep, Recover, View, AdminAccount, SaveAccess, SaveCredit,
         RefuseCredit, CreateStep, RefuseAccess, CreateAllowed, RefuseDefense, AcceptDefense,
         FindExisting, RefuseContext, InsertConflict, InsertSession, Read, AccountRead,
         SendStep, FirstUse, Replay, RefuseReplay, SendAllowed, Prepare, RefuseTurn,
         ReserveTurn, RefuseBusy, ReserveFails, Unlock, TutorDrafts, ModelFails, GuardAllows,
         GuardRefuses, Block, Revoked, StillEnabled, ReadEvidence, Deliver, Settle, Awaiting
  <2>2. call[d].worker = w
    BY <1>2, <2>1 DEF LoopInv
  <2>3. pc[d] \in Awaiting
    BY <1>1, <1>5, <2>1, <2>2 DEF LoopInv
  <2>4. loop[w] = None
    BY <1>5, <2>2, <2>3
       DEF Step, AccountStep, Recover, View, AdminAccount, SaveAccess, SaveCredit,
         RefuseCredit, CreateStep, RefuseAccess, CreateAllowed, RefuseDefense, AcceptDefense,
         FindExisting, RefuseContext, InsertConflict, InsertSession, Read, AccountRead,
         SendStep, FirstUse, Replay, RefuseReplay, SendAllowed, Prepare, RefuseTurn,
         ReserveTurn, RefuseBusy, ReserveFails, Unlock, TutorDrafts, ModelFails, GuardAllows,
         GuardRefuses, Block, Revoked, StillEnabled, ReadEvidence, Deliver, Settle, Awaiting,
         Resume
  <2> QED BY <1>1, <1>3, <2>4
<1>6. ASSUME NEW v \in Workers, Crash(v)
      PROVE  UNCHANGED db /\ \A d \in Calls : pc'[d] = "idle"
  BY <1>2, <1>6 DEF Crash, LoopInv
<1>7. ASSUME NEW v \in Workers, NEW b \in Submissions, RecordSubmission(v, b) PROVE FALSE
  BY <1>1, <1>2, <1>3, <1>7 DEF RecordSubmission
<1> QED BY <1>4, <1>5, <1>6, <1>7 DEF Next

-----------------------------------------------------------------------------
(* What the steps do to sessions and submissions.                            *)

\* The columns of ai_sessions that only a delivery changes.
Sees(row, seen) ==
    /\ row.status = seen.status /\ row.mode = seen.mode
    /\ row.submission = seen.submission /\ row.stage = seen.stage
    /\ row.retries = seen.retries

\* A step that locks or unlocks dialogues at most.
SameDialogues ==
    /\ \A s \in Sessions : /\ Sees(session'[s], session[s])
                           /\ session'[s].messages = session[s].messages
    /\ UNCHANGED <<submission, fails>>

LEMMA BusySees ==
    ASSUME TypeInv, NEW s, NEW busy, session' = [session EXCEPT ![s].busy = busy],
           UNCHANGED <<submission, fails>>
    PROVE  SameDialogues
<1>1. ASSUME NEW t \in Sessions
      PROVE  Sees(session'[t], session[t]) /\ session'[t].messages = session[t].messages
  <2>1. session[t] \in SessionRow
    BY DEF TypeInv, DialogueInv
  <2>2. session'[t] = session[t] \/ session'[t] = [session[t] EXCEPT !.busy = busy]
    BY DEF TypeInv, DialogueInv
  <2> QED BY <2>1, <2>2 DEF Sees, SessionRow
<1> QED BY <1>1 DEF SameDialogues

LEMMA DialogueSteps ==
    ASSUME TypeInv, [Next]_vars
    PROVE  \/ SameDialogues
           \/ \E w \in Workers, b \in Submissions : RecordSubmission(w, b)
           \/ \E c \in Calls, s \in Sessions : InsertSession(c, s)
           \/ \E c \in Calls : Deliver(c)
<1>1. ASSUME UNCHANGED <<session, submission, fails>> PROVE SameDialogues
  BY <1>1 DEF SameDialogues, Sees
<1>2. ASSUME NEW c \in Calls, NEW w \in Workers, Student(c, w) \/ Admin(c, w)
      PROVE  SameDialogues
  <2>1. UNCHANGED <<session, submission, fails>>
    BY <1>2, Arrivals DEF db
  <2> QED BY <1>1, <2>1
<1>3. ASSUME NEW s, session' = Unlocked(s), UNCHANGED <<submission, fails>>
      PROVE  SameDialogues
  BY <1>3, BusySees DEF Unlocked
<1>4. ASSUME NEW c \in Calls, AccountStep(c) PROVE SameDialogues
  <2>1. ASSUME NEW r \in Requests, Recover(c, r) PROVE SameDialogues
    BY <1>3, <2>1 DEF Recover, Settled
  <2>2. CASE View(c) \/ AdminAccount(c) \/ SaveAccess(c) \/ SaveCredit(c) \/ RefuseCredit(c)
    <3>1. UNCHANGED <<session, submission, fails>>
      BY <2>2 DEF View, AdminAccount, SaveAccess, SaveCredit, RefuseCredit, db
    <3> QED BY <1>1, <3>1
  <2> QED BY <1>4, <2>1, <2>2 DEF AccountStep
<1>5. ASSUME NEW c \in Calls, CreateStep(c), \A s \in Sessions : ~InsertSession(c, s)
      PROVE  SameDialogues
  <2>1. UNCHANGED <<session, submission, fails>>
    BY <1>5 DEF CreateStep, RefuseAccess, CreateAllowed, RefuseDefense, AcceptDefense,
                FindExisting, RefuseContext, InsertConflict, db
  <2> QED BY <1>1, <2>1
<1>6. ASSUME NEW c \in Calls, SendStep(c), ~Deliver(c) PROVE SameDialogues
  <2>1. CASE Settle(c)
    <3>1. CASE request[call[c].request].status = "running"
      BY <1>3, <2>1, <3>1 DEF Settle, Settled
    <3>2. CASE request[call[c].request].status # "running"
      BY <1>1, <2>1, <3>2 DEF Settle
    <3> QED BY <3>1, <3>2
  <2>2. CASE Unlock(c)
    BY <1>3, <2>2 DEF Unlock
  <2>3. CASE ReserveTurn(c)
    BY <2>3, BusySees DEF ReserveTurn
  <2>4. CASE TutorDrafts(c) \/ ModelFails(c) \/ GuardAllows(c) \/ GuardRefuses(c) \/ Block(c)
    <3>1. UNCHANGED <<session, submission, fails>>
      BY <2>4 DEF TutorDrafts, ModelFails, GuardAllows, GuardRefuses, Charge, Block
    <3> QED BY <1>1, <3>1
  <2>5. CASE \/ FirstUse(c) \/ Replay(c) \/ RefuseReplay(c) \/ SendAllowed(c) \/ Prepare(c)
             \/ RefuseTurn(c) \/ RefuseBusy(c) \/ ReserveFails(c)
             \/ Revoked(c) \/ StillEnabled(c) \/ ReadEvidence(c)
    <3>1. UNCHANGED <<session, submission, fails>>
      BY <2>5 DEF FirstUse, Replay, RefuseReplay, SendAllowed, Prepare, RefuseTurn,
                  RefuseBusy, ReserveFails, Revoked, StillEnabled, ReadEvidence, db
    <3> QED BY <1>1, <3>1
  <2> QED BY <1>6, <2>1, <2>2, <2>3, <2>4, <2>5 DEF SendStep
<1>7. ASSUME (\E w \in Workers : Crash(w)) \/ (\E r \in Requests : TenMinutes(r)) \/ UNCHANGED vars
      PROVE  SameDialogues
  <2>1. UNCHANGED <<session, submission, fails>>
    BY <1>7 DEF Crash, TenMinutes, vars, db
  <2> QED BY <1>1, <2>1
<1> QED BY <1>2, <1>4, <1>5, <1>6, <1>7 DEF Next, Step, CreateStep

-----------------------------------------------------------------------------
(* The row that send_message read stays true until the answer is delivered.  *)

Reads(c) == call[c].op = "send" /\ pc[c] \in {"lookup", "account", "prepare", "reserve"}
                                             \cup (Turn \ {"settle"})

SeenInv == \A c \in Calls : Reads(c) =>
    /\ call[c].session \in Sessions /\ call[c].seen.status # "none"
    /\ Sees(session[call[c].session], call[c].seen)

LEMMA ReadsBefore ==
    ASSUME TypeInv, NEW c \in Calls, Step(c), Reads(c)'
    PROVE  Reads(c) /\ SameArgs(call'[c], call[c])
<1> USE DEF TypeInv, ControlInv
<1>1. pc'[c] # "idle"
  BY DEF Reads, Turn, Awaiting
<1>2. SameArgs(call'[c], call[c])
  BY <1>1, ArgsKept
<1>3. pc[c] \in {"lookup", "account", "prepare", "reserve"} \cup (Turn \ {"settle"})
  <2>1. CASE AccountStep(c)
    BY <1>2, <2>1 DEF AccountStep, Recover, View, AdminAccount, SaveAccess, SaveCredit, RefuseCredit,
                Read, Goto, Return, AccountRead, Reads, SameArgs, Turn, Awaiting
  <2>2. CASE CreateStep(c)
    BY <2>2 DEF CreateStep, RefuseAccess, CreateAllowed, RefuseDefense, AcceptDefense,
                FindExisting, RefuseContext, InsertConflict, InsertSession, Goto, Return,
                Reads, Turn, Awaiting
  <2>3. CASE SendStep(c)
    BY <2>3 DEF SendStep, FirstUse, Replay, RefuseReplay, SendAllowed, Prepare, RefuseTurn,
              ReserveTurn, RefuseBusy, ReserveFails, Unlock, TutorDrafts, ModelFails, GuardAllows,
              GuardRefuses, Block, Revoked, StillEnabled, ReadEvidence, Deliver, Settle,
              Goto, Return, Read, Turn, Awaiting, Reads
  <2> QED BY <2>1, <2>2, <2>3 DEF Step
<1> QED BY <1>2, <1>3 DEF Reads, SameArgs

\* Two calls that both go on with the same dialogue are one call.
LEMMA OneReader ==
    ASSUME OneWorker, TurnsInv, PaidInv, NEW c \in Calls, NEW d \in Calls,
           pc[c] \in Turn, Holding(c), Reads(d), call[c].session = call[d].session
    PROVE  c = d
<1> USE DEF TurnsInv, TypeInv
<1>1. CASE Holding(d)
  BY <1>1 DEF OneWorker, LoopInv, Holding
<1>2. CASE ~Holding(d)
  <2>1. pc[d] \in Turn
    BY <1>2 DEF Holding, Reads, Turn, Awaiting
  <2>2. call[c].request \in Requests /\ call[d].request \in Requests
    BY <2>1, SendRow DEF Sending
  <2>3. Owns(c, call[c].request) /\ Owns(d, call[d].request)
    BY <2>1 DEF Owns
  <2>4. /\ Open(call[c].request) /\ Open(call[d].request)
        /\ request[call[c].request].session = request[call[d].request].session
    BY <2>2, <2>3 DEF PaidInv, OwnersInv
  <2>5. call[c].request = call[d].request
    BY <2>2, <2>4 DEF LocksInv, OneTurnAtATime
  <2> QED BY <2>2, <2>3, <2>5 DEF PaidInv, OwnersInv
<1> QED BY <1>1, <1>2

LEMMA SeenInvStep ==
    ASSUME OneWorker, TurnsInv, PaidInv, SeenInv, [Next]_vars
    PROVE  SeenInv'
<1> USE DEF TurnsInv, TypeInv, ControlInv
<1> SUFFICES ASSUME NEW d \in Calls, Reads(d)'
             PROVE  /\ call'[d].session \in Sessions /\ call'[d].seen.status # "none"
                    /\ Sees(session'[call'[d].session], call'[d].seen)
  BY DEF SeenInv
<1>1. CASE \E w \in Workers : Student(d, w) \/ Admin(d, w)
  <2>1. Brought(pc'[d], call'[d]) /\ UNCHANGED db
    BY <1>1, Arrivals
  <2> QED BY <2>1 DEF Brought, Reads, db, Sees
<1>2. CASE ~\E w \in Workers : Student(d, w) \/ Admin(d, w)
  <2>1. Reads(d) /\ SameArgs(call'[d], call[d])
    <3>1. CASE Step(d)
      BY <3>1, ReadsBefore
    <3>2. CASE ~Step(d)
      <4>1. ASSUME NEW w \in Workers, Crash(w) PROVE pc'[d] = pc[d] /\ call'[d] = call[d]
        BY <4>1 DEF Crash, Reads, Turn, Awaiting
      <4>2. pc'[d] = pc[d] /\ call'[d] = call[d]
        BY <1>2, <3>2, <4>1, OthersStay DEF Next, RecordSubmission, TenMinutes, vars
      <4> QED BY <4>2 DEF Reads, SameArgs
    <3> QED BY <3>1, <3>2
  <2>2. /\ call[d].session \in Sessions /\ call[d].seen.status # "none"
        /\ Sees(session[call[d].session], call[d].seen)
    BY <2>1 DEF SeenInv
  <2>3. Sees(session'[call[d].session], session[call[d].session])
    <3>1. CASE SameDialogues
      BY <2>2, <3>1 DEF SameDialogues
    <3>2. ASSUME NEW w \in Workers, NEW b \in Submissions, RecordSubmission(w, b)
          PROVE  Sees(session'[call[d].session], session[call[d].session])
      BY <3>2 DEF RecordSubmission, Sees
    <3>3. ASSUME NEW c \in Calls, NEW s \in Sessions, InsertSession(c, s)
          PROVE  Sees(session'[call[d].session], session[call[d].session])
      <4>1. session[s].status = "none"
        BY <3>3 DEF InsertSession
      <4>2. call[d].session # s
        BY <2>2, <4>1 DEF Sees
      <4> QED BY <2>2, <3>3, <4>2 DEF InsertSession, DialogueInv, Sees
    <3>4. ASSUME NEW c \in Calls, Deliver(c)
          PROVE  Sees(session'[call[d].session], session[call[d].session])
      <4>1. pc[c] = "deliver" /\ pc'[c] = "settle"
        BY <3>4 DEF Deliver, Goto
      <4>2. c # d
        BY <4>1 DEF Reads, Turn, Awaiting
      <4>3. call[c].session # call[d].session
        BY <2>1, <4>1, <4>2, OneReader DEF Holding, Turn, Awaiting
      <4>4. Fits("deliver", call[c])
        BY <4>1 DEF CallsInv
      <4>5. session'[call[d].session] = session[call[d].session]
        BY <2>2, <3>4, <4>3, <4>4, DeliverNeutral
      <4> QED BY <4>5 DEF Sees
    <3> QED BY <3>1, <3>2, <3>3, <3>4, DialogueSteps
  <2> QED BY <2>1, <2>2, <2>3 DEF Sees, SameArgs
<1> QED BY <1>1, <1>2

-----------------------------------------------------------------------------
(* What holds while a call keeps the loop.                                   *)

HandlerInv == \A c \in Calls :
    /\ pc[c] \in {"evidence", "deliver"} => account.enabled
    /\ pc[c] = "deliver" /\ call[c].passed =>
         call[c].evidence = submission[call[c].seen.submission].evidence
    /\ pc[c] \in {"existing", "insert"} /\ call[c].submission # None =>
         submission[call[c].submission].understanding \in {"pending", "needs_review"}

\* A dialogue without a solution is a conversation, any other is a defense.
ModesInv ==
    /\ \A c \in Calls : call[c].mode = "help" <=> call[c].submission = None
    /\ \A s \in Sessions : session[s].mode = "help" <=> session[s].submission = None

\* What a delivery writes into its session.
LEMMA DeliverRow ==
    ASSUME TypeInv, NEW c \in Calls, NEW s \in Sessions, call[c].session = s, Deliver(c)
    PROVE  /\ \A t \in Sessions \ {s} : session'[t] = session[t] /\ fails'[t] = fails[t]
           /\ session'[s].mode = session[s].mode
           /\ session'[s].submission = session[s].submission
           /\ Lands(c) => /\ session'[s].status = NextStatus(c)
                          /\ session'[s].stage = NextStage(c)
                          /\ session'[s].retries = NextRetries(c)
           /\ ~Lands(c) => Sees(session'[s], session[s])
           /\ fails'[s] = IF ~Graded(c) THEN fails[s]
                          ELSE IF call[c].passed THEN 0 ELSE fails[s] + 1
<1> DEFINE row == session[s]
           count == row.messages + (IF call[c].text THEN 2 ELSE 1)
<1>1. row \in SessionRow /\ session \in [Sessions -> SessionRow] /\ fails \in [Sessions -> Nat]
  BY DEF TypeInv, DialogueInv
<1>2. /\ Lands(c) => session' = [session EXCEPT ![s] =
                         [row EXCEPT !.stage = NextStage(c), !.retries = NextRetries(c),
                                     !.status = NextStatus(c), !.messages = count]]
      /\ ~Lands(c) => session' = [session EXCEPT ![s] = [row EXCEPT !.messages = count]]
  BY DEF Deliver
<1>3. fails' = [fails EXCEPT ![s] = IF ~Graded(c) THEN fails[s]
                                     ELSE IF call[c].passed THEN 0 ELSE fails[s] + 1]
  BY Zenon DEF Deliver
<1>4. \A t \in Sessions \ {s} : session'[t] = session[t] /\ fails'[t] = fails[t]
  BY <1>1, <1>2, <1>3
<1>5. fails'[s] = IF ~Graded(c) THEN fails[s]
                  ELSE IF call[c].passed THEN 0 ELSE fails[s] + 1
  BY <1>1, <1>3
<1> HIDE DEF count
<1>6. CASE Lands(c)
  <2>1. ASSUME NEW stage, NEW retries, NEW status
        PROVE  LET new == [row EXCEPT !.stage = stage, !.retries = retries,
                                      !.status = status, !.messages = count]
               IN  /\ new.stage = stage /\ new.retries = retries /\ new.status = status
                   /\ new.mode = row.mode /\ new.submission = row.submission
    BY <1>1 DEF SessionRow
  <2>2. session'[s] = [row EXCEPT !.stage = NextStage(c), !.retries = NextRetries(c),
                                  !.status = NextStatus(c), !.messages = count]
    BY <1>1, <1>2, <1>6
  <2>3. /\ session'[s].status = NextStatus(c) /\ session'[s].stage = NextStage(c)
        /\ session'[s].retries = NextRetries(c) /\ session'[s].mode = session[s].mode
        /\ session'[s].submission = session[s].submission
    BY <2>1, <2>2
  <2> QED BY <1>4, <1>5, <1>6, <2>3
<1>7. CASE ~Lands(c)
  <2>1. session'[s] = [row EXCEPT !.messages = count]
    BY <1>1, <1>2, <1>7
  <2>2. Sees(session'[s], session[s])
    BY <1>1, <2>1 DEF Sees, SessionRow
  <2> QED BY <1>4, <1>5, <1>7, <2>2 DEF Sees
<1> QED BY <1>6, <1>7

LEMMA InsertRow ==
    ASSUME TypeInv, NEW c \in Calls, NEW s \in Sessions, InsertSession(c, s)
    PROVE  /\ session[s].status = "none" /\ fails' = fails
           /\ \A t \in Sessions \ {s} : session'[t] = session[t]
           /\ session'[s].status = "active" /\ session'[s].stage = 0
           /\ session'[s].retries = 0 /\ session'[s].messages = 0
           /\ session'[s].mode = call[c].mode
           /\ session'[s].submission = call[c].submission
<1>1. session' = [session EXCEPT ![s] = [NoSession EXCEPT !.status = "active",
                        !.mode = call[c].mode, !.submission = call[c].submission]]
  BY DEF InsertSession
<1>2. session'[s] = [NoSession EXCEPT !.status = "active",
                        !.mode = call[c].mode, !.submission = call[c].submission]
      /\ \A t \in Sessions \ {s} : session'[t] = session[t]
  BY <1>1 DEF TypeInv, DialogueInv
<1>3. session[s].status = "none" /\ fails' = fails
  BY DEF InsertSession
<1>4. /\ session'[s].status = "active" /\ session'[s].stage = 0
      /\ session'[s].retries = 0 /\ session'[s].messages = 0
      /\ session'[s].mode = call[c].mode /\ session'[s].submission = call[c].submission
  BY <1>2 DEF NoSession
<1> QED BY <1>2, <1>3, <1>4

LEMMA ModesInvStep ==
    ASSUME TypeInv, ModesInv, [Next]_vars
    PROVE  ModesInv'
<1> USE DEF TypeInv, ControlInv
<1>1. ASSUME NEW d \in Calls PROVE call'[d].mode = "help" <=> call'[d].submission = None
  <2>1. CASE \E w \in Workers : Student(d, w) \/ Admin(d, w)
    BY <2>1, Arrivals DEF Brought
  <2>2. CASE call'[d] = NoArgs
    BY <2>2 DEF NoArgs
  <2>3. CASE SameArgs(call'[d], call[d])
    BY <2>3 DEF SameArgs, ModesInv
  <2>4. CASE Step(d)
    <3>1. CASE Return(d)
      BY <2>2, <3>1 DEF Return, CallsInv
    <3>2. CASE pc'[d] # "idle"
      BY <2>3, <2>4, <3>2, ArgsKept
    <3>3. CASE ~Return(d) /\ pc'[d] = "idle"
      <4>1. Moves(d)
        BY <2>4, StepMoves
      <4>2. UNCHANGED call
        BY <3>3, <4>1 DEF Moves, Arrive, Resume, Await, Goto, Running, Turn, Awaiting
      <4> QED BY <2>3, <4>2 DEF SameArgs
    <3> QED BY <3>1, <3>2, <3>3
  <2>5. ASSUME NEW w \in Workers, Crash(w) PROVE call'[d] \in {call[d], NoArgs}
    BY <2>5 DEF Crash
  <2>6. CASE call'[d] = call[d]
    BY <2>6, <2>3 DEF SameArgs
  <2> QED BY <2>1, <2>2, <2>4, <2>5, <2>6, OthersStay
          DEF Next, RecordSubmission, TenMinutes, vars
<1>2. ASSUME NEW s \in Sessions
      PROVE  session'[s].mode = "help" <=> session'[s].submission = None
  <2>1. CASE Sees(session'[s], session[s])
    BY <2>1 DEF Sees, ModesInv
  <2>2. CASE SameDialogues
    BY <2>1, <2>2 DEF SameDialogues
  <2>3. ASSUME NEW w \in Workers, NEW b \in Submissions, RecordSubmission(w, b)
        PROVE  Sees(session'[s], session[s])
    BY <2>3 DEF RecordSubmission, Sees
  <2>4. ASSUME NEW c \in Calls, NEW t \in Sessions, InsertSession(c, t)
        PROVE  session'[s].mode = "help" <=> session'[s].submission = None
    <3>1. CASE s = t
      BY <2>4, <3>1, InsertRow DEF ModesInv
    <3>2. CASE s # t
      BY <2>4, <3>2, InsertRow DEF ModesInv
    <3> QED BY <3>1, <3>2
  <2>5. ASSUME NEW c \in Calls, Deliver(c)
        PROVE  session'[s].mode = "help" <=> session'[s].submission = None
    <3>1. PICK t \in Sessions : call[c].session = t
      BY <2>5, SendRow DEF Deliver, Sending, Turn
    <3>2. session'[s].mode = session[s].mode /\ session'[s].submission = session[s].submission
      BY <2>5, <3>1, DeliverRow
    <3> QED BY <3>2 DEF ModesInv
  <2> QED BY <2>1, <2>2, <2>3, <2>4, <2>5, DialogueSteps
<1> QED BY <1>1, <1>2 DEF ModesInv

\* The places where a handler relies on what it has read, and how it gets there.
Relies == {"evidence", "deliver", "existing", "insert"}

LEMMA StepHandler ==
    ASSUME TypeInv, HandlerInv, ModesInv, NEW c \in Calls, Step(c), pc'[c] \in Relies
    PROVE  /\ UNCHANGED db /\ SameArgs(call'[c], call[c])
           /\ \/ pc'[c] = "evidence" /\ account.enabled
              \/ pc'[c] = "deliver" /\ account.enabled /\ ~call'[c].passed
              \/ /\ pc'[c] = "deliver" /\ account.enabled
                 /\ call'[c].evidence = submission[call[c].seen.submission].evidence
              \/ /\ pc'[c] \in {"existing", "insert"}
                 /\ call[c].submission # None =>
                      submission[call[c].submission].understanding \in {"pending", "needs_review"}
<1> USE DEF TypeInv, ControlInv
<1>1. SameArgs(call'[c], call[c])
  BY ArgsKept DEF Relies
<1>2. \/ StillEnabled(c) \/ ReadEvidence(c) \/ AcceptDefense(c) \/ CreateAllowed(c)
      \/ FindExisting(c)
  <2>1. CASE AccountStep(c)
    <3>1. ASSUME NEW r \in Requests, Recover(c, r) PROVE FALSE
      BY <3>1 DEF Recover, AccountRead, Relies
    <3>2. CASE View(c) \/ AdminAccount(c) \/ SaveAccess(c) \/ SaveCredit(c) \/ RefuseCredit(c)
      BY <3>2 DEF View, AdminAccount, SaveAccess, SaveCredit, RefuseCredit, Goto, Return, Relies
    <3> QED BY <2>1, <3>1, <3>2 DEF AccountStep
  <2>2. CASE CreateStep(c)
    BY <2>2 DEF CreateStep, RefuseAccess, RefuseDefense, RefuseContext, InsertConflict,
                InsertSession, Goto, Return, Relies
  <2>3. CASE SendStep(c)
    BY <2>3 DEF SendStep, FirstUse, Replay, RefuseReplay, SendAllowed, Prepare, RefuseTurn,
              ReserveTurn, RefuseBusy, ReserveFails, Unlock, TutorDrafts, ModelFails, GuardAllows,
              GuardRefuses, Block, Revoked, Deliver, Settle, Goto, Return, Await, Resume, Relies
  <2> QED BY <2>1, <2>2, <2>3 DEF Step
<1>3. UNCHANGED db
  BY <1>2 DEF StillEnabled, ReadEvidence, AcceptDefense, CreateAllowed, FindExisting
<1>4. call[c] \in CallRow /\ call \in [Calls -> CallRow]
  BY DEF CallsInv
<1>5. CASE StillEnabled(c)
  <2>1. account.enabled /\ call' = call
        /\ pc'[c] = IF call[c].passed THEN "evidence" ELSE "deliver"
    BY <1>5 DEF StillEnabled, Goto
  <2> QED BY <1>1, <1>3, <2>1
<1>6. CASE ReadEvidence(c)
  <2>1. pc[c] = "evidence" /\ pc'[c] = "deliver"
    BY <1>6 DEF ReadEvidence, Goto
  <2>2. account.enabled
    BY <2>1 DEF HandlerInv
  <2>3. call'[c].evidence = submission[call[c].seen.submission].evidence
    BY <1>4, <1>6 DEF ReadEvidence, CallRow
  <2> QED BY <1>1, <1>3, <2>1, <2>2, <2>3
<1>7. CASE AcceptDefense(c)
  <2>1. /\ pc'[c] = "existing"
        /\ submission[call[c].submission].understanding \notin {"none", "confirmed"}
    BY <1>7 DEF AcceptDefense, Goto
  <2>2. call[c].submission # None => submission[call[c].submission] \in SubmissionRow
    BY <1>4 DEF CallRow, DialogueInv
  <2>3. call[c].submission # None =>
           submission[call[c].submission].understanding \in {"pending", "needs_review"}
    BY <2>1, <2>2 DEF SubmissionRow
  <2> QED BY <1>1, <1>3, <2>1, <2>3
<1>8. CASE CreateAllowed(c)
  <2>1. pc'[c] = "insert" /\ call[c].mode # "defend"
    BY <1>8 DEF CreateAllowed, Goto, Relies
  <2>2. call[c].submission = None
    BY <1>4, <2>1 DEF CallRow, ModesInv
  <2> QED BY <1>1, <1>3, <2>1, <2>2
<1>9. CASE FindExisting(c)
  <2>1. pc[c] = "existing" /\ pc'[c] = "insert"
    BY <1>9 DEF FindExisting, Goto, Relies
  <2> QED BY <1>1, <1>3, <2>1 DEF HandlerInv
<1> QED BY <1>2, <1>5, <1>6, <1>7, <1>8, <1>9

LEMMA HandlerInvStep ==
    ASSUME OneWorker, TypeInv, LoopInv, HandlerInv, ModesInv, [Next]_vars
    PROVE  HandlerInv'
<1> USE DEF TypeInv, ControlInv
<1> SUFFICES ASSUME NEW d \in Calls, pc'[d] \in Relies
             PROVE  /\ pc'[d] \in {"evidence", "deliver"} => account'.enabled
                    /\ pc'[d] = "deliver" /\ call'[d].passed =>
                         call'[d].evidence = submission'[call'[d].seen.submission].evidence
                    /\ pc'[d] \in {"existing", "insert"} /\ call'[d].submission # None =>
                         submission'[call'[d].submission].understanding
                            \in {"pending", "needs_review"}
  BY DEF HandlerInv, Relies
<1>1. CASE Step(d)
  BY <1>1, StepHandler DEF db, SameArgs
<1>2. CASE ~Step(d)
  <2>1. ASSUME NEW w \in Workers, Student(d, w) \/ Admin(d, w) PROVE FALSE
    BY <2>1, Arrivals DEF Relies
  <2>2. ASSUME NEW w \in Workers, Crash(w) PROVE pc'[d] = pc[d]
    BY <2>2 DEF Crash, Relies
  <2>3. pc'[d] = pc[d]
    BY <1>2, <2>1, <2>2, OthersStay DEF Next, RecordSubmission, TenMinutes, vars
  <2>4. Holding(d)
    BY <2>3 DEF Holding, Relies, Awaiting
  <2>5. UNCHANGED <<account, submission, call>>
    BY <1>2, <2>3, <2>4, Alone DEF TenMinutes, vars, db, Relies
  <2> QED BY <2>3, <2>5 DEF HandlerInv
<1> QED BY <1>1, <1>2

-----------------------------------------------------------------------------
(* The defense of a solution.                                                *)

Defends(s) == session[s].status = "active" /\ session[s].mode = "defend"

DefenseInv ==
    /\ EvidenceMatchesStages
    /\ \A s, t \in Sessions :
         Defends(s) /\ Defends(t) /\ session[s].submission = session[t].submission => s = t
    /\ \A s \in Sessions :
         /\ session[s].status = "none" => session[s].messages = 0 /\ fails[s] = 0
         /\ session[s].status = "active" => /\ session[s].retries = fails[s]
                                            /\ session[s].retries <= 1

\* One more stage is one more prefix.
LEMMA StagePrefixes ==
    /\ SubSeq(STAGES, 1, 0) = <<>> /\ SubSeq(STAGES, 1, 3) = STAGES
    /\ \A n \in 0..2 : Append(SubSeq(STAGES, 1, n), STAGES[n + 1]) = SubSeq(STAGES, 1, n + 1)
<1> DEFINE names == {"mechanism", "trace", "transfer"}
<1>1. STAGES \in Seq(names) /\ Len(STAGES) = 3
  BY DEF STAGES
<1>2. SubSeq(STAGES, 1, 0) = <<>>
  BY SubSeqEmpty
<1>3. SubSeq(STAGES, 1, 3) = STAGES
  BY <1>1, SubSeqFull
<1>4. ASSUME NEW n \in 0..2
      PROVE  Append(SubSeq(STAGES, 1, n), STAGES[n + 1]) = SubSeq(STAGES, 1, n + 1)
  <2>1. n + 1 \in 1..Len(STAGES) /\ n + 1 - 1 = n /\ 1 \in 1..Len(STAGES)
    BY <1>1
  <2>2. SubSeq(STAGES, 1, n + 1) = SubSeq(STAGES, 1, n) \o <<STAGES[n + 1]>>
    <3>1. n + 1 \in 1..Len(STAGES)
      BY <2>1
    <3> HIDE DEF names
    <3>2. SubSeq(STAGES, 1, n + 1) = SubSeq(STAGES, 1, n + 1 - 1) \o <<STAGES[n + 1]>>
      BY <1>1, <2>1, SubSeqRecursiveSecond
    <3> QED BY <2>1, <3>2
  <2>3. SubSeq(STAGES, 1, n) \in Seq(names) /\ STAGES[n + 1] \in names
    <3>1. \A i \in 1..n : STAGES[i] \in names
      BY <1>1, <2>1, SMTT(30)
    <3>2. SubSeq(STAGES, 1, n) \in Seq(names)
      BY <3>1, SubSeqProperties
    <3> QED BY <1>1, <2>1, <3>2, SMTT(30)
  <2> QED BY <2>2, <2>3, AppendIsConcat
<1> QED BY <1>2, <1>3, <1>4

DialoguesInv == TurnsInv /\ PaidInv /\ SeenInv /\ HandlerInv /\ ModesInv /\ DefenseInv

\* What a delivery is, once the row it was worked out from is the row it
\* changes: a plain answer, a passed stage or a refused one.
Unasked(s) ==
    /\ UNCHANGED submission /\ fails'[s] = fails[s]
    /\ Sees(session'[s], session[s])

KeepsKind(s) == /\ session'[s].mode = session[s].mode
           /\ session'[s].submission = session[s].submission

Passes(s, b) ==
    /\ Defends(s) /\ session[s].submission = b /\ KeepsKind(s)
    /\ session[s].stage \in 0..2
    /\ submission' = [submission EXCEPT ![b] =
                        [understanding |-> IF session[s].stage = 2 THEN "confirmed" ELSE "pending",
                         evidence |-> SubSeq(STAGES, 1, session[s].stage + 1)]]
    /\ session'[s].status = IF session[s].stage = 2 THEN "confirmed" ELSE "active"
    /\ session'[s].stage = session[s].stage + 1
    /\ session'[s].retries = 0 /\ fails'[s] = 0

Refuses(s, b) ==
    /\ Defends(s) /\ session[s].submission = b /\ KeepsKind(s)
    /\ submission' = [submission EXCEPT ![b] =
                        [understanding |-> IF session[s].retries = 1 THEN "needs_review"
                                           ELSE "pending",
                         evidence |-> submission[b].evidence]]
    /\ session'[s].status = IF session[s].retries = 1 THEN "needs_review" ELSE "active"
    /\ session'[s].stage = session[s].stage
    /\ session'[s].retries = session[s].retries + 1 /\ fails'[s] = fails[s] + 1

LEMMA Delivery ==
    ASSUME OneWorker, DialoguesInv, NEW c \in Calls, Deliver(c)
    PROVE  /\ account.enabled
           /\ \E s \in Sessions :
                /\ session[s].status = "active"
                /\ \A t \in Sessions \ {s} : session'[t] = session[t] /\ fails'[t] = fails[t]
                /\ Unasked(s) \/ \E b \in Submissions : Passes(s, b) \/ Refuses(s, b)
<1> USE DEF DialoguesInv, TurnsInv, TypeInv
<1>1. pc[c] = "deliver" /\ account.enabled
      /\ (call[c].passed =>
            call[c].evidence = submission[call[c].seen.submission].evidence)
  BY DEF Deliver, HandlerInv
<1> DEFINE s == call[c].session
           b == call[c].seen.submission
<1>2. /\ s \in Sessions /\ Sees(session[s], call[c].seen)
      /\ session[s].status = "active" /\ call[c].seen.status = "active"
  <2>1. pc[c] \in Sending /\ Reads(c)
    BY <1>1, SendRow DEF Reads, Sending, Turn, Awaiting
  <2>2. s \in Sessions /\ Sees(session[s], call[c].seen)
    BY <2>1 DEF SeenInv
  <2>3. call[c].seen.status = "active"
    BY <1>1 DEF CallsInv, Fits, Turn
  <2> QED BY <2>2, <2>3 DEF Sees
<1>3. /\ call[c].seen.stage = session[s].stage /\ call[c].seen.retries = session[s].retries
      /\ call[c].seen.mode = session[s].mode /\ b = session[s].submission
  BY <1>2 DEF Sees
<1>4. /\ session[s].stage \in 0..2 /\ session[s].retries \in {0, 1}
      /\ session[s].retries = fails[s]
      /\ session[s].mode = "defend" => b \in Submissions
  <2>1. session[s] \in SessionRow /\ RowOK(session[s])
    BY <1>2 DEF DialogueInv
  <2>2. session[s].retries = fails[s] /\ session[s].retries <= 1
    BY <1>2 DEF DefenseInv
  <2> QED BY <1>2, <1>3, <2>1, <2>2 DEF SessionRow, RowOK
<1>5. call[c].passed => Graded(c)
  BY <1>1 DEF Graded, HasAnswer, CallsInv, Fits
<1>6. call[c].passed \in BOOLEAN
  BY DEF CallsInv, CallRow
<1>7. Lands(c)
  <2>1. CASE call[c].seen.mode # "defend"
    BY <2>1 DEF Lands
  <2>2. CASE call[c].seen.mode = "defend"
    <3>1. session[s].mode = "defend" /\ b # None
      BY <1>3, <1>4, <2>2, ConstantsAssumption
    <3>2. ASSUME NEW t \in ActiveDefenses(b) PROVE t = s
      <4>1. t \in Sessions /\ session[t].status = "active" /\ session[t].submission = b
        BY DEF ActiveDefenses
      <4>2. session[t].mode # "help" /\ session[t] \in SessionRow
        BY <3>1, <4>1 DEF ModesInv, DialogueInv
      <4>3. session[t].mode = "defend"
        BY <4>2 DEF SessionRow
      <4> QED BY <1>2, <1>3, <3>1, <4>1, <4>3 DEF DefenseInv, Defends
    <3> QED BY <3>2 DEF Lands
  <2> QED BY <2>1, <2>2
<1>8. /\ \A t \in Sessions \ {s} : session'[t] = session[t] /\ fails'[t] = fails[t]
      /\ KeepsKind(s)
      /\ session'[s].status = NextStatus(c) /\ session'[s].stage = NextStage(c)
      /\ session'[s].retries = NextRetries(c)
      /\ fails'[s] = IF ~Graded(c) THEN fails[s]
                     ELSE IF call[c].passed THEN 0 ELSE fails[s] + 1
  BY <1>2, <1>7, DeliverRow DEF KeepsKind
<1>9. CASE ~Graded(c)
  <2>1. submission' = submission
    BY <1>9 DEF Deliver
  <2>2. NextStatus(c) = "active" /\ NextStage(c) = session[s].stage
        /\ NextRetries(c) = session[s].retries
    BY <1>3, <1>5, <1>9 DEF NextStatus, NextStage, NextRetries
  <2>3. Unasked(s)
    BY <1>2, <1>8, <1>9, <2>1, <2>2 DEF Unasked, Sees, KeepsKind
  <2> QED BY <1>1, <1>2, <1>8, <2>3
<1>10. ASSUME Graded(c)
       PROVE  /\ Defends(s) /\ b \in Submissions /\ b = session[s].submission
              /\ submission' = [submission EXCEPT ![b] =
                     [understanding |-> IF NextStatus(c) = "active" THEN "pending"
                                        ELSE NextStatus(c),
                      evidence |-> IF call[c].passed
                                   THEN Append(call[c].evidence, STAGES[NextStage(c)])
                                   ELSE submission[b].evidence]]
  <2>1. PICK same : same = submission[b].evidence
    OBVIOUS
  <2>2. submission' = [submission EXCEPT ![b] =
                     [understanding |-> IF NextStatus(c) = "active" THEN "pending"
                                        ELSE NextStatus(c),
                      evidence |-> IF call[c].passed
                                   THEN Append(call[c].evidence, STAGES[NextStage(c)])
                                   ELSE same]]
    BY <1>10, <2>1, Zenon DEF Deliver
  <2> QED BY <1>2, <1>3, <1>4, <1>10, <2>1, <2>2 DEF Defends, Graded
<1>11. CASE Graded(c) /\ call[c].passed
  <2>1. /\ NextStage(c) = session[s].stage + 1 /\ NextRetries(c) = 0
        /\ NextStatus(c) = IF session[s].stage = 2 THEN "confirmed" ELSE "active"
    <3>1. NextStage(c) = session[s].stage + 1 /\ NextRetries(c) = 0
      BY <1>3, <1>11 DEF NextStage, NextRetries
    <3> QED BY <1>4, <1>11, <3>1 DEF NextStatus
  <2>2. call[c].evidence = SubSeq(STAGES, 1, session[s].stage)
    BY <1>1, <1>2, <1>10, <1>11 DEF DefenseInv, EvidenceMatchesStages, Defends
  <2>3. Append(call[c].evidence, STAGES[NextStage(c)])
          = SubSeq(STAGES, 1, session[s].stage + 1)
    BY <1>4, <2>1, <2>2, StagePrefixes
  <2>4. (IF NextStatus(c) = "active" THEN "pending" ELSE NextStatus(c))
          = IF session[s].stage = 2 THEN "confirmed" ELSE "pending"
    BY <2>1
  <2>5. Passes(s, b)
    BY <1>4, <1>8, <1>10, <1>11, <2>1, <2>3, <2>4 DEF Passes
  <2> QED BY <1>1, <1>2, <1>8, <1>10, <1>11, <2>5
<1>12. CASE Graded(c) /\ ~call[c].passed
  <2>1. /\ NextStage(c) = session[s].stage /\ NextRetries(c) = session[s].retries + 1
        /\ NextStatus(c) = IF session[s].retries = 1 THEN "needs_review" ELSE "active"
    <3>1. NextStage(c) = session[s].stage /\ NextRetries(c) = session[s].retries + 1
      BY <1>3, <1>12 DEF NextStage, NextRetries
    <3> QED BY <1>4, <1>12, <3>1 DEF NextStatus
  <2>2. (IF NextStatus(c) = "active" THEN "pending" ELSE NextStatus(c))
          = IF session[s].retries = 1 THEN "needs_review" ELSE "pending"
    BY <2>1
  <2>3. Refuses(s, b)
    BY <1>8, <1>10, <1>12, <2>1, <2>2 DEF Refuses
  <2> QED BY <1>1, <1>2, <1>8, <1>10, <1>12, <2>3
<1> QED BY <1>6, <1>9, <1>11, <1>12

\* What a new session is, under what its handler has looked at.
Opens(s, b) ==
    /\ session[s].status = "none" /\ fails[s] = 0 /\ fails' = fails
    /\ \A t \in Sessions \ {s} : session'[t] = session[t]
    /\ session'[s].status = "active" /\ session'[s].stage = 0
    /\ session'[s].retries = 0 /\ session'[s].messages = 0
    /\ session'[s].submission = b /\ (session'[s].mode = "help" <=> b = None)
    /\ b = None => UNCHANGED submission
    /\ b # None =>
         /\ b \in Submissions /\ ActiveDefenses(b) = {}
         /\ submission[b].understanding \in {"pending", "needs_review"}
         /\ submission' = [submission EXCEPT ![b] = Restarted(b)]

LEMMA Opening ==
    ASSUME DialoguesInv, NEW c \in Calls, NEW s \in Sessions, InsertSession(c, s)
    PROVE  Opens(s, call[c].submission)
<1> USE DEF DialoguesInv, TurnsInv, TypeInv
<1>1. fails[s] = 0
  BY DEF InsertSession, DefenseInv
<1>2. call[c].submission \in Submissions \cup {None}
  BY DEF CallsInv, CallRow
<1>3. call[c].submission # None =>
        submission[call[c].submission].understanding \in {"pending", "needs_review"}
  BY DEF InsertSession, HandlerInv
<1>4. call[c].mode = "help" <=> call[c].submission = None
  BY DEF ModesInv
<1>5. /\ call[c].submission = None => UNCHANGED submission
      /\ call[c].submission # None =>
           /\ ActiveDefenses(call[c].submission) = {}
           /\ submission' = [submission EXCEPT ![call[c].submission] =
                               Restarted(call[c].submission)]
  BY DEF InsertSession
<1> QED BY <1>1, <1>2, <1>3, <1>4, <1>5, InsertRow DEF Opens

\* The four things that happen to dialogues.
LEMMA DefenseSteps ==
    ASSUME OneWorker, DialoguesInv, [Next]_vars
    PROVE  \/ SameDialogues
           \/ \E w \in Workers, b \in Submissions : RecordSubmission(w, b)
           \/ \E s \in Sessions, b \in Submissions \cup {None} : Opens(s, b)
           \/ /\ account.enabled
              /\ \E s \in Sessions :
                   /\ session[s].status = "active"
                   /\ \A t \in Sessions \ {s} : session'[t] = session[t] /\ fails'[t] = fails[t]
                   /\ Unasked(s) \/ \E b \in Submissions : Passes(s, b) \/ Refuses(s, b)
<1>1. TypeInv
  BY DEF DialoguesInv, TurnsInv
<1>2. \A c \in Calls : call[c].submission \in Submissions \cup {None}
  BY <1>1 DEF TypeInv, CallsInv, CallRow
<1>3. ASSUME NEW c \in Calls, NEW s \in Sessions, InsertSession(c, s)
      PROVE  \E t \in Sessions, b \in Submissions \cup {None} : Opens(t, b)
  BY <1>2, <1>3, Opening
<1> QED BY <1>1, <1>3, DialogueSteps, Delivery

LEMMA DefenseInvInit == Init => DefenseInv
BY DEF Init, DefenseInv, EvidenceMatchesStages, Defends, NoSession, NoSubmission

LEMMA PassKeeps ==
    ASSUME DialoguesInv, NEW s \in Sessions, NEW b \in Submissions,
           \A t \in Sessions \ {s} : session'[t] = session[t] /\ fails'[t] = fails[t],
           Passes(s, b)
    PROVE  DefenseInv'
<1> USE DEF DialoguesInv, TurnsInv, TypeInv, DialogueInv
<1> DEFINE end == session[s].stage = 2
<1>1. /\ submission'[b].understanding = (IF end THEN "confirmed" ELSE "pending")
      /\ submission'[b].evidence = SubSeq(STAGES, 1, session[s].stage + 1)
      /\ \A a \in Submissions \ {b} : submission'[a] = submission[a]
  BY DEF Passes
<1>2. \A t \in Sessions \ {s} : Defends(t) => session[t].submission # b
  BY DEF Passes, DefenseInv
<1>3. EvidenceMatchesStages'
  <2>1. ASSUME NEW t \in Sessions, session'[t].status = "active", session'[t].mode = "defend"
        PROVE  LET r == session'[t].submission
               IN  /\ submission'[r].evidence = SubSeq(STAGES, 1, session'[t].stage)
                   /\ submission'[r].understanding = "pending"
    <3>1. CASE t = s
      BY <1>1, <2>1, <3>1 DEF Passes, KeepsKind
    <3>2. CASE t # s
      <4>1. Defends(t) /\ session'[t] = session[t]
        BY <2>1, <3>2 DEF Defends
      <4>2. session[t].submission \in Submissions \ {b}
        BY <1>2, <3>2, <4>1 DEF RowOK, Defends
      <4> QED BY <1>1, <4>1, <4>2 DEF DefenseInv, EvidenceMatchesStages, Defends
    <3> QED BY <3>1, <3>2
  <2>2. ASSUME NEW a \in Submissions, submission'[a].understanding = "confirmed"
        PROVE  submission'[a].evidence = STAGES
    <3>1. CASE a = b
      <4>1. session[s].stage = 2
        BY <1>1, <2>2, <3>1
      <4>2. session[s].stage + 1 = 3
        BY <4>1
      <4> QED BY <1>1, <3>1, <4>2, StagePrefixes
    <3>2. CASE a # b
      BY <1>1, <2>2, <3>2 DEF DefenseInv, EvidenceMatchesStages
    <3> QED BY <3>1, <3>2
  <2> QED BY <2>1, <2>2 DEF EvidenceMatchesStages
<1>4. ASSUME NEW t \in Sessions, NEW u \in Sessions, Defends(t)', Defends(u)',
             session'[t].submission = session'[u].submission
      PROVE  t = u
  <2>1. \A v \in {t, u} : Defends(v) /\ session'[v].submission = session[v].submission
    BY <1>4, SMTT(30) DEF Defends, Passes, KeepsKind
  <2> QED BY <1>4, <2>1 DEF DefenseInv
<1>5. ASSUME NEW t \in Sessions
      PROVE  /\ session'[t].status = "none" => session'[t].messages = 0 /\ fails'[t] = 0
             /\ session'[t].status = "active" => /\ session'[t].retries = fails'[t]
                                                 /\ session'[t].retries <= 1
  BY DEF DefenseInv, Passes
<1> QED BY <1>3, <1>4, <1>5 DEF DefenseInv

LEMMA RefusalKeeps ==
    ASSUME DialoguesInv, NEW s \in Sessions, NEW b \in Submissions,
           \A t \in Sessions \ {s} : session'[t] = session[t] /\ fails'[t] = fails[t],
           Refuses(s, b)
    PROVE  DefenseInv'
<1> USE DEF DialoguesInv, TurnsInv, TypeInv, DialogueInv
<1>1. /\ submission'[b].understanding
            = (IF session[s].retries = 1 THEN "needs_review" ELSE "pending")
      /\ submission'[b].evidence = submission[b].evidence
      /\ \A a \in Submissions \ {b} : submission'[a] = submission[a]
  BY DEF Refuses
<1>2. \A t \in Sessions \ {s} : Defends(t) => session[t].submission # b
  BY DEF Refuses, DefenseInv
<1>3. EvidenceMatchesStages'
  <2>1. ASSUME NEW t \in Sessions, session'[t].status = "active", session'[t].mode = "defend"
        PROVE  LET r == session'[t].submission
               IN  /\ submission'[r].evidence = SubSeq(STAGES, 1, session'[t].stage)
                   /\ submission'[r].understanding = "pending"
    <3>1. CASE t = s
      BY <1>1, <2>1, <3>1 DEF Refuses, KeepsKind, Defends, DefenseInv, EvidenceMatchesStages
    <3>2. CASE t # s
      <4>1. Defends(t) /\ session'[t] = session[t]
        BY <2>1, <3>2 DEF Defends
      <4>2. session[t].submission \in Submissions \ {b}
        BY <1>2, <3>2, <4>1 DEF RowOK, Defends
      <4> QED BY <1>1, <4>1, <4>2 DEF DefenseInv, EvidenceMatchesStages, Defends
    <3> QED BY <3>1, <3>2
  <2>2. ASSUME NEW a \in Submissions, submission'[a].understanding = "confirmed"
        PROVE  submission'[a].evidence = STAGES
    BY <1>1, <2>2 DEF DefenseInv, EvidenceMatchesStages
  <2> QED BY <2>1, <2>2 DEF EvidenceMatchesStages
<1>4. ASSUME NEW t \in Sessions, NEW u \in Sessions, Defends(t)', Defends(u)',
             session'[t].submission = session'[u].submission
      PROVE  t = u
  <2>1. \A v \in {t, u} : Defends(v) /\ session'[v].submission = session[v].submission
    BY <1>4 DEF Defends, Refuses, KeepsKind
  <2> QED BY <1>4, <2>1 DEF DefenseInv
<1>5. ASSUME NEW t \in Sessions
      PROVE  /\ session'[t].status = "none" => session'[t].messages = 0 /\ fails'[t] = 0
             /\ session'[t].status = "active" => /\ session'[t].retries = fails'[t]
                                                 /\ session'[t].retries <= 1
  <2>1. CASE t = s
    <3>1. session[s].retries \in Nat /\ session[s].retries <= 1 /\ session[s].retries = fails[s]
      BY DEF Refuses, Defends, DefenseInv, SessionRow
    <3> QED BY <2>1, <3>1 DEF Refuses
  <2>2. CASE t # s
    BY <2>2 DEF DefenseInv
  <2> QED BY <2>1, <2>2
<1> QED BY <1>3, <1>4, <1>5 DEF DefenseInv

LEMMA OpeningKeeps ==
    ASSUME DialoguesInv, NEW s \in Sessions, NEW b \in Submissions \cup {None}, Opens(s, b)
    PROVE  DefenseInv'
<1> USE DEF DialoguesInv, TurnsInv, TypeInv, DialogueInv
<1>1. CASE b = None
  <2>1. ~Defends(s)' /\ UNCHANGED submission
    BY <1>1 DEF Opens, Defends
  <2>2. \A t \in Sessions : Defends(t)' => t # s /\ Defends(t) /\ session'[t] = session[t]
    BY <2>1 DEF Opens, Defends
  <2>3. EvidenceMatchesStages'
    BY <2>1, <2>2 DEF DefenseInv, EvidenceMatchesStages, Defends
  <2> QED BY <2>2, <2>3 DEF DefenseInv, Opens
<1>2. CASE b # None
  <2>1. /\ submission'[b].understanding = "pending" /\ submission'[b].evidence = <<>>
        /\ \A a \in Submissions \ {b} : submission'[a] = submission[a]
    BY <1>2 DEF Opens, Restarted
  <2>2. \A t \in Sessions \ {s} : Defends(t) => session[t].submission # b
    BY <1>2 DEF Opens, ActiveDefenses, Defends
  <2>3. EvidenceMatchesStages'
    <3>1. ASSUME NEW t \in Sessions, session'[t].status = "active", session'[t].mode = "defend"
          PROVE  LET r == session'[t].submission
                 IN  /\ submission'[r].evidence = SubSeq(STAGES, 1, session'[t].stage)
                     /\ submission'[r].understanding = "pending"
      <4>1. CASE t = s
        BY <2>1, <4>1, StagePrefixes DEF Opens
      <4>2. CASE t # s
        <5>1. Defends(t) /\ session'[t] = session[t]
          BY <3>1, <4>2 DEF Defends, Opens
        <5>2. session[t].submission \in Submissions \ {b}
          BY <2>2, <4>2, <5>1 DEF RowOK, Defends
        <5> QED BY <2>1, <5>1, <5>2 DEF DefenseInv, EvidenceMatchesStages, Defends
      <4> QED BY <4>1, <4>2
    <3>2. ASSUME NEW a \in Submissions, submission'[a].understanding = "confirmed"
          PROVE  submission'[a].evidence = STAGES
      BY <2>1, <3>2 DEF DefenseInv, EvidenceMatchesStages
    <3> QED BY <3>1, <3>2 DEF EvidenceMatchesStages
  <2>4. ASSUME NEW t \in Sessions, NEW u \in Sessions, Defends(t)', Defends(u)',
               session'[t].submission = session'[u].submission
        PROVE  t = u
    <3>1. \A v \in {t, u} : v # s => Defends(v) /\ session'[v] = session[v]
      BY <2>4 DEF Defends, Opens
    <3> QED BY <2>2, <2>4, <3>1 DEF DefenseInv, Opens
  <2> QED BY <2>3, <2>4 DEF DefenseInv, Opens
<1> QED BY <1>1, <1>2

LEMMA DefenseInvStep ==
    ASSUME OneWorker, DialoguesInv, [Next]_vars
    PROVE  DefenseInv'
<1> USE DEF DialoguesInv, TurnsInv, TypeInv, DialogueInv
<1>1. ASSUME UNCHANGED <<submission>>, \A t \in Sessions :
               /\ Sees(session'[t], session[t]) /\ fails'[t] = fails[t]
               /\ session'[t].messages = session[t].messages \/ session[t].status = "active"
      PROVE  DefenseInv'
  <2>1. \A t \in Sessions : Defends(t)' <=> Defends(t)
    BY <1>1 DEF Defends, Sees
  <2>2. EvidenceMatchesStages'
    BY <1>1 DEF DefenseInv, EvidenceMatchesStages, Sees
  <2> QED BY <1>1, <2>1, <2>2 DEF DefenseInv, Sees
<1>2. CASE SameDialogues
  BY <1>1, <1>2 DEF SameDialogues
<1>3. ASSUME NEW w \in Workers, NEW b \in Submissions, RecordSubmission(w, b)
      PROVE  DefenseInv'
  <2>1. /\ submission[b].understanding = "none" /\ UNCHANGED <<session, fails>>
        /\ submission'[b].understanding = "pending"
        /\ \A a \in Submissions \ {b} : submission'[a] = submission[a]
    BY <1>3 DEF RecordSubmission, SubmissionRow
  <2>2. \A s \in Sessions : Defends(s) => session[s].submission \in Submissions \ {b}
    BY <2>1 DEF DefenseInv, EvidenceMatchesStages, Defends, RowOK
  <2>3. EvidenceMatchesStages'
    BY <2>1, <2>2 DEF DefenseInv, EvidenceMatchesStages, Defends
  <2> QED BY <2>1, <2>3 DEF DefenseInv, Defends
<1>4. ASSUME NEW s \in Sessions, session[s].status = "active",
             \A t \in Sessions \ {s} : session'[t] = session[t] /\ fails'[t] = fails[t],
             Unasked(s)
      PROVE  DefenseInv'
  BY <1>1, <1>4 DEF Unasked, Sees
<1> QED BY <1>2, <1>3, <1>4, PassKeeps, RefusalKeeps, OpeningKeeps, DefenseSteps

LEMMA DialoguesInvInit == Init => DialoguesInv
<1> SUFFICES ASSUME Init PROVE DialoguesInv
  OBVIOUS
<1>1. TurnsInv /\ PaidInv
  BY TurnsInvInit, PaidInvInit
<1>2. SeenInv /\ HandlerInv
  BY DEF Init, SeenInv, HandlerInv, Reads, Turn, Awaiting
<1>3. ModesInv
  BY DEF Init, ModesInv, NoArgs, NoSession
<1> QED BY <1>1, <1>2, <1>3, DefenseInvInit DEF DialoguesInv

LEMMA DialoguesInvStep ==
    ASSUME OneWorker, DialoguesInv, [Next]_vars
    PROVE  DialoguesInv'
<1>1. TurnsInv' /\ PaidInv'
  BY TurnsInvStep, PaidInvStep DEF DialoguesInv, TurnsInv
<1>2. SeenInv' /\ HandlerInv' /\ ModesInv'
  BY SeenInvStep, HandlerInvStep, ModesInvStep DEF DialoguesInv, TurnsInv
<1> QED BY <1>1, <1>2, DefenseInvStep DEF DialoguesInv

LEMMA DialoguesHold ==
    ASSUME OneWorker
    PROVE  Spec => []DialoguesInv
<1>1. DialoguesInv /\ [Next]_vars => DialoguesInv'
  BY DialoguesInvStep
<1> QED BY <1>1, DialoguesInvInit, PTL DEF Spec

-----------------------------------------------------------------------------
(* The theorems.                                                             *)

\* With one worker process the evidence kept with a solution is that of the
\* stages its running defense has passed, and a confirmed one has all three,
\* whatever messages, retries, crashes and new sessions come in between.
THEOREM EvidenceIsOfItsStages ==
    ASSUME OneWorker
    PROVE  Spec => []EvidenceMatchesStages
<1>1. DialoguesInv => EvidenceMatchesStages
  BY DEF DialoguesInv, DefenseInv
<1> QED BY <1>1, DialoguesHold, PTL

\* With one worker process no defense goes on after a second refused answer.
THEOREM SecondFailureEnds ==
    ASSUME OneWorker
    PROVE  Spec => []TwoFailuresEndDefense
<1>1. DialoguesInv => TwoFailuresEndDefense
  BY DEF DialoguesInv, DefenseInv, TwoFailuresEndDefense
<1> QED BY <1>1, DialoguesHold, PTL

\* With one worker process a confirmed understanding is never taken back.
THEOREM ConfirmedForGood ==
    ASSUME OneWorker
    PROVE  Spec => ConfirmedStays
<1>1. ASSUME DialoguesInv, [Next]_vars, NEW a \in Submissions,
             submission[a].understanding = "confirmed"
      PROVE  submission'[a] = submission[a]
  <2> USE <1>1 DEF DialoguesInv, TurnsInv, TypeInv, DialogueInv
  <2>1. ASSUME NEW w \in Workers, NEW b \in Submissions, RecordSubmission(w, b)
        PROVE  submission'[a] = submission[a]
    BY <2>1 DEF RecordSubmission
  <2>2. ASSUME NEW s \in Sessions, NEW b \in Submissions \cup {None}, Opens(s, b)
        PROVE  submission'[a] = submission[a]
    BY <2>2 DEF Opens
  <2>3. ASSUME NEW s \in Sessions, NEW b \in Submissions, Passes(s, b) \/ Refuses(s, b)
        PROVE  submission'[a] = submission[a]
    <3>1. submission[b].understanding = "pending"
      BY <2>3 DEF Passes, Refuses, Defends, DefenseInv, EvidenceMatchesStages
    <3> QED BY <2>3, <3>1 DEF Passes, Refuses
  <2>4. ASSUME NEW s \in Sessions, Unasked(s) PROVE submission'[a] = submission[a]
    BY <2>4 DEF Unasked
  <2>5. CASE SameDialogues
    BY <2>5 DEF SameDialogues
  <2> QED BY <2>1, <2>2, <2>3, <2>4, <2>5, DefenseSteps
<1>2. DialoguesInv /\ [Next]_vars =>
        [\A b \in Submissions : submission[b].understanding = "confirmed"
                                 => submission'[b] = submission[b]]_vars
  BY <1>1
<1> QED BY <1>2, DialoguesHold, PTL DEF Spec, ConfirmedStays

\* With one worker process an answer reaches the conversation only while the
\* student has access: what was checked when the models answered still holds
\* when the answer is saved.
THEOREM NothingAfterRevocation ==
    ASSUME OneWorker
    PROVE  Spec => DeliveredUnderAccess
<1>1. ASSUME DialoguesInv, [Next]_vars, NEW a \in Sessions,
             session'[a].messages # session[a].messages
      PROVE  account.enabled
  <2> USE <1>1 DEF DialoguesInv
  <2>1. ASSUME NEW w \in Workers, NEW b \in Submissions, RecordSubmission(w, b) PROVE FALSE
    BY <2>1 DEF RecordSubmission
  <2>2. ASSUME NEW s \in Sessions, NEW b \in Submissions \cup {None}, Opens(s, b) PROVE FALSE
    BY <2>2 DEF Opens, DefenseInv
  <2>3. CASE SameDialogues
    BY <2>3 DEF SameDialogues
  <2> QED BY <2>1, <2>2, <2>3, DefenseSteps
<1>2. DialoguesInv /\ [Next]_vars =>
        [\A s \in Sessions : session'[s].messages # session[s].messages
                               => account.enabled]_vars
  BY <1>1
<1> QED BY <1>2, DialoguesHold, PTL DEF Spec, DeliveredUnderAccess

-----------------------------------------------------------------------------
(* The defense, step by step.                                                *)

\* A dialogue in which the solution is being defended.
DefendedIn(rows, s, b) == rows[s].status = "active" /\ rows[s].submission = b

\* What Stands is, whatever rows it is asked of.
LEMMA StandsIs ==
    ASSUME NEW rows, NEW b
    PROVE  /\ (\A s \in Sessions : ~DefendedIn(rows, s, b)) => Stands(rows, b) = DefenseOf!Closed
           /\ \A s \in Sessions : (\A t \in Sessions : DefendedIn(rows, t, b) <=> t = s) =>
                Stands(rows, b) = [open |-> TRUE, stage |-> rows[s].stage,
                                   refused |-> rows[s].retries]
<1> DEFINE active == {s \in Sessions : rows[s].status = "active" /\ rows[s].submission = b}
<1>1. ASSUME \A s \in Sessions : ~DefendedIn(rows, s, b)
      PROVE  Stands(rows, b) = DefenseOf!Closed
  <2>1. active = {}
    BY <1>1 DEF DefendedIn
  <2> QED BY <2>1 DEF Stands, DefenseOf!Closed
<1>2. ASSUME NEW s \in Sessions, \A t \in Sessions : DefendedIn(rows, t, b) <=> t = s
      PROVE  Stands(rows, b) = [open |-> TRUE, stage |-> rows[s].stage,
                                refused |-> rows[s].retries]
  <2>1. active = {s}
    BY <1>2 DEF DefendedIn
  <2>2. (CHOOSE t \in active : TRUE) = s
    BY <2>1
  <2> QED BY <2>1, <2>2 DEF Stands
<1> QED BY <1>1, <1>2

LEMMA StandsSame ==
    ASSUME NEW rows, NEW old, NEW b,
           \A s \in Sessions :
             /\ (rows[s].status = "active" /\ rows[s].submission = b)
                  <=> (old[s].status = "active" /\ old[s].submission = b)
             /\ rows[s].status = "active" /\ rows[s].submission = b =>
                  rows[s].stage = old[s].stage /\ rows[s].retries = old[s].retries
    PROVE  Stands(rows, b) = Stands(old, b)
<1> DEFINE active == {s \in Sessions : rows[s].status = "active" /\ rows[s].submission = b}
           before == {s \in Sessions : old[s].status = "active" /\ old[s].submission = b}
<1>1. active = before
  OBVIOUS
<1>2. active # {} => (CHOOSE s \in active : TRUE) \in active
  OBVIOUS
<1> QED BY <1>1, <1>2 DEF Stands

LEMMA DefenseInit == Init => DefenseOf!Init
<1> SUFFICES ASSUME Init PROVE DefenseOf!Init
  OBVIOUS
<1>1. ASSUME NEW b \in Submissions PROVE Stands(session, b) = DefenseOf!Closed
  <2>1. \A s \in Sessions : ~DefendedIn(session, s, b)
    BY DEF Init, NoSession, DefendedIn
  <2> QED BY <2>1, StandsIs
<1>2. \A b \in Submissions :
        submission[b].understanding = "none" /\ submission[b].evidence = <<>>
  BY DEF Init, NoSubmission
<1> QED BY <1>1, <1>2 DEF DefenseOf!Init

\* One dialogue moves: the defense of no other solution does.
LEMMA OthersStand ==
    ASSUME NEW s \in Sessions, NEW b \in Submissions, NEW a \in Submissions \ {b},
           \A t \in Sessions \ {s} : session'[t] = session[t],
           session[s].status = "active" => session[s].submission = b,
           session'[s].status = "active" => session'[s].submission = b
    PROVE  Stands(session', a) = Stands(session, a)
<1>1. \A t \in Sessions :
             /\ (session'[t].status = "active" /\ session'[t].submission = a)
                  <=> (session[t].status = "active" /\ session[t].submission = a)
             /\ session'[t].status = "active" /\ session'[t].submission = a =>
                  session'[t].stage = session[t].stage /\ session'[t].retries = session[t].retries
  OBVIOUS
<1> QED BY <1>1, StandsSame

\* The one running defense, before and after a graded answer.
LEMMA OneStands ==
    ASSUME DialoguesInv, NEW s \in Sessions, NEW b \in Submissions,
           Defends(s), session[s].submission = b, KeepsKind(s),
           \A t \in Sessions \ {s} : session'[t] = session[t]
    PROVE  /\ Stands(session, b) = [open |-> TRUE, stage |-> session[s].stage,
                                    refused |-> session[s].retries]
           /\ session'[s].status = "active" =>
                Stands(session', b) = [open |-> TRUE, stage |-> session'[s].stage,
                                       refused |-> session'[s].retries]
           /\ session'[s].status # "active" => Stands(session', b) = DefenseOf!Closed
<1>1. ASSUME NEW t \in Sessions, session[t].status = "active", session[t].submission = b
      PROVE  t = s
  <2>1. b # None /\ session[t].mode \in {"help", "defend"}
    BY ConstantsAssumption DEF DialoguesInv, TurnsInv, TypeInv, DialogueInv, SessionRow
  <2>2. Defends(t)
    BY <1>1, <2>1 DEF DialoguesInv, ModesInv, Defends
  <2> QED BY <1>1, <2>2 DEF DialoguesInv, DefenseInv
<1>2. \A t \in Sessions : DefendedIn(session, t, b) <=> t = s
  BY <1>1 DEF DefendedIn, Defends
<1>3. session'[s].status = "active" => \A t \in Sessions : DefendedIn(session', t, b) <=> t = s
  BY <1>1 DEF KeepsKind, DefendedIn
<1>4. session'[s].status # "active" => \A t \in Sessions : ~DefendedIn(session', t, b)
  BY <1>1 DEF DefendedIn
<1> QED BY <1>2, <1>3, <1>4, StandsIs

LEMMA DefenseStep ==
    ASSUME OneWorker, DialoguesInv, [Next]_vars
    PROVE  [DefenseOf!Next]_(DefenseOf!vars)
<1> DEFINE understood == [b \in Submissions |-> submission[b].understanding]
           quoted == [b \in Submissions |-> submission[b].evidence]
           stood == [b \in Submissions |-> Stands(session, b)]
<1>1. submission \in [Submissions -> SubmissionRow]
  BY DEF DialoguesInv, TurnsInv, TypeInv, DialogueInv
<1>2. ASSUME UNCHANGED submission, \A t \in Sessions : Sees(session'[t], session[t])
      PROVE  UNCHANGED DefenseOf!vars
  <2>1. \A b \in Submissions : Stands(session', b) = Stands(session, b)
    BY <1>2, StandsSame DEF Sees
  <2> QED BY <1>2, <2>1 DEF DefenseOf!vars
<1>3. CASE SameDialogues
  BY <1>2, <1>3 DEF SameDialogues
<1>4. ASSUME NEW s \in Sessions, Unasked(s),
             \A t \in Sessions \ {s} : session'[t] = session[t]
      PROVE  UNCHANGED DefenseOf!vars
  BY <1>2, <1>4 DEF Unasked, Sees
<1>5. ASSUME NEW w \in Workers, NEW b \in Submissions, RecordSubmission(w, b)
      PROVE  DefenseOf!Next
  <2>1. /\ submission[b].understanding = "none" /\ UNCHANGED session
        /\ submission'[b].understanding = "pending"
        /\ submission'[b].evidence = submission[b].evidence
        /\ \A a \in Submissions \ {b} : submission'[a] = submission[a]
    BY <1>1, <1>5 DEF RecordSubmission, SubmissionRow
  <2>2. /\ understood[b] = "none" /\ understood' = [understood EXCEPT ![b] = "pending"]
        /\ quoted' = quoted /\ stood' = stood
    BY <2>1
  <2>3. DefenseOf!Check(b)
    BY <2>2 DEF DefenseOf!Check
  <2> QED BY <2>3 DEF DefenseOf!Next
<1>6. ASSUME NEW s \in Sessions, NEW b \in Submissions \cup {None}, Opens(s, b)
      PROVE  [DefenseOf!Next]_(DefenseOf!vars)
  <2>1. CASE b = None
    <3>1. b \notin Submissions
      BY <2>1, ConstantsAssumption
    <3>2. \A a \in Submissions : Stands(session', a) = Stands(session, a)
      BY <1>6, <3>1, StandsSame DEF Opens
    <3> QED BY <1>6, <2>1, <3>2 DEF Opens, DefenseOf!vars
  <2>2. CASE b # None
    <3>1. /\ b \in Submissions
          /\ submission[b].understanding \in {"pending", "needs_review"}
          /\ submission'[b].understanding = "pending" /\ submission'[b].evidence = <<>>
          /\ \A a \in Submissions \ {b} : submission'[a] = submission[a]
      BY <1>1, <1>6, <2>2 DEF Opens, Restarted
    <3>2. \A a \in Submissions \ {b} : Stands(session', a) = Stands(session, a)
      BY <1>6, <3>1, OthersStand DEF Opens
    <3>3. Stands(session, b) = DefenseOf!Closed
      <4>1. \A t \in Sessions : ~DefendedIn(session, t, b)
        BY <1>6, <2>2 DEF Opens, ActiveDefenses, DefendedIn
      <4> QED BY <4>1, StandsIs
    <3>4. Stands(session', b) = [open |-> TRUE, stage |-> 0, refused |-> 0]
      <4>1. \A t \in Sessions : DefendedIn(session', t, b) <=> t = s
        BY <1>6, <2>2 DEF Opens, ActiveDefenses, DefendedIn
      <4>2. Stands(session', b) = [open |-> TRUE, stage |-> session'[s].stage,
                                   refused |-> session'[s].retries]
        BY <4>1, StandsIs
      <4> QED BY <1>6, <4>2 DEF Opens
    <3>5. /\ understood[b] \in {"pending", "needs_review"}
          /\ understood' = [understood EXCEPT ![b] = "pending"]
          /\ quoted' = [quoted EXCEPT ![b] = <<>>]
          /\ stood[b] = DefenseOf!Closed
          /\ stood' = [stood EXCEPT ![b] = [open |-> TRUE, stage |-> 0, refused |-> 0]]
      BY <3>1, <3>2, <3>3, <3>4
    <3>6. DefenseOf!Begin(b)
      <4>1. ~stood[b].open
        BY <3>5 DEF DefenseOf!Closed
      <4>2. [DefenseOf!Closed EXCEPT !.open = TRUE] = [open |-> TRUE, stage |-> 0, refused |-> 0]
        <5>1. PICK yes, no : yes = TRUE /\ no = FALSE
          OBVIOUS
        <5>2. [[open |-> no, stage |-> 0, refused |-> 0] EXCEPT !.open = yes]
                = [open |-> yes, stage |-> 0, refused |-> 0]
          OBVIOUS
        <5> QED BY <5>1, <5>2, Zenon DEF DefenseOf!Closed
      <4> QED BY <3>5, <4>1, <4>2, Zenon DEF DefenseOf!Begin
    <3> QED BY <3>1, <3>6 DEF DefenseOf!Next
  <2> QED BY <2>1, <2>2
<1>7. ASSUME NEW s \in Sessions, NEW b \in Submissions, Passes(s, b),
             \A t \in Sessions \ {s} : session'[t] = session[t]
      PROVE  DefenseOf!Next
  <2> DEFINE n == session[s].stage
  <2>1. n \in 0..2 /\ Len(STAGES) = 3
    BY <1>7 DEF Passes, STAGES
  <2>2. submission[b].evidence = SubSeq(STAGES, 1, n)
    BY <1>7 DEF Passes, Defends, DialoguesInv, DefenseInv, EvidenceMatchesStages
  <2>3. /\ submission'[b].understanding = (IF n = 2 THEN "confirmed" ELSE "pending")
        /\ submission'[b].evidence = Append(submission[b].evidence, STAGES[n + 1])
        /\ \A a \in Submissions \ {b} : submission'[a] = submission[a]
    <3>1. Append(SubSeq(STAGES, 1, n), STAGES[n + 1]) = SubSeq(STAGES, 1, n + 1)
      BY <2>1, StagePrefixes
    <3> QED BY <1>1, <1>7, <2>2, <3>1 DEF Passes
  <2>4. \A a \in Submissions \ {b} : Stands(session', a) = Stands(session, a)
    BY <1>7, OthersStand DEF Passes, KeepsKind
  <2>5. /\ Stands(session, b).open /\ Stands(session, b).stage = n
        /\ Stands(session', b) = IF n = 2 THEN DefenseOf!Closed
                                 ELSE [open |-> TRUE, stage |-> n + 1, refused |-> 0]
    <3>1. session'[s].status = (IF n = 2 THEN "confirmed" ELSE "active")
          /\ session'[s].stage = n + 1 /\ session'[s].retries = 0
      BY <1>7 DEF Passes
    <3>2. Stands(session, b) = [open |-> TRUE, stage |-> n, refused |-> session[s].retries]
          /\ Stands(session', b) = IF n = 2 THEN DefenseOf!Closed
                                   ELSE [open |-> TRUE, stage |-> n + 1, refused |-> 0]
      BY <1>7, <3>1, OneStands DEF Passes
    <3> QED BY <3>2
  <2>6. n + 1 = Len(STAGES) <=> n = 2
    BY <2>1
  <2> HIDE DEF n
  <2>7. /\ stood[b].open /\ stood[b].stage + 1 = n + 1
        /\ quoted' = [quoted EXCEPT ![b] = Append(quoted[b], STAGES[n + 1])]
        /\ understood' = [understood EXCEPT
                             ![b] = IF n + 1 = Len(STAGES) THEN "confirmed" ELSE "pending"]
        /\ stood' = [stood EXCEPT
                        ![b] = IF n + 1 = Len(STAGES) THEN DefenseOf!Closed
                               ELSE [open |-> TRUE, stage |-> n + 1, refused |-> 0]]
    BY <2>3, <2>4, <2>5, <2>6
  <2>8. DefenseOf!Pass(b)
    BY <2>7, Zenon DEF DefenseOf!Pass
  <2> QED BY <2>8 DEF DefenseOf!Next
<1>8. ASSUME NEW s \in Sessions, NEW b \in Submissions, Refuses(s, b),
             \A t \in Sessions \ {s} : session'[t] = session[t]
      PROVE  DefenseOf!Next
  <2> DEFINE again == session[s].retries = 1
  <2>1. session[s].retries \in {0, 1}
    <3>1. session[s] \in SessionRow /\ session[s].retries <= 1
      BY <1>8 DEF Refuses, Defends, DialoguesInv, DefenseInv, TurnsInv, TypeInv, DialogueInv
    <3> QED BY <3>1 DEF SessionRow
  <2>2. /\ submission'[b].understanding = (IF again THEN "needs_review" ELSE "pending")
        /\ submission'[b].evidence = submission[b].evidence
        /\ \A a \in Submissions \ {b} : submission'[a] = submission[a]
        /\ submission[b].understanding = "pending"
    BY <1>1, <1>8 DEF Refuses, Defends, DialoguesInv, DefenseInv, EvidenceMatchesStages
  <2>3. \A a \in Submissions \ {b} : Stands(session', a) = Stands(session, a)
    BY <1>8, OthersStand DEF Refuses, KeepsKind
  <2>4. /\ Stands(session, b) = [open |-> TRUE, stage |-> session[s].stage,
                                 refused |-> session[s].retries]
        /\ Stands(session', b) = IF again THEN DefenseOf!Closed
                                 ELSE [open |-> TRUE, stage |-> session[s].stage,
                                       refused |-> session[s].retries + 1]
    <3>1. session'[s].status = (IF again THEN "needs_review" ELSE "active")
          /\ session'[s].stage = session[s].stage
          /\ session'[s].retries = session[s].retries + 1
      BY <1>8 DEF Refuses
    <3> QED BY <1>8, <3>1, OneStands DEF Refuses
  <2>5. /\ stood[b].open /\ quoted' = quoted
        /\ stood[b].refused = session[s].retries
        /\ stood' = [stood EXCEPT ![b] = Stands(session', b)]
        /\ understood' = [understood EXCEPT
                             ![b] = IF again THEN "needs_review" ELSE "pending"]
        /\ understood[b] = "pending"
    <3>1. stood[b] = Stands(session, b)
      OBVIOUS
    <3>2. stood[b].open /\ stood[b].refused = session[s].retries
      BY <2>4, <3>1
    <3>3. /\ quoted' = quoted /\ understood[b] = "pending"
          /\ understood' = [understood EXCEPT
                             ![b] = IF again THEN "needs_review" ELSE "pending"]
      BY <2>2
    <3>4. stood' = [stood EXCEPT ![b] = Stands(session', b)]
      BY <2>3
    <3> QED BY <3>2, <3>3, <3>4
  <2>6. CASE again
    <3>1. stood[b].refused # 0 /\ stood' = [stood EXCEPT ![b] = DefenseOf!Closed]
          /\ understood' = [understood EXCEPT ![b] = "needs_review"]
      BY <2>4, <2>5, <2>6
    <3>2. DefenseOf!Refuse(b)
      BY <2>5, <3>1 DEF DefenseOf!Refuse
    <3> QED BY <3>2 DEF DefenseOf!Next
  <2>7. CASE ~again
    <3>1. stood[b].refused = 0 /\ understood' = understood
      BY <2>1, <2>5, <2>7
    <3>2. stood' = [stood EXCEPT ![b] = [stood[b] EXCEPT !.refused = 1]]
      <4>1. Stands(session', b) = [Stands(session, b) EXCEPT !.refused = 1]
        <5>1. session[s].retries + 1 = 1
          BY <2>1, <2>7
        <5>2. Stands(session', b) = [open |-> TRUE, stage |-> session[s].stage, refused |-> 1]
          BY <2>4, <2>7, <5>1
        <5>3. PICK yes : yes = TRUE
          OBVIOUS
        <5>4. [[open |-> yes, stage |-> session[s].stage, refused |-> session[s].retries]
                  EXCEPT !.refused = 1]
                = [open |-> yes, stage |-> session[s].stage, refused |-> 1]
          OBVIOUS
        <5> QED BY <2>4, <5>2, <5>3, <5>4, Zenon
      <4> QED BY <2>5, <4>1
    <3>3. DefenseOf!Refuse(b)
      BY <2>5, <3>1, <3>2 DEF DefenseOf!Refuse
    <3> QED BY <3>3 DEF DefenseOf!Next
  <2> QED BY <2>6, <2>7
<1> QED BY <1>3, <1>4, <1>5, <1>6, <1>7, <1>8, DefenseSteps

\* With one worker process every turn, retry, replay and crash amounts to a
\* step of the plain protocol of a defense, or to none.
THEOREM DefenseImplemented ==
    ASSUME OneWorker
    PROVE  Spec => ImplementsDefense
<1>1. DialoguesInv /\ [Next]_vars => [DefenseOf!Next]_(DefenseOf!vars)
  BY DefenseStep
<1>2. Spec => DefenseOf!Init /\ [][DefenseOf!Next]_(DefenseOf!vars)
  BY <1>1, DefenseInit, DialoguesHold, PTL DEF Spec
<1> QED BY <1>2 DEF ImplementsDefense, DefenseOf!Spec
=============================================================================
