---------------------------- MODULE ForgejoProofs -----------------------------
(* Theorems about ForgejoServer, for every value of its constants.          *)
EXTENDS ForgejoServer, TLAPS

-----------------------------------------------------------------------------
(* Type correctness.  TypeOK alone is not inductive: that a handler finds    *)
(* its flow, its subject or its user in its own variables depends on where   *)
(* it is, and that a token can name a user on the flow having been ready.    *)

Handling == {"open", "claim", "fetch", "resolve", "fail", "consume", "mint"}

\* Local variables a call can have at a place of its handler.
Fits(here, row) ==
    /\ row \in CallRow
    /\ here \in Handling => row.flow \in Flows
    /\ here = "resolve" => row.subject \in Subjects /\ row.name \in Names
    /\ here = "mint" => row.user \in Users
    /\ here = "approve" => row.name \in Names /\ row.user \in Users

AccountInv ==
    /\ student \in [Users -> StudentRow]
    /\ identity \in [Subjects -> Users \cup {None}]
    /\ registration \in BOOLEAN
    /\ linked \subseteq Subjects \X Users

\* The CHECK of the table, and its NOT NULL columns.
ApprovalRowOK(row) ==
    /\ row \in ApprovalRow
    /\ row.status = "consumed" <=> row.subject # None
    /\ row.status = "pending" => row.name \in Names /\ row.user \in Users

ApprovalInv ==
    /\ approval \in [Approvals -> ApprovalRow]
    /\ \A a \in Approvals : ApprovalRowOK(approval[a])

FlowRowOK(row) == row \in FlowRow /\ (row.phase = "ready" => row.user \in Users)

FlowInv ==
    /\ flow \in [Flows -> FlowRow]
    /\ \A f \in Flows : FlowRowOK(flow[f])

CallInv ==
    /\ pc \in [Calls -> Places]
    /\ call \in [Calls -> CallRow]
    /\ \A c \in Calls : Fits(pc[c], call[c])

HistoryInv ==
    /\ signed \in [Flows -> [subject : Subjects \cup {None}, user : Users \cup {None}]]
    /\ token \in [Flows -> Users \cup {None}]
    /\ minted \in [Flows -> Nat]

TypeInv == AccountInv /\ ApprovalInv /\ FlowInv /\ CallInv /\ HistoryInv

LEMMA RowTypes ==
    /\ NoArgs \in CallRow /\ Fits("idle", NoArgs)
    /\ Unused \in StudentRow
    /\ NoApproval \in ApprovalRow /\ ApprovalRowOK(NoApproval)
    /\ NoFlow \in FlowRow /\ FlowRowOK(NoFlow)
BY DEF NoArgs, Unused, NoApproval, NoFlow, CallRow, StudentRow, ApprovalRow, FlowRow,
       Fits, Handling, ApprovalRowOK, FlowRowOK

LEMMA TypeInvInit == Init => TypeInv
<1> SUFFICES ASSUME Init PROVE TypeInv
  OBVIOUS
<1>1. AccountInv
  BY RowTypes, ForgejoAssumption DEF Init, AccountInv, StudentRow
<1>2. ApprovalInv /\ FlowInv
  BY RowTypes DEF Init, ApprovalInv, FlowInv
<1>3. CallInv
  BY RowTypes DEF Init, CallInv, Places
<1>4. HistoryInv
  BY DEF Init, HistoryInv, Nobody
<1> QED BY <1>1, <1>2, <1>3, <1>4 DEF TypeInv

-----------------------------------------------------------------------------
(* How control moves keep CallInv, and how one row keeps its table.          *)

LEMMA MoveFits ==
    ASSUME CallInv, NEW c \in Calls, NEW here \in Places, NEW row, Fits(here, row),
           pc' = [pc EXCEPT ![c] = here], call' = [call EXCEPT ![c] = row]
    PROVE  CallInv'
BY DEF CallInv, Fits

LEMMA ArriveFits ==
    ASSUME CallInv, NEW c \in Calls, NEW here \in Places, NEW row, Fits(here, row),
           Arrive(c, here, row)
    PROVE  CallInv'
BY MoveFits DEF Arrive

LEMMA GotoFits ==
    ASSUME CallInv, NEW c \in Calls, NEW here \in Places, Fits(here, call[c]), Goto(c, here)
    PROVE  CallInv'
BY DEF CallInv, Fits, Goto

LEMMA ReplyFits ==
    ASSUME CallInv, NEW c \in Calls,
           NEW reply \in {"refused", "token", "success", "failure"}, Reply(c, reply)
    PROVE  CallInv'
<1>1. [call[c] EXCEPT !.reply = reply] \in CallRow
  BY DEF CallInv, CallRow
<1>2. call' = [call EXCEPT ![c] = [call[c] EXCEPT !.reply = reply]]
  BY Zenon DEF Reply
<1>3. Fits("replied", [call[c] EXCEPT !.reply = reply])
  BY <1>1 DEF Fits, Handling
<1> QED BY <1>1, <1>2, <1>3, MoveFits DEF Reply, Places

LEMMA ReturnFits ==
    ASSUME CallInv, NEW c \in Calls, Return(c)
    PROVE  CallInv'
BY RowTypes, MoveFits DEF Return, Places

LEMMA FlowRowKept ==
    ASSUME FlowInv, NEW f \in Flows, NEW row, FlowRowOK(row), flow' = [flow EXCEPT ![f] = row]
    PROVE  FlowInv'
BY DEF FlowInv, FlowRowOK

LEMMA ApprovalRowKept ==
    ASSUME ApprovalInv, NEW a \in Approvals, NEW row, ApprovalRowOK(row),
           approval' = [approval EXCEPT ![a] = row]
    PROVE  ApprovalInv'
BY DEF ApprovalInv, ApprovalRowOK

\* A phase other than "ready" needs no user.
LEMMA PhaseKept ==
    ASSUME FlowInv, NEW f \in Flows,
           NEW phase \in {"pending", "browser", "exchanging", "failed", "gone"},
           flow' = [flow EXCEPT ![f].phase = phase]
    PROVE  FlowInv'
<1>1. FlowRowOK([flow[f] EXCEPT !.phase = phase])
  BY DEF FlowInv, FlowRowOK, FlowRow
<1>2. flow' = [flow EXCEPT ![f] = [flow[f] EXCEPT !.phase = phase]]
  BY Zenon
<1> QED BY <1>1, <1>2, FlowRowKept

\* The two updates that set another column with the phase.
LEMMA OpenedRow ==
    ASSUME NEW row \in FlowRow, NEW b \in Browsers \cup {None}
    PROVE  FlowRowOK([row EXCEPT !.phase = "browser", !.browser = b])
<1> DEFINE new == [row EXCEPT !.phase = "browser", !.browser = b]
<1>1. new \in FlowRow /\ new.phase = "browser"
  BY DEF FlowRow
<1> HIDE DEF new
<1>2. FlowRowOK(new)
  BY <1>1 DEF FlowRowOK
<1> QED BY <1>2 DEF new

LEMMA ReadyRow ==
    ASSUME NEW row \in FlowRow, NEW u \in Users
    PROVE  FlowRowOK([row EXCEPT !.phase = "ready", !.user = u])
<1> DEFINE new == [row EXCEPT !.phase = "ready", !.user = u]
<1>1. new \in FlowRow /\ new.user = u
  BY DEF FlowRow
<1> HIDE DEF new
<1>2. FlowRowOK(new)
  BY <1>1 DEF FlowRowOK
<1> QED BY <1>2 DEF new

LEMMA GoneRow == FlowRowOK([NoFlow EXCEPT !.phase = "gone"])
                 /\ FlowRowOK([NoFlow EXCEPT !.phase = "pending"])
BY DEF NoFlow, FlowRowOK, FlowRow

-----------------------------------------------------------------------------
(* One lemma per handler.                                                    *)

\* What a new call of each kind starts with.
LEMMA ArgumentTypes ==
    ASSUME NEW f \in Flows
    PROVE  /\ Fits("replied", [NoArgs EXCEPT !.op = "start", !.flow = f, !.reply = "started"])
           /\ \A b \in Browsers :
                Fits("open", [NoArgs EXCEPT !.op = "authorize", !.flow = f, !.browser = b])
           /\ \A b \in Browsers :
                Fits("claim", [NoArgs EXCEPT !.op = "callback", !.flow = f, !.browser = b])
           /\ \A reply \in {"refused", "pending"} :
                Fits("replied", [[NoArgs EXCEPT !.op = "exchange", !.flow = f]
                                   EXCEPT !.reply = reply])
           /\ Fits("consume", [NoArgs EXCEPT !.op = "exchange", !.flow = f])
BY DEF NoArgs, Fits, Handling, CallRow

LEMMA StartTypes ==
    ASSUME TypeInv, NEW c \in Calls, NEW f \in Flows, Start(c, f)
    PROVE  TypeInv'
<1> USE DEF TypeInv
<1>1. CallInv'
  <2> DEFINE args == [NoArgs EXCEPT !.op = "start", !.flow = f, !.reply = "started"]
  <2>1. Fits("replied", args)
    BY ArgumentTypes
  <2>2. Arrive(c, "replied", args)
    BY Zenon DEF Start
  <2> HIDE DEF args
  <2> QED BY <2>1, <2>2, ArriveFits DEF Places
<1>2. FlowInv'
  <2>1. \A g \in Flows : FlowRowOK(Purged(g))
    BY GoneRow DEF FlowInv, Purged
  <2>2. \A g \in Flows : FlowRowOK(flow'[g])
    BY <2>1, GoneRow DEF Start
  <2>3. flow' = [g \in Flows |-> flow'[g]]
    BY DEF Start
  <2> QED BY <2>2, <2>3 DEF FlowInv, FlowRowOK
<1> QED BY <1>1, <1>2 DEF Start, accounts, history, AccountInv, ApprovalInv, HistoryInv

LEMMA ClientTypes ==
    ASSUME TypeInv, NEW c \in Calls, Client(c)
    PROVE  TypeInv'
<1> USE DEF TypeInv
<1>1. ASSUME NEW f \in Flows, NEW b \in Browsers, Authorize(c, f, b) PROVE TypeInv'
  <2>1. CallInv'
    <3> DEFINE args == [NoArgs EXCEPT !.op = "authorize", !.flow = f, !.browser = b]
    <3>1. Fits("open", args)
      BY ArgumentTypes
    <3>2. Arrive(c, "open", args)
      BY <1>1, Zenon DEF Authorize
    <3> HIDE DEF args
    <3> QED BY <3>1, <3>2, ArriveFits DEF Places
  <2> QED BY <1>1, <2>1
          DEF Authorize, accounts, history, AccountInv, ApprovalInv, FlowInv, HistoryInv
<1>2. ASSUME NEW f \in Flows, NEW b \in Browsers, Callback(c, f, b) PROVE TypeInv'
  <2>1. CallInv'
    <3> DEFINE args == [NoArgs EXCEPT !.op = "callback", !.flow = f, !.browser = b]
    <3>1. Fits("claim", args)
      BY ArgumentTypes
    <3>2. Arrive(c, "claim", args)
      BY <1>2, Zenon DEF Callback
    <3> HIDE DEF args
    <3> QED BY <3>1, <3>2, ArriveFits DEF Places
  <2> QED BY <1>2, <2>1
          DEF Callback, accounts, history, AccountInv, ApprovalInv, FlowInv, HistoryInv
<1>3. ASSUME NEW f \in Flows, NEW ticket \in BOOLEAN, Exchange(c, f, ticket) PROVE TypeInv'
  <2> DEFINE args == [NoArgs EXCEPT !.op = "exchange", !.flow = f]
  <2>1. \/ \E reply \in {"refused", "pending"} :
             Arrive(c, "replied", [args EXCEPT !.reply = reply])
        \/ Arrive(c, "consume", args)
    BY <1>3, Zenon DEF Exchange
  <2>2. CallInv'
    BY <2>1, ArriveFits, ArgumentTypes DEF Places
  <2> QED BY <1>3, <2>2
          DEF Exchange, accounts, history, AccountInv, ApprovalInv, FlowInv, HistoryInv
<1> QED BY <1>1, <1>2, <1>3, StartTypes DEF Client

LEMMA OpenLoginTypes ==
    ASSUME TypeInv, NEW c \in Calls, OpenLogin(c)
    PROVE  TypeInv'
<1> USE DEF TypeInv
<1> DEFINE f == call[c].flow
           new == [flow[f] EXCEPT !.phase = "browser", !.browser = call[c].browser]
<1>1. f \in Flows /\ call[c].browser \in Browsers \cup {None}
  BY DEF OpenLogin, CallInv, Fits, Handling, CallRow
<1>2. FlowInv'
  <2>1. CASE flow[f].phase # "pending"
    BY <2>1, Zenon DEF OpenLogin, FlowInv
  <2>2. CASE flow[f].phase = "pending"
    <3>1. FlowRowOK(new)
      BY <1>1, OpenedRow DEF FlowInv
    <3>2. flow' = [flow EXCEPT ![f] = new]
      BY <2>2 DEF OpenLogin
    <3> QED BY <1>1, <3>1, <3>2, FlowRowKept
  <2> QED BY <2>1, <2>2
<1>3. CallInv'
  BY ReturnFits DEF OpenLogin
<1> QED BY <1>2, <1>3 DEF OpenLogin, accounts, history, AccountInv, ApprovalInv, HistoryInv

LEMMA ClaimTypes ==
    ASSUME TypeInv, NEW c \in Calls, Claim(c) \/ ClaimRefused(c)
    PROVE  TypeInv'
<1> USE DEF TypeInv
<1>1. CASE Claim(c)
  <2>1. call[c].flow \in Flows /\ Fits("fetch", call[c])
    BY <1>1 DEF Claim, CallInv, Fits, Handling
  <2>2. FlowInv'
    BY <1>1, <2>1, PhaseKept DEF Claim
  <2>3. CallInv'
    BY <1>1, <2>1, GotoFits DEF Claim, Places
  <2> QED BY <1>1, <2>2, <2>3
          DEF Claim, accounts, history, AccountInv, ApprovalInv, HistoryInv
<1>2. CASE ClaimRefused(c)
  <2>1. CallInv'
    BY <1>2, ReturnFits DEF ClaimRefused
  <2> QED BY <1>2, <2>1
          DEF ClaimRefused, accounts, history, AccountInv, ApprovalInv, FlowInv, HistoryInv
<1> QED BY <1>1, <1>2

LEMMA FetchTypes ==
    ASSUME TypeInv, NEW c \in Calls,
           FetchFails(c) \/ \E s \in Subjects, n \in Names : Fetched(c, s, n)
    PROVE  TypeInv'
<1> USE DEF TypeInv
<1>1. ASSUME NEW s \in Subjects, NEW n \in Names, Fetched(c, s, n) PROVE TypeInv'
  <2> DEFINE new == [call[c] EXCEPT !.subject = s, !.name = n]
  <2>1. Fits("resolve", new)
    BY <1>1, ZenonT(30) DEF Fetched, CallInv, Fits, Handling, CallRow
  <2>2. call' = [call EXCEPT ![c] = new]
    BY <1>1 DEF Fetched
  <2>3. CallInv'
    BY <1>1, <2>1, <2>2, MoveFits DEF Fetched, Places
  <2> QED BY <1>1, <2>3
          DEF Fetched, accounts, history, AccountInv, ApprovalInv, FlowInv, HistoryInv
<1>2. CASE FetchFails(c)
  <2>1. Fits("fail", call[c])
    BY <1>2 DEF FetchFails, CallInv, Fits, Handling
  <2>2. CallInv'
    BY <1>2, <2>1, GotoFits DEF FetchFails, Places
  <2> QED BY <1>2, <2>2
          DEF FetchFails, accounts, history, AccountInv, ApprovalInv, FlowInv, HistoryInv
<1> QED BY <1>1, <1>2

\* The end of every successful sign-in.
LEMMA SignInTypes ==
    ASSUME TypeInv, NEW c \in Calls, NEW u \in Users, pc[c] = "resolve", SignIn(c, u)
    PROVE  FlowInv' /\ CallInv' /\ HistoryInv' /\ registration' \in BOOLEAN
           /\ linked' \subseteq Subjects \X Users
<1> USE DEF TypeInv
<1> DEFINE f == call[c].flow
           new == [flow[f] EXCEPT !.phase = "ready", !.user = u]
<1>1. f \in Flows /\ call[c].subject \in Subjects
  BY DEF CallInv, Fits, Handling
<1>2. FlowInv'
  <2>1. CASE HasRow(f)
    <3>1. FlowRowOK(new)
      BY <1>1, ReadyRow DEF FlowInv
    <3>2. flow' = [flow EXCEPT ![f] = new]
      BY <2>1 DEF SignIn
    <3> QED BY <1>1, <3>1, <3>2, FlowRowKept
  <2>2. CASE ~HasRow(f)
    BY <2>2, Zenon DEF SignIn, FlowInv
  <2> QED BY <2>1, <2>2
<1>3. CallInv'
  BY ReplyFits DEF SignIn
<1>4. HistoryInv'
  BY <1>1 DEF SignIn, HistoryInv
<1> QED BY <1>2, <1>3, <1>4 DEF SignIn, AccountInv

LEMMA ResolveTypes ==
    ASSUME TypeInv, NEW c \in Calls,
           \/ ResolveKnown(c)
           \/ \E a \in Approvals : ResolveApproved(c, a)
           \/ \E u \in Users : ResolveRegistered(c, u)
           \/ ResolveRefused(c)
    PROVE  TypeInv'
<1> USE DEF TypeInv
<1> DEFINE s == call[c].subject
<1>1. CASE ResolveKnown(c)
  <2>1. s \in Subjects /\ identity[s] \in Users
    BY <1>1 DEF ResolveKnown, CallInv, Fits, AccountInv
  <2> QED BY <1>1, <2>1, SignInTypes DEF ResolveKnown, AccountInv, ApprovalInv
<1>2. ASSUME NEW a \in Approvals, ResolveApproved(c, a) PROVE TypeInv'
  <2> DEFINE new == [approval[a] EXCEPT !.status = "consumed", !.subject = s]
             u == approval[a].user
  <2>1. s \in Subjects /\ u \in Users
    BY <1>2 DEF ResolveApproved, NewSubject, Matching, CallInv, Fits, ApprovalInv, ApprovalRowOK
  <2>2. ApprovalInv'
    <3>1. approval[a] \in ApprovalRow
      BY DEF ApprovalInv
    <3>2. new \in ApprovalRow /\ new.status = "consumed" /\ new.subject = s
      BY <2>1, <3>1 DEF ApprovalRow
    <3>3. approval' = [approval EXCEPT ![a] = new]
      BY <1>2 DEF ResolveApproved, ApprovalSpent
    <3> HIDE DEF new
    <3>4. ApprovalRowOK(new)
      BY <2>1, <3>2, ForgejoAssumption DEF ApprovalRowOK
    <3> QED BY <3>3, <3>4, ApprovalRowKept
  <2>3. pc[c] = "resolve" /\ SignIn(c, u)
    BY <1>2 DEF ResolveApproved, NewSubject
  <2>4. AccountInv'
    BY <1>2, <2>1, <2>3, SignInTypes DEF ResolveApproved, AccountInv
  <2> QED BY <2>1, <2>2, <2>3, <2>4, SignInTypes
<1>3. ASSUME NEW u \in Users, ResolveRegistered(c, u) PROVE TypeInv'
  <2>1. s \in Subjects /\ call[c].name \in Names /\ pc[c] = "resolve"
    BY <1>3 DEF ResolveRegistered, NewSubject, CallInv, Fits
  <2>2. FreeName(c, u) \in Names \cup Users
    BY <2>1 DEF FreeName
  <2>3. SignIn(c, u) /\ approval' = approval
    BY <1>3 DEF ResolveRegistered
  <2>4. AccountInv'
    <3>1. [status |-> "live", name |-> FreeName(c, u)] \in StudentRow
      BY <2>2 DEF StudentRow
    <3>2. student' \in [Users -> StudentRow] /\ identity' \in [Subjects -> Users \cup {None}]
      BY <1>3, <2>1, <3>1 DEF ResolveRegistered, AccountInv
    <3> QED BY <2>1, <2>3, <3>2, SignInTypes DEF AccountInv
  <2> QED BY <2>1, <2>3, <2>4, SignInTypes DEF ApprovalInv
<1>4. CASE ResolveRefused(c)
  <2>1. Fits("fail", call[c])
    BY <1>4 DEF ResolveRefused, NewSubject, CallInv, Fits, Handling
  <2>2. CallInv'
    BY <1>4, <2>1, GotoFits DEF ResolveRefused, Places
  <2> QED BY <1>4, <2>2
          DEF ResolveRefused, accounts, history, AccountInv, ApprovalInv, FlowInv, HistoryInv
<1> QED BY <1>1, <1>2, <1>3, <1>4

LEMMA FailTypes ==
    ASSUME TypeInv, NEW c \in Calls, Fail(c)
    PROVE  TypeInv'
<1> USE DEF TypeInv
<1>1. call[c].flow \in Flows
  BY DEF Fail, CallInv, Fits, Handling
<1>2. FlowInv'
  <2>1. CASE HasRow(call[c].flow)
    BY <1>1, <2>1, PhaseKept DEF Fail
  <2>2. CASE ~HasRow(call[c].flow)
    BY <2>2, Zenon DEF Fail, FlowInv
  <2> QED BY <2>1, <2>2
<1>3. CallInv'
  BY ReplyFits DEF Fail
<1> QED BY <1>2, <1>3 DEF Fail, accounts, history, AccountInv, ApprovalInv, HistoryInv

LEMMA ExchangeTypes ==
    ASSUME TypeInv, NEW c \in Calls, ExchangeStep(c)
    PROVE  TypeInv'
<1> USE DEF TypeInv
<1> DEFINE f == call[c].flow
<1>1. CASE Consume(c)
  <2>1. f \in Flows
    BY <1>1 DEF Consume, CallInv, Fits, Handling
  <2>2. FlowInv'
    BY <1>1, <2>1, GoneRow, FlowRowKept DEF Consume, Consumed
  <2>3. CallInv'
    <3> DEFINE new == [call[c] EXCEPT !.user = flow[f].user]
    <3>1. flow[f].user \in Users
      BY <1>1, <2>1 DEF Consume, FlowInv, FlowRowOK
    <3>2. Fits("mint", new)
      BY <2>1, <3>1 DEF CallInv, Fits, Handling, CallRow
    <3>3. call' = [call EXCEPT ![c] = new]
      BY <1>1, Zenon DEF Consume
    <3> QED BY <1>1, <3>2, <3>3, MoveFits DEF Consume, Places
  <2> QED BY <1>1, <2>2, <2>3
          DEF Consume, accounts, history, AccountInv, ApprovalInv, HistoryInv
<1>2. CASE Mint(c)
  <2>1. f \in Flows /\ call[c].user \in Users
    BY <1>2 DEF Mint, CallInv, Fits, Handling
  <2>2. HistoryInv'
    BY <1>2, <2>1 DEF Mint, HistoryInv
  <2>3. CallInv'
    BY <1>2, ReplyFits DEF Mint
  <2> QED BY <1>2, <2>2, <2>3 DEF Mint, accounts, AccountInv, ApprovalInv, FlowInv
<1>3. CASE ConsumeRefused(c) \/ MintRefused(c)
  <2>1. CallInv'
    BY <1>3, ReplyFits DEF ConsumeRefused, MintRefused
  <2> QED BY <1>3, <2>1 DEF ConsumeRefused, MintRefused, accounts, history,
                            AccountInv, ApprovalInv, FlowInv, HistoryInv
<1> QED BY <1>1, <1>2, <1>3 DEF ExchangeStep

\* link-forgejo --username, in its two transactions.
LEMMA ApproveTypes ==
    ASSUME TypeInv, NEW c \in Calls,
           ApproveStep(c) \/ \E n \in Names, u \in Users : Approve(c, n, u)
    PROVE  TypeInv'
<1> USE DEF TypeInv
<1>1. ASSUME NEW n \in Names, NEW u \in Users, Approve(c, n, u) PROVE TypeInv'
  <2>1. CallInv'
    <3> DEFINE args == [NoArgs EXCEPT !.op = "approve", !.name = n, !.user = u]
    <3>1. Fits("approve", args)
      BY DEF NoArgs, Fits, Handling, CallRow
    <3>2. Arrive(c, "approve", args)
      BY <1>1, Zenon DEF Approve
    <3> HIDE DEF args
    <3> QED BY <3>1, <3>2, ArriveFits DEF Places
  <2>2. ApprovalInv'
    <3>1. \A a \in Approvals : approval[a].status = "pending" =>
            ApprovalRowOK([approval[a] EXCEPT !.status = "expired"])
      BY DEF ApprovalInv, ApprovalRowOK, ApprovalRow
    <3>2. \A a \in Approvals : ApprovalRowOK(approval'[a])
      BY <1>1, <3>1 DEF Approve, ApprovalInv
    <3>3. approval' = [a \in Approvals |-> approval'[a]]
      BY <1>1 DEF Approve
    <3> QED BY <3>2, <3>3 DEF ApprovalInv, ApprovalRowOK
  <2> QED BY <1>1, <2>1, <2>2 DEF Approve, history, AccountInv, FlowInv, HistoryInv
<1>2. ASSUME NEW a \in Approvals, InsertApproval(c, a) PROVE TypeInv'
  <2> DEFINE new == [NoApproval EXCEPT !.status = "pending", !.name = call[c].name,
                                       !.user = call[c].user]
  <2>1. call[c].name \in Names /\ call[c].user \in Users
    BY <1>2 DEF InsertApproval, CallInv, Fits
  <2>2. /\ new \in ApprovalRow /\ new.status = "pending" /\ new.subject = None
        /\ new.name \in Names /\ new.user \in Users
    BY <2>1 DEF NoApproval, ApprovalRow
  <2>3. approval' = [approval EXCEPT ![a] = new]
    BY <1>2 DEF InsertApproval
  <2> HIDE DEF new
  <2>4. ApprovalRowOK(new)
    BY <2>2 DEF ApprovalRowOK
  <2>5. ApprovalInv'
    BY <2>3, <2>4, ApprovalRowKept
  <2>6. CallInv'
    BY <1>2, ReturnFits DEF InsertApproval
  <2> QED BY <1>2, <2>5, <2>6 DEF InsertApproval, history, AccountInv, FlowInv, HistoryInv
<1>3. CASE RefuseApproval(c)
  <2>1. CallInv'
    BY <1>3, ReturnFits DEF RefuseApproval
  <2> QED BY <1>3, <2>1 DEF RefuseApproval, accounts, history,
                            AccountInv, ApprovalInv, FlowInv, HistoryInv
<1> QED BY <1>1, <1>2, <1>3 DEF ApproveStep

LEMMA OperatorTypes ==
    ASSUME TypeInv,
           \/ \E s \in Subjects, u \in Users : LinkSubject(s, u)
           \/ SetRegistration
           \/ \E u \in Users : DeleteUser(u)
    PROVE  TypeInv'
<1> USE DEF TypeInv
<1>1. ASSUME NEW s \in Subjects, NEW u \in Users, LinkSubject(s, u) PROVE TypeInv'
  <2>1. AccountInv'
    BY <1>1 DEF LinkSubject, AccountInv
  <2> QED BY <1>1, <2>1 DEF LinkSubject, history, ApprovalInv, FlowInv, CallInv, HistoryInv
<1>2. CASE SetRegistration
  BY <1>2 DEF SetRegistration, history, AccountInv, ApprovalInv, FlowInv, CallInv, HistoryInv
<1>3. ASSUME NEW u \in Users, DeleteUser(u) PROVE TypeInv'
  <2>1. AccountInv'
    BY <1>3 DEF DeleteUser, AccountInv, StudentRow
  <2>2. FlowInv'
    <3>1. \A f \in Flows : FlowRowOK(flow'[f])
      BY <1>3, GoneRow DEF DeleteUser, FlowInv
    <3>2. flow' = [f \in Flows |-> flow'[f]]
      BY <1>3 DEF DeleteUser
    <3> QED BY <3>1, <3>2 DEF FlowInv, FlowRowOK
  <2> QED BY <1>3, <2>1, <2>2 DEF DeleteUser, history, ApprovalInv, CallInv, HistoryInv
<1> QED BY <1>1, <1>2, <1>3

LEMMA EnvironmentTypes ==
    ASSUME TypeInv, Time \/ \E c \in Calls : Dies(c)
    PROVE  TypeInv'
<1> USE DEF TypeInv
<1>1. ASSUME NEW f \in Flows, Expire(f) PROVE TypeInv'
  <2> DEFINE new == [flow[f] EXCEPT !.old = TRUE]
  <2>1. FlowRowOK(new)
    BY DEF FlowInv, FlowRowOK, FlowRow
  <2>2. flow' = [flow EXCEPT ![f] = new]
    BY <1>1, Zenon DEF Expire
  <2>3. FlowInv'
    BY <2>1, <2>2, FlowRowKept
  <2> QED BY <1>1, <2>3 DEF Expire, accounts, history, AccountInv, ApprovalInv, CallInv, HistoryInv
<1>2. ASSUME NEW a \in Approvals, ExpireApproval(a) PROVE TypeInv'
  <2> DEFINE new == [approval[a] EXCEPT !.old = TRUE]
  <2>1. ApprovalRowOK(new)
    BY DEF ApprovalInv, ApprovalRowOK, ApprovalRow
  <2>2. approval' = [approval EXCEPT ![a] = new]
    BY <1>2, Zenon DEF ExpireApproval
  <2>3. ApprovalInv'
    BY <2>1, <2>2, ApprovalRowKept
  <2> QED BY <1>2, <2>3 DEF ExpireApproval, history, AccountInv, FlowInv, CallInv, HistoryInv
<1>3. ASSUME NEW c \in Calls, Dies(c) PROVE TypeInv'
  <2>1. CallInv'
    BY <1>3, ReturnFits DEF Dies
  <2> QED BY <1>3, <2>1 DEF Dies, accounts, history, AccountInv, ApprovalInv, FlowInv, HistoryInv
<1> QED BY <1>1, <1>2, <1>3 DEF Time

LEMMA TypeInvStep == TypeInv /\ [Next]_serverVars => TypeInv'
<1> SUFFICES ASSUME TypeInv, [Next]_serverVars PROVE TypeInv'
  OBVIOUS
<1>1. ASSUME NEW c \in Calls, Client(c) \/ Step(c) \/ Dies(c) PROVE TypeInv'
  BY <1>1, ClientTypes, OpenLoginTypes, ClaimTypes, FetchTypes, ResolveTypes, FailTypes,
     ExchangeTypes, ApproveTypes, EnvironmentTypes DEF Step, CallbackStep
<1>2. CASE Operator
  BY <1>2, ApproveTypes, OperatorTypes DEF Operator
<1>3. CASE Time
  BY <1>3, EnvironmentTypes
<1>4. CASE UNCHANGED serverVars
  BY <1>4 DEF serverVars, accounts, history, TypeInv, AccountInv, ApprovalInv, FlowInv,
             CallInv, HistoryInv
<1> QED BY <1>1, <1>2, <1>3, <1>4 DEF Next

\* Type correctness: however handlers, commands and deaths interleave, the rows
\* of students, external_identities, forgejo_link_approvals and oauth_flows
\* keep to their columns' domains and to the CHECK of the approvals.
THEOREM TypeCorrect == Spec => []TypeOK
<1>1. TypeInv => TypeOK
  BY DEF TypeInv, TypeOK, AccountInv, ApprovalInv, ApprovalRowOK, FlowInv, CallInv, HistoryInv
<1> QED BY <1>1, TypeInvInit, TypeInvStep, PTL DEF Spec

-----------------------------------------------------------------------------
(* One token for each login attempt.  What makes it inductive: a row that    *)
(* was consumed never returns, and until its token is minted exactly one     *)
(* call holds it.                                                            *)

TakenOnce ==
    /\ \A c, d \in Calls, f \in Flows : Taking(c, f) /\ Taking(d, f) => c = d
    /\ \A c \in Calls, f \in Flows : Taking(c, f) => flow[f].phase = "gone" /\ minted[f] = 0
    /\ \A f \in Flows : minted[f] # 0 => minted[f] = 1 /\ flow[f].phase = "gone"

\* A row that is gone stays gone: nothing but Start, on a fresh state, inserts.
LEMMA GoneStays ==
    ASSUME TypeInv, [Next]_serverVars, NEW f \in Flows, flow[f].phase = "gone"
    PROVE  flow'[f].phase = "gone"
<1> USE DEF TypeInv, FlowInv
<1>1. ASSUME NEW c \in Calls, NEW g \in Flows, Start(c, g) PROVE flow'[f].phase = "gone"
  BY <1>1 DEF Start, Purged, HasRow
<1>2. ASSUME NEW c \in Calls, OpenLogin(c) PROVE flow'[f].phase = "gone"
  BY <1>2 DEF OpenLogin, FlowRow
<1>3. ASSUME NEW c \in Calls, Claim(c) PROVE flow'[f].phase = "gone"
  BY <1>3 DEF Claim, FlowRow
<1>4. ASSUME NEW c \in Calls, NEW u, SignIn(c, u) PROVE flow'[f].phase = "gone"
  BY <1>4 DEF SignIn, HasRow, FlowRow
<1>5. ASSUME NEW c \in Calls, Fail(c) PROVE flow'[f].phase = "gone"
  BY <1>5 DEF Fail, HasRow, FlowRow
<1>6. ASSUME NEW c \in Calls, Consume(c) PROVE flow'[f].phase = "gone"
  BY <1>6 DEF Consume, Consumed, NoFlow
<1>7. ASSUME NEW u \in Users, DeleteUser(u) PROVE flow'[f].phase = "gone"
  BY <1>7 DEF DeleteUser, HasRow
<1>8. ASSUME NEW g \in Flows, Expire(g) PROVE flow'[f].phase = "gone"
  BY <1>8 DEF Expire, Valid, HasRow, FlowRow
<1>9. CASE UNCHANGED flow
  BY <1>9
<1> QED BY <1>1, <1>2, <1>3, <1>4, <1>5, <1>6, <1>7, <1>8, <1>9, ZenonT(30)
        DEF Next, Client, Step, CallbackStep, ExchangeStep, ApproveStep, Operator, Time,
            Authorize, Callback, Exchange, ClaimRefused, Fetched, FetchFails, ResolveKnown,
            ResolveApproved, ResolveRegistered, ResolveRefused, ConsumeRefused, Mint,
            MintRefused, Approve, InsertApproval, RefuseApproval, LinkSubject,
            SetRegistration, ExpireApproval, Dies, serverVars

\* Every step but Consume and Mint gives no call a row to mint from.
LEMMA NothingTaken ==
    ASSUME TypeInv, [Next]_serverVars, \A c \in Calls : ~Consume(c) /\ ~Mint(c)
    PROVE  /\ \A c \in Calls, f \in Flows : Taking(c, f)' => Taking(c, f)
           /\ minted' = minted /\ token' = token
<1> DEFINE Kept == \A c \in Calls : pc'[c] = "mint" => pc[c] = "mint" /\ call'[c] = call[c]
           Nothing == Kept /\ minted' = minted /\ token' = token
<1> USE DEF TypeInv, CallInv
<1>1. ASSUME NEW d \in Calls, NEW here, NEW row, here # "mint", Arrive(d, here, row) PROVE Kept
  BY <1>1 DEF Arrive
<1>2. ASSUME NEW d \in Calls, NEW here, here # "mint", Goto(d, here) PROVE Kept
  BY <1>2 DEF Goto
<1>3. ASSUME NEW d \in Calls, NEW reply, Reply(d, reply) PROVE Kept
  BY <1>3 DEF Reply
<1>4. ASSUME NEW d \in Calls, Return(d) PROVE Kept
  BY <1>4 DEF Return
<1>5. ASSUME NEW d \in Calls, Client(d) PROVE Nothing
  <2>1. minted' = minted /\ token' = token
    BY <1>5 DEF Client, Start, Authorize, Callback, Exchange, history
  <2>2. \E here \in {"replied", "open", "claim", "consume"} : \E row : Arrive(d, here, row)
    BY <1>5 DEF Client, Start, Authorize, Callback, Exchange
  <2> QED BY <2>1, <2>2, <1>1
<1>6. ASSUME NEW d \in Calls, CallbackStep(d) PROVE Nothing
  <2>1. CASE Claim(d) \/ FetchFails(d) \/ ResolveRefused(d)
    BY <2>1, <1>2 DEF Claim, FetchFails, ResolveRefused, history
  <2>2. CASE ClaimRefused(d)
    BY <2>2, <1>4 DEF ClaimRefused, history
  <2>3. ASSUME NEW s \in Subjects, NEW n \in Names, Fetched(d, s, n) PROVE Nothing
    BY <2>3 DEF Fetched, history
  <2>4. ASSUME NEW u, SignIn(d, u) PROVE Nothing
    BY <2>4, <1>3 DEF SignIn
  <2>5. CASE Fail(d)
    BY <2>5, <1>3 DEF Fail, history
  <2> QED BY <1>6, <2>1, <2>2, <2>3, <2>4, <2>5
          DEF CallbackStep, ResolveKnown, ResolveApproved, ResolveRegistered
<1>7. ASSUME NEW d \in Calls, OpenLogin(d) \/ ApproveStep(d) \/ Dies(d) PROVE Nothing
  BY <1>7, <1>4
     DEF OpenLogin, ApproveStep, RefuseApproval, InsertApproval, Dies, history
<1>8. ASSUME NEW d \in Calls, ExchangeStep(d) PROVE Nothing
  BY <1>8, <1>3 DEF ExchangeStep, ConsumeRefused, MintRefused, history
<1>9. ASSUME Operator PROVE Nothing
  <2>1. ASSUME NEW d \in Calls, NEW n \in Names, NEW u \in Users, Approve(d, n, u)
        PROVE  Nothing
    BY <2>1, <1>1 DEF Approve, history
  <2>2. ASSUME \/ SetRegistration
               \/ \E u \in Users : DeleteUser(u)
               \/ \E s \in Subjects, u \in Users : LinkSubject(s, u)
        PROVE  Nothing
    BY <2>2 DEF SetRegistration, DeleteUser, LinkSubject, history
  <2> QED BY <1>9, <2>1, <2>2 DEF Operator
<1>10. ASSUME Time \/ UNCHANGED serverVars PROVE Nothing
  BY <1>10 DEF Time, Expire, ExpireApproval, serverVars, history
<1>11. Nothing
  BY <1>5, <1>6, <1>7, <1>8, <1>9, <1>10 DEF Next, Step
<1> QED BY <1>11 DEF Taking

LEMMA TakenOnceStep == TypeInv /\ TakenOnce /\ [Next]_serverVars => TakenOnce'
<1> SUFFICES ASSUME TypeInv, TakenOnce, [Next]_serverVars PROVE TakenOnce'
  OBVIOUS
<1> USE DEF TakenOnce
<1>1. CASE \A c \in Calls : ~Consume(c) /\ ~Mint(c)
  BY <1>1, NothingTaken, GoneStays
<1>2. ASSUME NEW c \in Calls, Consume(c) PROVE TakenOnce'
  <2> DEFINE g == call[c].flow
  <2>1. g \in Flows /\ flow[g].phase = "ready" /\ minted' = minted
    BY <1>2 DEF Consume, TypeInv, CallInv, Fits, Handling, history
  <2>2. \A d \in Calls : ~Taking(d, g)
    BY <2>1
  <2>3. flow'[g].phase = "gone"
    BY <1>2, <2>1 DEF Consume, Consumed, NoFlow, TypeInv, FlowInv
  <2>4. \A d \in Calls, f \in Flows : Taking(d, f)' => Taking(d, f) \/ (d = c /\ f = g)
    BY <1>2 DEF Consume, Taking, TypeInv, CallInv, CallRow
  <2> QED BY <2>1, <2>2, <2>3, <2>4, GoneStays
<1>3. ASSUME NEW c \in Calls, Mint(c) PROVE TakenOnce'
  <2> DEFINE g == call[c].flow
  <2>1. g \in Flows /\ Taking(c, g) /\ flow' = flow
    BY <1>3 DEF Mint, Taking, TypeInv, CallInv, Fits, Handling
  <2>2. minted' = [minted EXCEPT ![g] = 1]
    <3>1. minted[g] = 0
      BY <2>1
    <3>2. minted' = [minted EXCEPT ![g] = minted[g] + 1]
      BY <1>3, Zenon DEF Mint
    <3> QED BY <3>1, <3>2
  <2>3. \A d \in Calls, f \in Flows : Taking(d, f)' => Taking(d, f) /\ d # c
    BY <1>3 DEF Mint, Reply, Taking, TypeInv, CallInv
  <2>4. \A f \in Flows : minted'[f] = IF f = g THEN 1 ELSE minted[f]
    BY <2>1, <2>2 DEF TypeInv, HistoryInv
  <2> QED BY <2>1, <2>3, <2>4
<1> QED BY <1>1, <1>2, <1>3

\* A login attempt is worth one token (exchange's DELETE ... RETURNING): no
\* number of repeated callbacks and exchanges, workers and deaths makes it two.
THEOREM OneToken == Spec => []OneTokenPerFlow
<1>1. Init => TakenOnce
  BY DEF Init, TakenOnce, Taking
<1>2. TakenOnce => OneTokenPerFlow
  <2> SUFFICES ASSUME TakenOnce, NEW f \in Flows PROVE minted[f] <= 1
    BY DEF OneTokenPerFlow
  <2>1. minted[f] = 0 \/ minted[f] = 1
    BY DEF TakenOnce
  <2> QED BY <2>1
<1> QED BY <1>1, <1>2, TypeInvInit, TypeInvStep, TakenOnceStep, PTL DEF Spec

-----------------------------------------------------------------------------
(* Accounts.  Four actions change students or external_identities; the rest  *)
(* leave them alone.                                                         *)

LEMMA AccountSteps ==
    ASSUME [Next]_serverVars
    PROVE  \/ UNCHANGED <<student, identity>>
           \/ \E c \in Calls : \E a \in Approvals : ResolveApproved(c, a)
           \/ \E c \in Calls : \E u \in Users : ResolveRegistered(c, u)
           \/ \E s \in Subjects : \E u \in Users : LinkSubject(s, u)
           \/ \E u \in Users : DeleteUser(u)
<1> DEFINE Same == UNCHANGED <<student, identity>>
<1>1. ASSUME NEW c \in Calls, Client(c) \/ Dies(c) \/ OpenLogin(c) PROVE Same
  BY <1>1 DEF Client, Start, Authorize, Callback, Exchange, OpenLogin, Dies, accounts
<1>2. ASSUME NEW c \in Calls, CallbackStep(c)
      PROVE  \/ Same
             \/ \E a \in Approvals : ResolveApproved(c, a)
             \/ \E u \in Users : ResolveRegistered(c, u)
  BY <1>2 DEF CallbackStep, Claim, ClaimRefused, Fetched, FetchFails, ResolveKnown,
              ResolveRefused, Fail, accounts
<1>3. ASSUME NEW c \in Calls, ExchangeStep(c) PROVE Same
  BY <1>3 DEF ExchangeStep, Consume, ConsumeRefused, Mint, MintRefused, accounts
<1>4. ASSUME NEW c \in Calls, ApproveStep(c) PROVE Same
  BY <1>4 DEF ApproveStep, InsertApproval, RefuseApproval, accounts
<1>5. ASSUME Operator
      PROVE  \/ Same
             \/ \E s \in Subjects : \E u \in Users : LinkSubject(s, u)
             \/ \E u \in Users : DeleteUser(u)
  BY <1>5 DEF Operator, Approve, SetRegistration
<1>6. ASSUME Time \/ UNCHANGED serverVars PROVE Same
  BY <1>6 DEF Time, Expire, ExpireApproval, serverVars, accounts
<1> QED BY <1>1, <1>2, <1>3, <1>4, <1>5, <1>6 DEF Next, Step

\* What the uniqueness of names needs: an identity's account is live, and an
\* id serves as a name only for its own account.
OneToOneInv ==
    /\ AccountsOneToOne
    /\ \A s \in Subjects : identity[s] # None => Live(identity[s])
    /\ \A u \in Users : Live(u) /\ student[u].name \in Users => student[u].name = u

\* One subject gets one unlinked account.
LEMMA LinkKeepsOneToOne ==
    ASSUME TypeInv, OneToOneInv, NEW s \in Subjects, NEW u \in Users, Live(u), Unlinked(u),
           identity' = [identity EXCEPT ![s] = u], student' = student
    PROVE  OneToOneInv'
BY ForgejoAssumption DEF TypeInv, AccountInv, OneToOneInv, AccountsOneToOne, Live, Unlinked

LEMMA OneToOneStep == TypeInv /\ OneToOneInv /\ [Next]_serverVars => OneToOneInv'
<1> SUFFICES ASSUME TypeInv, OneToOneInv, [Next]_serverVars PROVE OneToOneInv'
  OBVIOUS
<1>1. ASSUME NEW c \in Calls, NEW a \in Approvals, ResolveApproved(c, a)
      PROVE  OneToOneInv'
  <2>1. call[c].subject \in Subjects /\ approval[a].user \in Users
    BY <1>1 DEF ResolveApproved, NewSubject, Matching, TypeInv, CallInv, Fits,
                ApprovalInv, ApprovalRowOK
  <2> QED BY <1>1, <2>1, LinkKeepsOneToOne DEF ResolveApproved, MayLink
<1>2. ASSUME NEW c \in Calls, NEW u \in Users, ResolveRegistered(c, u) PROVE OneToOneInv'
  <2> DEFINE s == call[c].subject
             name == FreeName(c, u)
  <2>1. s \in Subjects /\ call[c].name \in Names
    BY <1>2 DEF ResolveRegistered, NewSubject, TypeInv, CallInv, Fits
  <2>2. /\ student' = [student EXCEPT ![u] = [status |-> "live", name |-> name]]
        /\ identity' = [identity EXCEPT ![s] = u]
    BY <1>2 DEF ResolveRegistered
  <2>3. ~Live(u) /\ Unlinked(u)
    BY <1>2, ForgejoAssumption
       DEF ResolveRegistered, Live, Unlinked, OneToOneInv, TypeInv, AccountInv
  <2>4. /\ name \in Users => name = u
        /\ \A v \in Users : Live(v) /\ v # u => student[v].name # name
    BY <2>1, ForgejoAssumption DEF FreeName, OneToOneInv
  <2> HIDE DEF name
  <2>5. \A v \in Users :
          /\ student'[v].status = IF v = u THEN "live" ELSE student[v].status
          /\ student'[v].name = IF v = u THEN name ELSE student[v].name
    BY <2>2 DEF TypeInv, AccountInv
  <2>6. \A t \in Subjects : identity'[t] = IF t = s THEN u ELSE identity[t]
    BY <2>1, <2>2 DEF TypeInv, AccountInv
  <2>7. \A v \in Users : Live(v)' <=> Live(v) \/ v = u
    BY <2>5 DEF Live
  <2>8. AccountsOneToOne'
    BY <2>3, <2>4, <2>5, <2>6, <2>7 DEF OneToOneInv, AccountsOneToOne, Unlinked
  <2>9. \A t \in Subjects : identity'[t] # None => Live(identity[t])'
    <3> SUFFICES ASSUME NEW t \in Subjects, identity'[t] # None PROVE Live(identity[t])'
      OBVIOUS
    <3>1. CASE identity'[t] = u
      BY <3>1, <2>7
    <3>2. CASE identity'[t] # u
      BY <3>2, <2>6, <2>7 DEF OneToOneInv, TypeInv, AccountInv
    <3> QED BY <3>1, <3>2
  <2> QED BY <2>4, <2>5, <2>7, <2>8, <2>9 DEF OneToOneInv
<1>3. ASSUME NEW s \in Subjects, NEW u \in Users, LinkSubject(s, u) PROVE OneToOneInv'
  BY <1>3, LinkKeepsOneToOne DEF LinkSubject
<1>4. ASSUME NEW u \in Users, DeleteUser(u) PROVE OneToOneInv'
  <2>1. \A v \in Users : /\ Live(v)' <=> Live(v) /\ v # u
                         /\ v # u => student'[v] = student[v]
    BY <1>4 DEF DeleteUser, Live, TypeInv, AccountInv
  <2>2. \A t \in Subjects : identity'[t] = IF identity[t] = u THEN None ELSE identity[t]
    BY <1>4 DEF DeleteUser
  <2>3. AccountsOneToOne'
    BY <2>1, <2>2 DEF OneToOneInv, AccountsOneToOne
  <2>4. \A t \in Subjects : identity'[t] # None => Live(identity[t])'
    BY <2>1, <2>2 DEF OneToOneInv, TypeInv, AccountInv
  <2> QED BY <2>1, <2>3, <2>4 DEF OneToOneInv
<1>5. CASE UNCHANGED <<student, identity>>
  BY <1>5 DEF OneToOneInv, AccountsOneToOne, Live
<1> QED BY <1>1, <1>2, <1>3, <1>4, <1>5, AccountSteps

\* However sign-ins, approvals and links race (resolve_user under BEGIN
\* IMMEDIATE), a subject has one account, an account one subject, and no two
\* live accounts share a name.
THEOREM OneToOne == Spec => []AccountsOneToOne
<1>1. Init => OneToOneInv
  BY ForgejoAssumption DEF Init, OneToOneInv, AccountsOneToOne, Live, Unused
<1>2. OneToOneInv => AccountsOneToOne
  BY DEF OneToOneInv
<1> QED BY <1>1, <1>2, TypeInvInit, TypeInvStep, OneToOneStep, PTL DEF Spec

\* An identity that changes was none before, or its account is deleted.
IdentityKept ==
    \A s \in Subjects : identity[s] # None /\ identity'[s] # identity[s]
                          => student'[identity[s]].status = "deleted"

LEMMA IdentityStep == TypeInv /\ [Next]_serverVars => IdentityKept
<1> SUFFICES ASSUME TypeInv, [Next]_serverVars PROVE IdentityKept
  OBVIOUS
<1>1. ASSUME NEW c \in Calls, NEW a \in Approvals, ResolveApproved(c, a) PROVE IdentityKept
  BY <1>1 DEF ResolveApproved, NewSubject, TypeInv, AccountInv, IdentityKept
<1>2. ASSUME NEW c \in Calls, NEW u \in Users, ResolveRegistered(c, u) PROVE IdentityKept
  BY <1>2 DEF ResolveRegistered, NewSubject, TypeInv, AccountInv, IdentityKept
<1>3. ASSUME NEW s \in Subjects, NEW u \in Users, LinkSubject(s, u) PROVE IdentityKept
  BY <1>3 DEF LinkSubject, TypeInv, AccountInv, IdentityKept
<1>4. ASSUME NEW u \in Users, DeleteUser(u) PROVE IdentityKept
  BY <1>4 DEF DeleteUser, TypeInv, AccountInv, IdentityKept
<1>5. CASE UNCHANGED <<student, identity>>
  BY <1>5 DEF IdentityKept
<1> QED BY <1>1, <1>2, <1>3, <1>4, <1>5, AccountSteps

\* No sign-in, approval or link ever moves a Forgejo user to another account.
THEOREM NeverMoved == Spec => IdentityStays
BY TypeInvInit, TypeInvStep, IdentityStep, PTL DEF Spec, IdentityStays, IdentityKept

-----------------------------------------------------------------------------
(* Equal names never link.  Beside the property, the induction needs that an *)
(* account which existed before is never free to register.                   *)

\* A consumed approval of s for u.
ConsumedFor(a, s, u) ==
    approval[a].status = "consumed" /\ approval[a].subject = s /\ approval[a].user = u

OperatorsInv ==
    /\ OnlyOperatorsLink
    /\ \A u \in Locals : student[u].status # "unused"
    /\ \A a \in Approvals : approval[a].status = "consumed" => approval[a].user \in Users

\* No account is ever restored: its id is not given again.
LEMMA DeletedStays ==
    ASSUME TypeInv, [Next]_serverVars, NEW u \in Users
    PROVE  /\ student[u].status = "deleted" => student'[u].status = "deleted"
           /\ student[u].status # "unused" => student'[u].status # "unused"
<1> USE DEF TypeInv, AccountInv
<1>1. ASSUME NEW v \in Users, DeleteUser(v)
      PROVE  student[u].status # "unused" => student'[u].status # "unused"
  BY <1>1 DEF DeleteUser
<1>2. ASSUME NEW v \in Users, DeleteUser(v)
      PROVE  student[u].status = "deleted" => student'[u].status = "deleted"
  BY <1>2 DEF DeleteUser
<1>3. ASSUME NEW c \in Calls, NEW v \in Users, ResolveRegistered(c, v)
      PROVE  /\ student[u].status = "deleted" => student'[u].status = "deleted"
             /\ student[u].status # "unused" => student'[u].status # "unused"
  BY <1>3 DEF ResolveRegistered
<1> QED BY <1>1, <1>2, <1>3, AccountSteps DEF ResolveApproved, LinkSubject

\* Approvals: what was consumed stays as it is, and only a callback consumes.
LEMMA ConsumedStays ==
    ASSUME TypeInv, [Next]_serverVars, NEW a \in Approvals
    PROVE  /\ approval[a].status = "consumed" => approval'[a] = approval[a]
           /\ approval'[a].status = "consumed" =>
                approval[a].status = "consumed" \/ \E c \in Calls : ResolveApproved(c, a)
<1> DEFINE Kept == /\ approval[a].status = "consumed" => approval'[a] = approval[a]
                   /\ approval'[a].status = "consumed" => approval[a].status = "consumed"
<1> USE DEF TypeInv, ApprovalInv
<1>1. ASSUME NEW c \in Calls, Client(c) \/ Dies(c) \/ OpenLogin(c) \/ ExchangeStep(c) PROVE Kept
  BY <1>1 DEF Client, Start, Authorize, Callback, Exchange, OpenLogin, Dies, accounts,
              ExchangeStep, Consume, ConsumeRefused, Mint, MintRefused
<1>2. ASSUME NEW c \in Calls, CallbackStep(c)
      PROVE  Kept \/ \E b \in Approvals : ResolveApproved(c, b)
  BY <1>2 DEF CallbackStep, Claim, ClaimRefused, Fetched, FetchFails, ResolveKnown,
              ResolveRegistered, ResolveRefused, Fail, accounts
<1>3. ASSUME NEW c \in Calls, NEW b \in Approvals, ResolveApproved(c, b)
      PROVE  Kept \/ (b = a /\ approval[a].status # "consumed")
  <2>1. approval[b].status = "pending"
    BY <1>3 DEF ResolveApproved, Matching
  <2>2. \A d \in Approvals : d # b => approval'[d] = approval[d]
    BY <1>3 DEF ResolveApproved, ApprovalSpent
  <2> QED BY <2>1, <2>2
<1>4. ASSUME NEW c \in Calls, ApproveStep(c) PROVE Kept
  <2>1. ASSUME NEW b \in Approvals, InsertApproval(c, b) PROVE Kept
    <3>1. approval'[b].status = "pending"
      BY <2>1 DEF InsertApproval, NoApproval
    <3>2. \A d \in Approvals : d # b => approval'[d] = approval[d]
      BY <2>1 DEF InsertApproval
    <3> QED BY <2>1, <3>1, <3>2 DEF InsertApproval
  <2> QED BY <1>4, <2>1 DEF ApproveStep, RefuseApproval, accounts
<1>5. ASSUME Operator PROVE Kept
  <2>1. ASSUME NEW c \in Calls, NEW n \in Names, NEW u \in Users, Approve(c, n, u) PROVE Kept
    BY <2>1 DEF Approve, ApprovalRow
  <2> QED BY <1>5, <2>1 DEF Operator, LinkSubject, SetRegistration, DeleteUser
<1>6. ASSUME Time \/ UNCHANGED serverVars PROVE Kept
  <2>1. ASSUME NEW b \in Approvals, ExpireApproval(b) PROVE Kept
    BY <2>1 DEF ExpireApproval, ApprovalRow
  <2> QED BY <1>6, <2>1 DEF Time, Expire, serverVars, accounts
<1>7. Kept \/ \E c \in Calls, b \in Approvals : ResolveApproved(c, b)
  BY <1>1, <1>2, <1>4, <1>5, <1>6 DEF Next, Step
<1> QED BY <1>3, <1>7

\* linked only grows.
LEMMA LinkedStays == [Next]_serverVars => linked \subseteq linked'
<1> SUFFICES ASSUME [Next]_serverVars PROVE linked \subseteq linked'
  OBVIOUS
<1>1. ASSUME NEW c \in Calls, Client(c) \/ Dies(c) \/ OpenLogin(c) \/ ExchangeStep(c)
      PROVE  linked' = linked
  BY <1>1 DEF Client, Start, Authorize, Callback, Exchange, OpenLogin, Dies, accounts,
              ExchangeStep, Consume, ConsumeRefused, Mint, MintRefused
<1>2. ASSUME NEW c \in Calls, CallbackStep(c) \/ ApproveStep(c) PROVE linked' = linked
  BY <1>2 DEF CallbackStep, Claim, ClaimRefused, Fetched, FetchFails, ResolveKnown,
              ResolveApproved, ResolveRegistered, ResolveRefused, SignIn, Fail, accounts,
              ApproveStep, InsertApproval, RefuseApproval
<1>3. ASSUME Operator PROVE linked \subseteq linked'
  BY <1>3 DEF Operator, Approve, LinkSubject, SetRegistration, DeleteUser
<1>4. ASSUME Time \/ UNCHANGED serverVars PROVE linked' = linked
  BY <1>4 DEF Time, Expire, ExpireApproval, serverVars, accounts
<1> QED BY <1>1, <1>2, <1>3, <1>4 DEF Next, Step

\* A subject's account is its old one, or the one it was given by a consumed
\* approval, an operator's link or a registration.
LEMMA NewIdentity ==
    ASSUME TypeInv, [Next]_serverVars, NEW s \in Subjects, identity'[s] # identity[s],
           identity'[s] # None
    PROVE  \/ <<s, identity'[s]>> \in linked'
           \/ \E a \in Approvals : ConsumedFor(a, s, identity[s])'
           \/ student[identity'[s]].status = "unused"
<1> USE DEF TypeInv, AccountInv
<1>1. ASSUME NEW c \in Calls, NEW a \in Approvals, ResolveApproved(c, a)
      PROVE  ConsumedFor(a, s, identity[s])'
  <2>1. call[c].subject = s /\ identity'[s] = approval[a].user
    BY <1>1 DEF ResolveApproved
  <2>2. approval[a] \in ApprovalRow /\ approval' = [approval EXCEPT ![a] =
             [approval[a] EXCEPT !.status = "consumed", !.subject = s]]
    BY <1>1, <2>1, Zenon DEF ResolveApproved, ApprovalSpent, ApprovalInv
  <2>3. /\ approval'[a].status = "consumed" /\ approval'[a].subject = s
        /\ approval'[a].user = approval[a].user
    BY <2>2 DEF ApprovalInv, ApprovalRow
  <2> QED BY <2>1, <2>3 DEF ConsumedFor
<1>2. ASSUME NEW c \in Calls, NEW u \in Users, ResolveRegistered(c, u)
      PROVE  student[identity'[s]].status = "unused"
  BY <1>2 DEF ResolveRegistered
<1>3. ASSUME NEW t \in Subjects, NEW u \in Users, LinkSubject(t, u)
      PROVE  <<s, identity'[s]>> \in linked'
  BY <1>3 DEF LinkSubject
<1>4. ASSUME NEW u \in Users, DeleteUser(u) PROVE FALSE
  BY <1>4 DEF DeleteUser
<1> QED BY <1>1, <1>2, <1>3, <1>4, AccountSteps

LEMMA OperatorsStep == TypeInv /\ OperatorsInv /\ [Next]_serverVars => OperatorsInv'
<1> SUFFICES ASSUME TypeInv, OperatorsInv, [Next]_serverVars PROVE OperatorsInv'
  OBVIOUS
<1> DEFINE Allowed(s, u) == <<s, u>> \in linked \/ \E a \in Approvals : ConsumedFor(a, s, u)
           True(a) == \/ identity[approval[a].subject] = approval[a].user
                      \/ student[approval[a].user].status = "deleted"
<1>1. \A s \in Subjects : identity'[s] \in Locals => Allowed(s, identity[s])'
  <2> SUFFICES ASSUME NEW s \in Subjects, identity'[s] \in Locals PROVE Allowed(s, identity[s])'
    OBVIOUS
  <2>1. CASE identity'[s] = identity[s]
    <3>1. Allowed(s, identity[s])
      BY <2>1 DEF OperatorsInv, OnlyOperatorsLink, ConsumedFor
    <3> QED BY <2>1, <3>1, ConsumedStays, LinkedStays DEF ConsumedFor
  <2>2. CASE identity'[s] # identity[s]
    <3>1. identity'[s] # None /\ student[identity'[s]].status # "unused"
      BY ForgejoAssumption DEF OperatorsInv
    <3> QED BY <2>2, <3>1, NewIdentity
  <2> QED BY <2>1, <2>2
<1>2. ASSUME NEW a \in Approvals, approval'[a].status = "consumed"
      PROVE  approval'[a].user \in Users /\ True(a)'
  <2>1. CASE approval[a].status = "consumed"
    <3>1. approval'[a] = approval[a] /\ approval[a].user \in Users /\ True(a)
      BY <2>1, ConsumedStays DEF OperatorsInv, OnlyOperatorsLink
    <3>2. approval[a].subject \in Subjects
      BY <2>1 DEF TypeInv, ApprovalInv, ApprovalRowOK, ApprovalRow
    <3>3. approval[a].user # None
      BY <3>1, ForgejoAssumption
    <3> QED BY <3>1, <3>2, <3>3, DeletedStays, IdentityStep DEF IdentityKept
  <2>2. ASSUME NEW c \in Calls, ResolveApproved(c, a)
        PROVE  approval'[a].user \in Users /\ True(a)'
    <3> DEFINE s == call[c].subject
    <3>1. s \in Subjects /\ approval[a].user \in Users /\ approval[a] \in ApprovalRow
      BY <2>2 DEF ResolveApproved, NewSubject, Matching, TypeInv, CallInv, Fits,
                  ApprovalInv, ApprovalRowOK
    <3>2. approval' = [approval EXCEPT ![a] =
                         [approval[a] EXCEPT !.status = "consumed", !.subject = s]]
      BY <2>2, Zenon DEF ResolveApproved, ApprovalSpent
    <3>3. approval'[a].subject = s /\ approval'[a].user = approval[a].user
      BY <3>1, <3>2 DEF TypeInv, ApprovalInv, ApprovalRow
    <3>4. identity'[s] = approval[a].user
      BY <2>2, <3>1 DEF ResolveApproved, TypeInv, AccountInv
    <3> QED BY <3>1, <3>3, <3>4
  <2> QED BY <1>2, <2>1, <2>2, ConsumedStays
<1>3. \A u \in Locals : student'[u].status # "unused"
  BY DeletedStays, ForgejoAssumption DEF OperatorsInv
<1> QED BY <1>1, <1>2, <1>3 DEF OperatorsInv, OnlyOperatorsLink, ConsumedFor

\* No Forgejo user reaches an account that was there before by bearing its
\* name: resolve_user links only what an operator has approved or linked, and
\* a consumed approval says truly who holds the account.
THEOREM OperatorsLink == Spec => []OnlyOperatorsLink
<1>1. Init => OperatorsInv
  BY ForgejoAssumption DEF Init, OperatorsInv, OnlyOperatorsLink, NoApproval
<1>2. OperatorsInv => OnlyOperatorsLink
  BY DEF OperatorsInv
<1> QED BY <1>1, <1>2, TypeInvInit, TypeInvStep, OperatorsStep, PTL DEF Spec

-----------------------------------------------------------------------------
(* A token is for the person who signed in.  One callback at a time holds a  *)
(* claimed flow, and until it ends the flow is worth nothing; from then on   *)
(* the flow's row, the call that took it and the token name one account.     *)

Works(c, f) == pc[c] \in {"fetch", "resolve", "fail"} /\ call[c].flow = f

ClaimedInv ==
    /\ \A c, d \in Calls, f \in Flows : Works(c, f) /\ Works(d, f) => c = d
    /\ \A c \in Calls, f \in Flows : Works(c, f) =>
         /\ flow[f].phase \in {"exchanging", "gone"}
         /\ token[f] = None
         /\ \A d \in Calls : ~Taking(d, f)

\* u is the account of whoever signed in for f.
SignerHas(f, u) ==
    /\ signed[f].subject \in Subjects /\ signed[f].user = u
    /\ identity[signed[f].subject] = u \/ student[u].status = "deleted"

SignerInv ==
    /\ \A f \in Flows : flow[f].phase = "ready" => SignerHas(f, flow[f].user)
    /\ \A c \in Calls, f \in Flows : Taking(c, f) => SignerHas(f, call[c].user)
    /\ \A f \in Flows : token[f] # None => SignerHas(f, token[f])
    /\ \A f \in Flows : token[f] # None => flow[f].phase = "gone"

\* What was taken is gone (TakenOnce says it too, of the flow's one token).
HeldInv == \A c \in Calls, f \in Flows : Taking(c, f) => flow[f].phase = "gone"

LEMMA TakenIsGone == TakenOnce => HeldInv
BY DEF TakenOnce, HeldInv

\* Only the claim of an open flow and the steps of its callback make a call
\* work for the flow; nothing but the claim begins it.
LEMMA WorksStep ==
    ASSUME TypeInv, [Next]_serverVars, NEW c \in Calls, NEW f \in Flows, Works(c, f)'
    PROVE  Works(c, f) \/ (Claim(c) /\ call[c].flow = f)
<1> DEFINE Kept(d) == pc'[d] \in {"fetch", "resolve", "fail"} =>
                        /\ pc[d] \in {"fetch", "resolve", "fail"}
                        /\ call'[d].flow = call[d].flow
           Goal == Kept(c) \/ (Claim(c) /\ call'[c] = call[c])
<1> USE DEF TypeInv, CallInv
<1>1. ASSUME NEW d \in Calls, NEW here \in {"replied", "open", "claim", "consume", "approve"},
             NEW row, Arrive(d, here, row)
      PROVE  Goal
  BY <1>1 DEF Arrive
<1>2. ASSUME NEW d \in Calls, NEW reply, Reply(d, reply) PROVE Goal
  BY <1>2 DEF Reply
<1>3. ASSUME NEW d \in Calls, Return(d) PROVE Goal
  BY <1>3 DEF Return
<1>4. ASSUME NEW d \in Calls, Client(d) PROVE Goal
  <2>1. \E here \in {"replied", "open", "claim", "consume"} : \E row : Arrive(d, here, row)
    BY <1>4 DEF Client, Start, Authorize, Callback, Exchange
  <2> QED BY <2>1, <1>1
<1>5. ASSUME NEW d \in Calls, CallbackStep(d) PROVE Goal
  <2>1. CASE Claim(d)
    BY <2>1 DEF Claim, Goto
  <2>2. CASE FetchFails(d) \/ ResolveRefused(d)
    BY <2>2 DEF FetchFails, ResolveRefused, NewSubject, Goto
  <2>3. ASSUME NEW s \in Subjects, NEW n \in Names, Fetched(d, s, n) PROVE Goal
    <3>1. call'[d].flow = call[d].flow
      BY <2>3 DEF Fetched, CallRow
    <3> QED BY <2>3, <3>1 DEF Fetched
  <2>4. CASE ClaimRefused(d)
    BY <2>4, <1>3 DEF ClaimRefused
  <2>5. ASSUME NEW u, SignIn(d, u) PROVE Goal
    BY <2>5, <1>2 DEF SignIn
  <2>6. CASE Fail(d)
    BY <2>6, <1>2 DEF Fail
  <2> QED BY <1>5, <2>1, <2>2, <2>3, <2>4, <2>5, <2>6
          DEF CallbackStep, ResolveKnown, ResolveApproved, ResolveRegistered
<1>6. ASSUME NEW d \in Calls, OpenLogin(d) \/ ApproveStep(d) \/ Dies(d) PROVE Goal
  BY <1>6, <1>3 DEF OpenLogin, ApproveStep, RefuseApproval, InsertApproval, Dies
<1>7. ASSUME NEW d \in Calls, ExchangeStep(d) PROVE Goal
  <2>1. CASE Consume(d)
    BY <2>1 DEF Consume
  <2> QED BY <1>7, <2>1, <1>2 DEF ExchangeStep, ConsumeRefused, Mint, MintRefused
<1>8. ASSUME Operator \/ Time \/ UNCHANGED serverVars PROVE Goal
  <2>1. ASSUME NEW d \in Calls, NEW n \in Names, NEW u \in Users, Approve(d, n, u) PROVE Goal
    BY <2>1, <1>1 DEF Approve
  <2> QED BY <1>8, <2>1 DEF Operator, LinkSubject, SetRegistration, DeleteUser, Time, Expire,
                            ExpireApproval, serverVars
<1>9. Goal
  BY <1>4, <1>5, <1>6, <1>7, <1>8 DEF Next, Step
<1> QED BY <1>9 DEF Works

\* A flow that is being exchanged is closed by its own callback, if it is not
\* purged before.
LEMMA ExchangingStep ==
    ASSUME TypeInv, [Next]_serverVars, NEW f \in Flows, flow[f].phase = "exchanging"
    PROVE  \/ flow'[f].phase \in {"exchanging", "gone"}
           \/ \E c \in Calls : Works(c, f) /\ ~Works(c, f)'
<1> DEFINE Goal == \/ flow'[f].phase \in {"exchanging", "gone"}
                   \/ \E c \in Calls : Works(c, f) /\ ~Works(c, f)'
<1> USE DEF TypeInv, FlowInv
<1>1. ASSUME NEW c \in Calls, NEW g \in Flows, Start(c, g) PROVE Goal
  BY <1>1 DEF Start, Purged, HasRow, NoFlow
<1>2. ASSUME NEW c \in Calls, OpenLogin(c) PROVE Goal
  BY <1>2 DEF OpenLogin, FlowRow
<1>3. ASSUME NEW c \in Calls, Claim(c) PROVE Goal
  BY <1>3 DEF Claim, FlowRow
<1>4. ASSUME NEW c \in Calls, NEW u, pc[c] = "resolve", SignIn(c, u) PROVE Goal
  <2>1. CASE call[c].flow = f
    BY <1>4, <2>1 DEF SignIn, Reply, Works, CallInv
  <2>2. CASE call[c].flow # f
    BY <1>4, <2>2 DEF SignIn
  <2> QED BY <2>1, <2>2
<1>5. ASSUME NEW c \in Calls, Fail(c) PROVE Goal
  <2>1. CASE call[c].flow = f
    BY <1>5, <2>1 DEF Fail, Reply, Works, CallInv
  <2>2. CASE call[c].flow # f
    BY <1>5, <2>2 DEF Fail
  <2> QED BY <2>1, <2>2
<1>6. ASSUME NEW c \in Calls, Consume(c) PROVE Goal
  BY <1>6 DEF Consume, Consumed, NoFlow
<1>7. ASSUME NEW u \in Users, DeleteUser(u) PROVE Goal
  BY <1>7 DEF DeleteUser, HasRow, NoFlow
<1>8. ASSUME NEW g \in Flows, Expire(g) PROVE Goal
  BY <1>8 DEF Expire, Valid, HasRow, FlowRow
<1>9. CASE UNCHANGED flow
  BY <1>9
<1> QED BY <1>1, <1>2, <1>3, <1>4, <1>5, <1>6, <1>7, <1>8, <1>9, ZenonT(30)
        DEF Next, Client, Step, CallbackStep, ExchangeStep, ApproveStep, Operator, Time,
            Authorize, Callback, Exchange, ClaimRefused, Fetched, FetchFails, ResolveKnown,
            ResolveApproved, ResolveRegistered, ResolveRefused, ConsumeRefused, Mint,
            MintRefused, Approve, InsertApproval, RefuseApproval, LinkSubject,
            SetRegistration, ExpireApproval, Dies, serverVars, NewSubject

\* A call takes the ready row it consumes, and keeps the user it read there.
LEMMA TakingStep ==
    ASSUME TypeInv, [Next]_serverVars, NEW c \in Calls, NEW f \in Flows, Taking(c, f)'
    PROVE  \/ Taking(c, f) /\ call'[c].user = call[c].user
           \/ /\ Consume(c) /\ call[c].flow = f /\ flow[f].phase = "ready"
              /\ call'[c].user = flow[f].user
<1> USE DEF TypeInv, CallInv
<1>1. ASSUME NEW d \in Calls, NEW here, NEW row, here # "mint", Arrive(d, here, row)
      PROVE  Taking(c, f) /\ call'[c] = call[c]
  BY <1>1 DEF Arrive, Taking
<1>2. ASSUME NEW d \in Calls, NEW here, here # "mint", Goto(d, here)
      PROVE  Taking(c, f) /\ call'[c] = call[c]
  BY <1>2 DEF Goto, Taking
<1>3. ASSUME NEW d \in Calls, NEW reply, Reply(d, reply)
      PROVE  Taking(c, f) /\ call'[c] = call[c]
  BY <1>3 DEF Reply, Taking
<1>4. ASSUME NEW d \in Calls, Return(d)
      PROVE  Taking(c, f) /\ call'[c] = call[c]
  BY <1>4 DEF Return, Taking
<1>5. ASSUME NEW d \in Calls, Client(d) PROVE Taking(c, f) /\ call'[c] = call[c]
  <2>1. \E here \in {"replied", "open", "claim", "consume"} : \E row : Arrive(d, here, row)
    BY <1>5 DEF Client, Start, Authorize, Callback, Exchange
  <2> QED BY <2>1, <1>1
<1>6. ASSUME NEW d \in Calls, CallbackStep(d) PROVE Taking(c, f) /\ call'[c] = call[c]
  <2>1. CASE Claim(d) \/ FetchFails(d) \/ ResolveRefused(d)
    BY <2>1, <1>2 DEF Claim, FetchFails, ResolveRefused
  <2>2. CASE ClaimRefused(d)
    BY <2>2, <1>4 DEF ClaimRefused
  <2>3. ASSUME NEW s \in Subjects, NEW n \in Names, Fetched(d, s, n)
        PROVE  Taking(c, f) /\ call'[c] = call[c]
    BY <2>3 DEF Fetched, Taking
  <2>4. ASSUME NEW u, SignIn(d, u) PROVE Taking(c, f) /\ call'[c] = call[c]
    BY <2>4, <1>3 DEF SignIn
  <2>5. CASE Fail(d)
    BY <2>5, <1>3 DEF Fail
  <2> QED BY <1>6, <2>1, <2>2, <2>3, <2>4, <2>5
          DEF CallbackStep, ResolveKnown, ResolveApproved, ResolveRegistered
<1>7. ASSUME NEW d \in Calls, OpenLogin(d) \/ ApproveStep(d) \/ Dies(d)
      PROVE  Taking(c, f) /\ call'[c] = call[c]
  BY <1>7, <1>4 DEF OpenLogin, ApproveStep, RefuseApproval, InsertApproval, Dies
<1>8. ASSUME NEW d \in Calls, ConsumeRefused(d) \/ Mint(d) \/ MintRefused(d)
      PROVE  Taking(c, f) /\ call'[c] = call[c]
  BY <1>8, <1>3 DEF ConsumeRefused, Mint, MintRefused
<1>9. ASSUME NEW d \in Calls, Consume(d)
      PROVE  \/ Taking(c, f) /\ call'[c] = call[c]
             \/ /\ Consume(c) /\ call[c].flow = f /\ flow[f].phase = "ready"
                /\ call'[c].user = flow[f].user
  BY <1>9, ZenonT(30) DEF Consume, Taking, CallRow
<1>10. ASSUME Operator \/ Time \/ UNCHANGED serverVars
       PROVE  Taking(c, f) /\ call'[c] = call[c]
  <2>1. ASSUME NEW d \in Calls, NEW n \in Names, NEW u \in Users, Approve(d, n, u)
        PROVE  Taking(c, f) /\ call'[c] = call[c]
    BY <2>1, <1>1 DEF Approve
  <2> QED BY <1>10, <2>1 DEF Operator, LinkSubject, SetRegistration, DeleteUser, Time, Expire,
                             ExpireApproval, serverVars, Taking
<1> QED BY <1>5, <1>6, <1>7, <1>8, <1>9, <1>10 DEF Next, Step, ExchangeStep

\* Who signed in for a flow, and the user of its ready row, are written
\* together, at the end of the callback that works for it.
LEMMA SignedStep ==
    ASSUME TypeInv, [Next]_serverVars, NEW f \in Flows
    PROVE  \/ /\ signed'[f] = signed[f]
              /\ flow'[f].phase = "ready" =>
                   flow[f].phase = "ready" /\ flow'[f].user = flow[f].user
           \/ \E c \in Calls, u \in Users :
                /\ Works(c, f) /\ SignerHas(f, u)'
                /\ flow'[f].phase = "ready" => flow'[f].user = u
                /\ flow'[f].phase = "ready" \/ flow' = flow
                /\ \A g \in Flows : g # f => flow'[g] = flow[g]
                /\ token' = token /\ minted' = minted
                /\ \A d \in Calls, g \in Flows : Taking(d, g)' <=> Taking(d, g)
<1> DEFINE Kept == /\ signed'[f] = signed[f]
                   /\ flow'[f].phase = "ready" =>
                        flow[f].phase = "ready" /\ flow'[f].user = flow[f].user
           Signs(c, u) ==
             /\ Works(c, f) /\ SignerHas(f, u)'
             /\ flow'[f].phase = "ready" => flow'[f].user = u
             /\ flow'[f].phase = "ready" \/ flow' = flow
             /\ \A g \in Flows : g # f => flow'[g] = flow[g]
             /\ token' = token /\ minted' = minted
             /\ \A d \in Calls, g \in Flows : Taking(d, g)' <=> Taking(d, g)
           Goal == Kept \/ \E c \in Calls, u \in Users : Signs(c, u)
<1> USE DEF TypeInv, FlowInv
<1>1. ASSUME NEW c \in Calls, NEW g \in Flows, Start(c, g) PROVE Goal
  BY <1>1 DEF Start, Purged, HasRow, NoFlow, history
<1>2. ASSUME NEW c \in Calls, OpenLogin(c) PROVE Goal
  BY <1>2 DEF OpenLogin, FlowRow, history
<1>3. ASSUME NEW c \in Calls, Claim(c) PROVE Goal
  BY <1>3 DEF Claim, FlowRow, history
<1>4. ASSUME NEW c \in Calls, NEW u \in Users, pc[c] = "resolve", SignIn(c, u),
             identity'[call[c].subject] = u
      PROVE  Goal
  <2>1. CASE call[c].flow = f
    <3>1. Works(c, f) /\ call[c].subject \in Subjects
      BY <1>4, <2>1 DEF Works, CallInv, Fits
    <3>2. signed'[f].subject = call[c].subject /\ signed'[f].user = u
      BY <1>4, <2>1 DEF SignIn, HistoryInv
    <3>3. SignerHas(f, u)'
      BY <1>4, <3>1, <3>2 DEF SignerHas
    <3>4. /\ token' = token /\ minted' = minted
          /\ \A d \in Calls, g \in Flows : Taking(d, g)' <=> Taking(d, g)
      BY <1>4 DEF SignIn, Reply, Taking, CallInv
    <3>5. \A g \in Flows : g # f => flow'[g] = flow[g]
      BY <1>4, <2>1 DEF SignIn
    <3>6. CASE HasRow(f)
      <4>1. flow'[f].user = u /\ flow'[f].phase = "ready"
        BY <1>4, <2>1, <3>6 DEF SignIn, FlowRow
      <4> QED BY <3>1, <3>3, <3>4, <3>5, <4>1
    <3>7. CASE ~HasRow(f)
      <4>1. flow' = flow /\ flow[f].phase # "ready"
        BY <1>4, <2>1, <3>7 DEF SignIn, HasRow
      <4> QED BY <3>1, <3>3, <3>4, <4>1
    <3> QED BY <3>6, <3>7
  <2>2. CASE call[c].flow # f
    BY <1>4, <2>2 DEF SignIn, HistoryInv
  <2> QED BY <2>1, <2>2
<1>5. ASSUME NEW c \in Calls, Fail(c) PROVE Goal
  BY <1>5 DEF Fail, FlowRow, history
<1>6. ASSUME NEW c \in Calls, Consume(c) PROVE Goal
  BY <1>6 DEF Consume, Consumed, NoFlow, history
<1>7. ASSUME NEW u \in Users, DeleteUser(u) PROVE Goal
  BY <1>7 DEF DeleteUser, HasRow, NoFlow, history
<1>8. ASSUME NEW g \in Flows, Expire(g) PROVE Goal
  BY <1>8 DEF Expire, FlowRow, history
<1>9. ASSUME UNCHANGED <<flow, signed>> PROVE Goal
  BY <1>9
<1>10. ASSUME NEW c \in Calls, CallbackStep(c) PROVE Goal
  <2>1. CASE ResolveKnown(c)
    <3>1. call[c].subject \in Subjects /\ identity[call[c].subject] \in Users
      BY <2>1 DEF ResolveKnown, CallInv, Fits, AccountInv
    <3> QED BY <2>1, <3>1, <1>4 DEF ResolveKnown
  <2>2. ASSUME NEW a \in Approvals, ResolveApproved(c, a) PROVE Goal
    <3>1. call[c].subject \in Subjects /\ approval[a].user \in Users
      BY <2>2 DEF ResolveApproved, NewSubject, Matching, CallInv, Fits, ApprovalInv, ApprovalRowOK
    <3>2. identity'[call[c].subject] = approval[a].user
      BY <2>2, <3>1 DEF ResolveApproved, AccountInv
    <3> QED BY <2>2, <3>1, <3>2, <1>4 DEF ResolveApproved, NewSubject
  <2>3. ASSUME NEW u \in Users, ResolveRegistered(c, u) PROVE Goal
    <3>1. call[c].subject \in Subjects
      BY <2>3 DEF ResolveRegistered, NewSubject, CallInv, Fits
    <3>2. identity'[call[c].subject] = u
      BY <2>3, <3>1 DEF ResolveRegistered, AccountInv
    <3> QED BY <2>3, <3>1, <3>2, <1>4 DEF ResolveRegistered, NewSubject
  <2> QED BY <1>10, <2>1, <2>2, <2>3, <1>3, <1>5, <1>9
          DEF CallbackStep, ClaimRefused, Fetched, FetchFails, ResolveRefused, history
<1> QED BY <1>1, <1>2, <1>6, <1>7, <1>8, <1>9, <1>10, ZenonT(30)
        DEF Next, Client, Step, ExchangeStep, ApproveStep, Operator, Time,
            Authorize, Callback, Exchange, ConsumeRefused, Mint,
            MintRefused, Approve, InsertApproval, RefuseApproval, LinkSubject,
            SetRegistration, ExpireApproval, Dies, serverVars, history

\* A token is written only by the call that took the flow.
LEMMA TokenStep ==
    ASSUME TypeInv, [Next]_serverVars, NEW f \in Flows
    PROVE  \/ token'[f] = token[f]
           \/ \E c \in Calls : /\ Taking(c, f) /\ ~Works(c, f)'
                               /\ token'[f] = call[c].user /\ UNCHANGED <<signed, flow, identity, student>>
<1>1. CASE \A c \in Calls : ~Consume(c) /\ ~Mint(c)
  BY <1>1, NothingTaken
<1>2. ASSUME NEW c \in Calls, Consume(c) PROVE token' = token
  BY <1>2 DEF Consume, history
<1>3. ASSUME NEW c \in Calls, Mint(c)
      PROVE  \/ token'[f] = token[f]
             \/ /\ Taking(c, f) /\ ~Works(c, f)'
                /\ token'[f] = call[c].user /\ UNCHANGED <<signed, flow, identity, student>>
  BY <1>3 DEF Mint, Reply, Taking, Works, TypeInv, HistoryInv, CallInv, accounts
<1> QED BY <1>1, <1>2, <1>3

LEMMA ClaimedStep ==
    TypeInv /\ ClaimedInv /\ SignerInv /\ HeldInv /\ [Next]_serverVars => ClaimedInv'
<1> SUFFICES ASSUME TypeInv, ClaimedInv, SignerInv, HeldInv, [Next]_serverVars PROVE ClaimedInv'
  OBVIOUS
<1>1. ASSUME NEW c \in Calls, NEW f \in Flows, Works(c, f)'
      PROVE  /\ flow'[f].phase \in {"exchanging", "gone"} /\ token'[f] = None
             /\ \A d \in Calls : ~Taking(d, f)' /\ (Works(d, f)' => d = c)
  <2>1. CASE Works(c, f)
    <3>1. /\ flow[f].phase \in {"exchanging", "gone"} /\ token[f] = None
          /\ \A d \in Calls : ~Taking(d, f) /\ (Works(d, f) => d = c)
      BY <2>1 DEF ClaimedInv
    <3>2. \A d \in Calls : ~Taking(d, f)'
      BY <3>1, TakingStep
    <3>3. token'[f] = None
      BY <3>1, TokenStep
    <3>4. \A d \in Calls : Works(d, f)' => d = c
      <4>1. \A d \in Calls : Claim(d) /\ call[d].flow = f => flow[f].phase = "browser"
        BY DEF Claim
      <4> QED BY <3>1, <4>1, WorksStep
    <3>5. flow'[f].phase \in {"exchanging", "gone"}
      BY <1>1, <3>1, GoneStays, ExchangingStep
    <3> QED BY <3>2, <3>3, <3>4, <3>5
  <2>2. CASE Claim(c) /\ call[c].flow = f
    <3>1. flow[f].phase = "browser"
      BY <2>2 DEF Claim
    <3>2. flow'[f].phase = "exchanging"
      BY <2>2 DEF Claim, TypeInv, FlowInv, FlowRow
    <3>3. token[f] = None /\ token'[f] = None
      BY <2>2, <3>1 DEF SignerInv, Claim, history
    <3>4. \A d \in Calls : ~Works(d, f)
      BY <3>1 DEF ClaimedInv
    <3>5. \A d \in Calls : Works(d, f)' => d = c
      BY <2>2, <3>4 DEF Claim, Goto, Works, TypeInv, CallInv
    <3>6. \A d \in Calls : ~Taking(d, f)'
      <4>1. pc'[c] = "fetch" /\ \A d \in Calls : d # c => pc'[d] = pc[d]
        BY <2>2 DEF Claim, Goto, TypeInv, CallInv
      <4>2. call' = call
        BY <2>2 DEF Claim, Goto
      <4>3. \A d \in Calls : ~Taking(d, f)
        BY <3>1 DEF HeldInv
      <4> QED BY <4>1, <4>2, <4>3 DEF Taking
    <3> QED BY <3>2, <3>3, <3>5, <3>6
  <2> QED BY <1>1, <2>1, <2>2, WorksStep
<1> QED BY <1>1 DEF ClaimedInv

\* What the signer has, the signer keeps, until the account is deleted.
LEMMA SignerKeeps ==
    ASSUME TypeInv, [Next]_serverVars, NEW f \in Flows, NEW u \in Users, SignerHas(f, u),
           signed'[f] = signed[f]
    PROVE  SignerHas(f, u)'
<1>1. signed[f].subject \in Subjects /\ u # None
  BY ForgejoAssumption DEF SignerHas
<1>2. CASE student[u].status = "deleted"
  BY <1>1, <1>2, DeletedStays DEF SignerHas
<1>3. CASE identity[signed[f].subject] = u
  BY <1>1, <1>3, IdentityStep DEF SignerHas, IdentityKept
<1> QED BY <1>2, <1>3 DEF SignerHas

LEMMA SignerStep ==
    TypeInv /\ ClaimedInv /\ SignerInv /\ HeldInv /\ [Next]_serverVars => SignerInv'
<1> SUFFICES ASSUME TypeInv, ClaimedInv, SignerInv, HeldInv, [Next]_serverVars PROVE SignerInv'
  OBVIOUS
<1> USE DEF SignerInv
<1>1. ASSUME NEW f \in Flows, flow'[f].phase = "ready" PROVE SignerHas(f, flow[f].user)'
  <2>1. CASE /\ signed'[f] = signed[f]
             /\ flow[f].phase = "ready" /\ flow'[f].user = flow[f].user
    <3>1. flow[f].user \in Users
      BY <2>1 DEF TypeInv, FlowInv, FlowRowOK
    <3> QED BY <2>1, <3>1, SignerKeeps DEF SignerHas
  <2>2. ASSUME NEW u \in Users, SignerHas(f, u)', flow'[f].user = u
        PROVE  SignerHas(f, flow[f].user)'
    BY <2>2 DEF SignerHas
  <2> QED BY <1>1, <2>1, <2>2, SignedStep
<1>2. ASSUME NEW c \in Calls, NEW f \in Flows, Taking(c, f)' PROVE SignerHas(f, call[c].user)'
  <2>1. \A u \in Users : SignerHas(f, u) => SignerHas(f, u)'
    <3>1. CASE signed'[f] = signed[f]
      BY <3>1, SignerKeeps
    <3>2. ASSUME NEW d \in Calls, Works(d, f), Taking(c, f)' <=> Taking(c, f) PROVE FALSE
      BY <1>2, <3>2 DEF ClaimedInv
    <3> QED BY <3>1, <3>2, SignedStep
  <2>2. CASE Taking(c, f) /\ call'[c].user = call[c].user
    <3>1. call[c].user \in Users /\ SignerHas(f, call[c].user)
      BY <2>2 DEF Taking, TypeInv, CallInv, Fits
    <3> QED BY <2>1, <2>2, <3>1 DEF SignerHas
  <2>3. CASE flow[f].phase = "ready" /\ call'[c].user = flow[f].user
    <3>1. flow[f].user \in Users /\ SignerHas(f, flow[f].user)
      BY <2>3 DEF TypeInv, FlowInv, FlowRowOK
    <3> QED BY <2>1, <2>3, <3>1 DEF SignerHas
  <2> QED BY <1>2, <2>2, <2>3, TakingStep
<1>3. ASSUME NEW f \in Flows, token'[f] # None
      PROVE  SignerHas(f, token[f])' /\ flow'[f].phase = "gone"
  <2>1. CASE token'[f] = token[f]
    <3>1. token[f] \in Users /\ SignerHas(f, token[f]) /\ flow[f].phase = "gone"
      BY <1>3, <2>1 DEF TypeInv, HistoryInv
    <3>2. signed'[f] = signed[f]
      BY <1>3, <2>1, SignedStep DEF ClaimedInv
    <3> QED BY <2>1, <3>1, <3>2, SignerKeeps, GoneStays DEF SignerHas
  <2>2. ASSUME NEW c \in Calls, Taking(c, f), token'[f] = call[c].user,
               UNCHANGED <<signed, flow, identity, student>>
        PROVE  SignerHas(f, token[f])' /\ flow'[f].phase = "gone"
    BY <2>2 DEF SignerHas, HeldInv
  <2> QED BY <2>1, <2>2, TokenStep
<1> QED BY <1>1, <1>2, <1>3

\* Whatever workers, repeated callbacks and exchanges, purges, deletions and
\* deaths come between, the token of a login attempt names the account of the
\* one person whose callback it was, and that person has the account unless it
\* was deleted.
THEOREM SignersToken == Spec => []TokenOfSigner
<1>1. Init => TakenOnce /\ ClaimedInv /\ SignerInv
  BY DEF Init, TakenOnce, Taking, Works, ClaimedInv, SignerInv, NoFlow
<1>2. SignerInv => TokenOfSigner
  BY DEF SignerInv, SignerHas, TokenOfSigner
<1> QED BY <1>1, <1>2, TypeInvInit, TypeInvStep, TakenOnceStep, TakenIsGone, ClaimedStep,
           SignerStep, PTL DEF Spec

-----------------------------------------------------------------------------
(* The server hands each login attempt over as Handoff promises.  Of one     *)
(* step, at most one attempt is signed in or taken; the others stay or die.  *)

HandoffInv == TakenOnce /\ ClaimedInv /\ SignerInv

\* A row that is ready, or has failed, changes only by going away.
LEMMA ClosedPhases ==
    ASSUME TypeInv, ClaimedInv, [Next]_serverVars, NEW f \in Flows,
           flow[f].phase \in {"ready", "failed"}
    PROVE  flow'[f].phase \in {flow[f].phase, "gone"}
<1> DEFINE Goal == flow'[f].phase \in {flow[f].phase, "gone"}
<1> USE DEF TypeInv, FlowInv
<1>1. ASSUME NEW c \in Calls, NEW g \in Flows, Start(c, g) PROVE Goal
  BY <1>1 DEF Start, Purged, HasRow, NoFlow
<1>2. ASSUME NEW c \in Calls, OpenLogin(c) PROVE Goal
  BY <1>2 DEF OpenLogin, FlowRow
<1>3. ASSUME NEW c \in Calls, Claim(c) PROVE Goal
  BY <1>3 DEF Claim, FlowRow
<1>4. \A c \in Calls : pc[c] \in {"resolve", "fail"} => call[c].flow # f
  BY DEF ClaimedInv, Works
<1>5. ASSUME NEW c \in Calls, NEW u, pc[c] = "resolve", SignIn(c, u) PROVE Goal
  BY <1>4, <1>5 DEF SignIn
<1>6. ASSUME NEW c \in Calls, Fail(c) PROVE Goal
  BY <1>4, <1>6 DEF Fail
<1>7. ASSUME NEW c \in Calls, Consume(c) PROVE Goal
  BY <1>7 DEF Consume, Consumed, NoFlow
<1>8. ASSUME NEW u \in Users, DeleteUser(u) PROVE Goal
  BY <1>8 DEF DeleteUser, HasRow, NoFlow
<1>9. ASSUME NEW g \in Flows, Expire(g) PROVE Goal
  BY <1>9 DEF Expire, Valid, HasRow, FlowRow
<1>10. CASE UNCHANGED flow
  BY <1>10
<1> QED BY <1>1, <1>2, <1>3, <1>5, <1>6, <1>7, <1>8, <1>9, <1>10, ZenonT(30)
        DEF Next, Client, Step, CallbackStep, ExchangeStep, ApproveStep, Operator, Time,
            Authorize, Callback, Exchange, ClaimRefused, Fetched, FetchFails, ResolveKnown,
            ResolveApproved, ResolveRegistered, ResolveRefused, ConsumeRefused, Mint,
            MintRefused, Approve, InsertApproval, RefuseApproval, LinkSubject,
            SetRegistration, ExpireApproval, Dies, serverVars, NewSubject

\* What an attempt is worth, by where it is.
LEMMA WorthIs ==
    ASSUME TypeInv, HandoffInv, NEW f \in Flows
    PROVE  /\ minted[f] \in {0, 1}
           /\ minted[f] = 1 => Worth(f) = "taken" /\ WorthTo(f) = token[f]
           /\ minted[f] = 0 /\ flow[f].phase = "ready" =>
                Worth(f) = "signed" /\ WorthTo(f) = flow[f].user
           /\ \A c \in Calls : Taking(c, f) => Worth(f) = "signed" /\ WorthTo(f) = call[c].user
           /\ minted[f] = 0 /\ flow[f].phase # "ready" /\ (\A c \in Calls : ~Taking(c, f)) =>
                /\ WorthTo(f) = None
                /\ Worth(f) = IF flow[f].phase \in {"failed", "gone"} THEN "dead" ELSE "open"
<1>1. minted[f] \in {0, 1}
  BY DEF HandoffInv, TakenOnce
<1>2. minted[f] = 1 => Worth(f) = "taken" /\ WorthTo(f) = token[f]
  BY DEF Worth, WorthTo
<1>3. minted[f] = 0 /\ flow[f].phase = "ready" =>
        Worth(f) = "signed" /\ WorthTo(f) = flow[f].user
  BY DEF Worth, WorthTo
<1>4. ASSUME NEW c \in Calls, Taking(c, f)
      PROVE  Worth(f) = "signed" /\ WorthTo(f) = call[c].user
  <2>1. /\ minted[f] = 0 /\ flow[f].phase = "gone"
        /\ \A d \in Calls : Taking(d, f) <=> d = c
    BY <1>4 DEF HandoffInv, TakenOnce
  <2>2. (CHOOSE d \in Calls : Taking(d, f)) = c
    BY <2>1
  <2> QED BY <1>4, <2>1, <2>2 DEF Worth, WorthTo
<1>5. minted[f] = 0 /\ flow[f].phase # "ready" /\ (\A c \in Calls : ~Taking(c, f)) =>
        /\ WorthTo(f) = None
        /\ Worth(f) = IF flow[f].phase \in {"failed", "gone"} THEN "dead" ELSE "open"
  BY DEF Worth, WorthTo
<1> QED BY <1>1, <1>2, <1>3, <1>4, <1>5

Stays(f) == Worth(f)' = Worth(f) /\ WorthTo(f)' = WorthTo(f)

\* A step that does not sign in for f or mint its token.
LEMMA StaysOrDies ==
    ASSUME TypeInv, TypeInv', HandoffInv, HandoffInv', [Next]_serverVars, NEW f \in Flows,
           minted'[f] = minted[f], token'[f] = token[f],
           flow'[f].phase = "ready" =>
             flow[f].phase = "ready" /\ flow'[f].user = flow[f].user
    PROVE  \/ Stays(f)
           \/ Worth(f) \in {"open", "signed"} /\ Worth(f)' = "dead" /\ WorthTo(f)' = None
<1> DEFINE Dead == minted[f] = 0 /\ flow[f].phase # "ready" /\ \A c \in Calls : ~Taking(c, f)
<1>1. Dead' => /\ WorthTo(f)' = None
               /\ Worth(f)' = IF flow'[f].phase \in {"failed", "gone"} THEN "dead" ELSE "open"
  BY DEF Worth, WorthTo
<1>2. minted[f] \in {0, 1}
  BY WorthIs
<1>3. CASE minted[f] = 1
  BY <1>3 DEF Stays, Worth, WorthTo
<1>4. CASE minted[f] = 0 /\ flow[f].phase = "ready"
  <2>1. Worth(f) = "signed" /\ WorthTo(f) = flow[f].user
    BY <1>4, WorthIs
  <2>2. CASE flow'[f].phase = "ready"
    BY <1>4, <2>1, <2>2 DEF Stays, Worth, WorthTo
  <2>3. ASSUME NEW c \in Calls, Taking(c, f)', flow'[f].phase # "ready" PROVE Stays(f)
    <3>1. flow[f].phase # "gone"
      BY <1>4
    <3>2. ~Taking(c, f)
      BY <3>1 DEF HandoffInv, TakenOnce
    <3>3. call'[c].user = flow[f].user
      BY <2>3, <3>2, TakingStep
    <3>4. \A d \in Calls : Taking(d, f)' <=> d = c
      BY <2>3 DEF HandoffInv, TakenOnce
    <3>5. (CHOOSE d \in Calls : Taking(d, f)') = c
      BY <3>4
    <3> QED BY <1>4, <2>1, <2>3, <3>3, <3>4, <3>5 DEF Stays, Worth, WorthTo
  <2>4. CASE flow'[f].phase # "ready" /\ \A c \in Calls : ~Taking(c, f)'
    <3>1. flow'[f].phase = "gone"
      BY <1>4, <2>4, ClosedPhases DEF HandoffInv
    <3> QED BY <1>1, <1>4, <2>1, <2>4, <3>1
  <2> QED BY <2>2, <2>3, <2>4
<1>5. ASSUME NEW c \in Calls, Taking(c, f)
      PROVE  \/ Stays(f)
             \/ Worth(f) \in {"open", "signed"} /\ Worth(f)' = "dead" /\ WorthTo(f)' = None
  <2>1. /\ Worth(f) = "signed" /\ WorthTo(f) = call[c].user
        /\ minted[f] = 0 /\ flow[f].phase = "gone"
        /\ \A d \in Calls : Taking(d, f) => d = c
    BY <1>5, WorthIs DEF HandoffInv, TakenOnce
  <2>2. flow'[f].phase = "gone"
    BY <2>1, GoneStays
  <2>3. \A d \in Calls : Taking(d, f)' => d = c /\ call'[c].user = call[c].user
    BY <2>1, TakingStep
  <2>4. CASE Taking(c, f)'
    <3>1. (CHOOSE d \in Calls : Taking(d, f)') = c
      BY <2>3, <2>4
    <3> QED BY <2>1, <2>2, <2>3, <2>4, <3>1 DEF Stays, Worth, WorthTo
  <2>5. CASE ~Taking(c, f)'
    BY <1>1, <2>1, <2>2, <2>3, <2>5
  <2> QED BY <2>4, <2>5
<1>6. CASE Dead
  <2>1. /\ WorthTo(f) = None
        /\ Worth(f) = IF flow[f].phase \in {"failed", "gone"} THEN "dead" ELSE "open"
    BY <1>6, WorthIs
  <2>2. Dead'
    BY <1>6, TakingStep
  <2>3. flow[f].phase \in {"failed", "gone"} => flow'[f].phase \in {"failed", "gone"}
    BY ClosedPhases, GoneStays DEF HandoffInv
  <2> QED BY <1>1, <2>1, <2>2, <2>3 DEF Stays
<1> QED BY <1>2, <1>3, <1>4, <1>5, <1>6

Attempts == HandoffOf!vars

\* At the end of a callback the attempt is signed; the others stay.
LEMMA SignInImplements ==
    ASSUME TypeInv, TypeInv', HandoffInv, HandoffInv', [Next]_serverVars,
           NEW c \in Calls, NEW f \in Flows, NEW u \in Users,
           Works(c, f), flow'[f].phase = "ready", flow'[f].user = u,
           \A g \in Flows : g # f => flow'[g] = flow[g],
           token' = token, minted' = minted,
           \A d \in Calls, g \in Flows : Taking(d, g)' <=> Taking(d, g)
    PROVE  HandoffOf!SignIn(f)
<1>1. /\ flow[f].phase = "exchanging" /\ minted[f] = 0
      /\ \A d \in Calls : ~Taking(d, f)
  BY GoneStays DEF HandoffInv, ClaimedInv, TakenOnce
<1>2. Worth(f) = "open"
  BY <1>1, WorthIs
<1>3. Worth(f)' = "signed" /\ WorthTo(f)' = u
  BY <1>1 DEF Worth, WorthTo
<1>4. ASSUME NEW g \in Flows, g # f PROVE Stays(g)
  <2>1. flow'[g] = flow[g]
    BY <1>4
  <2>2. CASE minted[g] = 1
    BY <2>2 DEF Stays, Worth, WorthTo
  <2>3. CASE minted[g] = 0
    <3>1. Worth(g)' = Worth(g)
      BY <2>1 DEF Worth
    <3>2. Stays(g) \/ (Worth(g) \in {"open", "signed"} /\ Worth(g)' = "dead")
      BY <2>1, StaysOrDies
    <3> QED BY <3>1, <3>2
  <2> QED BY <2>2, <2>3, WorthIs
<1>5. [g \in Flows |-> Worth(g)]' = [[g \in Flows |-> Worth(g)] EXCEPT ![f] = "signed"]
  BY <1>3, <1>4 DEF Stays
<1>6. [g \in Flows |-> WorthTo(g)]' = [[g \in Flows |-> WorthTo(g)] EXCEPT ![f] = u]
  BY <1>3, <1>4 DEF Stays
<1> QED BY <1>2, <1>5, <1>6 DEF HandoffOf!SignIn

\* The attempt whose token is minted is taken; the others stay.
LEMMA MintImplements ==
    ASSUME TypeInv, TypeInv', HandoffInv, HandoffInv', [Next]_serverVars,
           NEW c \in Calls, NEW f \in Flows, Mint(c), call[c].flow = f
    PROVE  HandoffOf!Take(f)
<1>1. Taking(c, f) /\ flow' = flow
  BY DEF Mint, Taking
<1>2. Worth(f) = "signed" /\ WorthTo(f) = call[c].user /\ minted[f] = 0
  BY <1>1, WorthIs DEF HandoffInv, TakenOnce
<1>3. minted' = [minted EXCEPT ![f] = 1] /\ token' = [token EXCEPT ![f] = call[c].user]
  <2>1. minted' = [minted EXCEPT ![f] = minted[f] + 1]
    BY Zenon DEF Mint
  <2> QED BY <1>2, <2>1 DEF Mint
<1>4. /\ minted'[f] = 1 /\ token'[f] = call[c].user
      /\ \A g \in Flows : g # f => minted'[g] = minted[g] /\ token'[g] = token[g]
  BY <1>1, <1>3 DEF TypeInv, HistoryInv
<1>5. Worth(f)' = "taken" /\ WorthTo(f)' = WorthTo(f)
  BY <1>2, <1>4 DEF Worth, WorthTo
<1>6. \A d \in Calls, g \in Flows : g # f => (Taking(d, g)' <=> Taking(d, g))
  BY DEF Mint, Reply, Taking, TypeInv, CallInv
<1>7. ASSUME NEW g \in Flows, g # f PROVE Stays(g)
  <2>1. Worth(g)' = Worth(g)
    BY <1>1, <1>4, <1>6, <1>7 DEF Worth
  <2>2. Stays(g) \/ (Worth(g) \in {"open", "signed"} /\ Worth(g)' = "dead")
    BY <1>1, <1>4, <1>7, StaysOrDies
  <2> QED BY <2>1, <2>2
<1>8. [g \in Flows |-> Worth(g)]' = [[g \in Flows |-> Worth(g)] EXCEPT ![f] = "taken"]
  BY <1>5, <1>7 DEF Stays
<1>9. [g \in Flows |-> WorthTo(g)]' = [g \in Flows |-> WorthTo(g)]
  BY <1>5, <1>7 DEF Stays
<1> QED BY <1>2, <1>3, <1>8, <1>9 DEF HandoffOf!Take

LEMMA HandoffStep ==
    TypeInv /\ TypeInv' /\ HandoffInv /\ HandoffInv' /\ [Next]_serverVars
      => [HandoffOf!Next]_Attempts
<1> SUFFICES ASSUME TypeInv, TypeInv', HandoffInv, HandoffInv', [Next]_serverVars
             PROVE  HandoffOf!Next
  OBVIOUS
<1>1. ASSUME NEW c \in Calls, Mint(c) PROVE HandoffOf!Next
  <2>1. call[c].flow \in Flows
    BY <1>1 DEF Mint, TypeInv, CallInv, Fits, Handling
  <2> QED BY <1>1, <2>1, MintImplements DEF HandoffOf!Next
<1>2. ASSUME NEW c \in Calls, NEW f \in Flows, NEW u \in Users,
             Works(c, f), flow'[f].phase = "ready", flow'[f].user = u,
             \A g \in Flows : g # f => flow'[g] = flow[g],
             token' = token, minted' = minted,
             \A d \in Calls, g \in Flows : Taking(d, g)' <=> Taking(d, g)
      PROVE  HandoffOf!Next
  BY <1>2, SignInImplements DEF HandoffOf!Next
<1>3. ASSUME \A c \in Calls : ~Mint(c),
             \A f \in Flows : flow'[f].phase = "ready" =>
                                flow[f].phase = "ready" /\ flow'[f].user = flow[f].user
      PROVE  HandoffOf!Next
  <2> DEFINE dead == {f \in Flows : /\ Worth(f) \in {"open", "signed"}
                                    /\ Worth(f)' = "dead" /\ WorthTo(f)' = None}
  <2>1. minted' = minted /\ token' = token
    <3>1. ASSUME NEW c \in Calls, Consume(c) PROVE minted' = minted /\ token' = token
      BY <3>1 DEF Consume, history
    <3> QED BY <1>3, <3>1, NothingTaken
  <2>2. \A f \in Flows : Stays(f) \/ f \in dead
    BY <1>3, <2>1, StaysOrDies
  <2>3. dead \in SUBSET {f \in Flows : [g \in Flows |-> Worth(g)][f] \in {"open", "signed"}}
    OBVIOUS
  <2>4. \A f \in Flows : /\ Worth(f)' = IF f \in dead THEN "dead" ELSE Worth(f)
                         /\ WorthTo(f)' = IF f \in dead THEN None ELSE WorthTo(f)
    BY <2>2 DEF Stays
  <2> HIDE DEF dead
  <2>5. [f \in Flows |-> Worth(f)]'
          = [f \in Flows |-> IF f \in dead THEN "dead" ELSE [g \in Flows |-> Worth(g)][f]]
    BY <2>4
  <2>6. [f \in Flows |-> WorthTo(f)]'
          = [f \in Flows |-> IF f \in dead THEN None ELSE [g \in Flows |-> WorthTo(g)][f]]
    BY <2>4
  <2>7. HandoffOf!Abandon
    BY <2>1, <2>3, <2>5, <2>6, Zenon DEF HandoffOf!Abandon
  <2> QED BY <2>7 DEF HandoffOf!Next
<1> QED BY <1>1, <1>2, <1>3, SignedStep

\* The server implements what the router promises of a login attempt: through
\* every interleaving, repetition, purge and death it is signed in once, and
\* then taken once, for the same user, or it dies.
THEOREM HandsOver == Spec => ImplementsHandoff
<1>1. Init => TypeInv /\ HandoffInv /\ HandoffOf!Init
  <2> SUFFICES ASSUME Init PROVE HandoffInv /\ HandoffOf!Init
    BY TypeInvInit
  <2>1. HandoffInv
    BY DEF Init, HandoffInv, TakenOnce, Taking, Works, ClaimedInv, SignerInv, NoFlow
  <2>2. \A f \in Flows : Worth(f) = "open" /\ WorthTo(f) = None
    BY <2>1, WorthIs, TypeInvInit DEF Init, NoFlow, Taking
  <2> QED BY <2>1, <2>2 DEF HandoffOf!Init, Init
<1>2. TypeInv /\ HandoffInv /\ [Next]_serverVars => HandoffInv'
  BY TakenOnceStep, TakenIsGone, ClaimedStep, SignerStep DEF HandoffInv
<1> QED BY <1>1, <1>2, TypeInvStep, HandoffStep, PTL DEF Spec, ImplementsHandoff, HandoffOf!Spec,
           Attempts
=============================================================================
