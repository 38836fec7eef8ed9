---------------------------- MODULE ForgejoServer -----------------------------
(***************************************************************************)
(* Signing in through Forgejo, the server's side:                          *)
(* src/ego_server/routers/forgejo_auth.py, forgejo.py and the operator's   *)
(* link-forgejo commands of cli.py.                                        *)
(*                                                                         *)
(* A call is a request being handled, by any worker process, or a run of   *)
(* the command line.  Every step is one SELECT or one write transaction,   *)
(* so calls interleave between any two of them: more than the event loops  *)
(* allow, whatever their number.  Issuer, client and redirect URI are      *)
(* fixed at start and are left out, as is time but for what has expired.   *)
(***************************************************************************)
EXTENDS Naturals

CONSTANTS
    Flows,      \* login attempts, by the random state of each
    Browsers,   \* browsers that may open a link; a cookie is bound to one
    Subjects,   \* Forgejo users, by the sub of UserInfo
    Names,      \* preferred_username values
    Users,      \* students.id
    Locals,     \* the users that exist before any Forgejo sign-in
    Approvals,  \* forgejo_link_approvals.id
    Calls,      \* requests and commands handled at the same time
    None

ASSUME ForgejoAssumption ==
    /\ Locals \subseteq Users
    /\ Names \cap Users = {}  \* ids are random: nobody has one for a name
    /\ None \notin Flows \cup Browsers \cup Subjects \cup Names \cup Users \cup Approvals

VARIABLES
    student,       \* students: status and username
    identity,      \* external_identities: the user_id of each subject
    approval,      \* forgejo_link_approvals
    flow,          \* oauth_flows
    registration,  \* the service setting registration_enabled
    pc, call,      \* where each call is; its arguments, reads and reply
    signed,        \* history: who signed in for each flow, and as which user
    token,         \* history: the user named in the last token of each flow
    minted,        \* history: how many tokens each flow was given
    linked         \* history: <<subject, user>> pairs an operator has linked

accounts == <<student, identity, approval, registration, linked>>
history == <<signed, token, minted>>
serverVars == <<accounts, flow, pc, call, history>>

-----------------------------------------------------------------------------
(* The rows.                                                               *)

\* A name that is taken gives way to "forgejo-" + id, written here as the id.
StudentRow == [status : {"unused", "live", "deleted"}, name : Names \cup Users \cup {None}]

ApprovalRow == [status : {"unused", "pending", "consumed", "expired"},
                name : Names \cup {None}, user : Users \cup {None},
                subject : Subjects \cup {None}, old : BOOLEAN]

\* "unstarted" and "gone" (purged, consumed, or deleted with its user): no row.
FlowRow == [phase : {"unstarted", "pending", "browser", "exchanging", "ready",
                     "failed", "gone"},
            browser : Browsers \cup {None}, user : Users \cup {None}, old : BOOLEAN]

CallRow == [op : {"none", "start", "authorize", "callback", "exchange", "approve"},
            flow : Flows \cup {None}, browser : Browsers \cup {None},
            subject : Subjects \cup {None}, name : Names \cup {None},
            user : Users \cup {None},
            reply : {"none", "started", "refused", "pending", "token", "success", "failure"}]

Unused == [status |-> "unused", name |-> None]
NoApproval == [status |-> "unused", name |-> None, user |-> None, subject |-> None,
               old |-> FALSE]
NoFlow == [phase |-> "unstarted", browser |-> None, user |-> None, old |-> FALSE]
NoArgs == [op |-> "none", flow |-> None, browser |-> None, subject |-> None,
           name |-> None, user |-> None, reply |-> "none"]
Nobody == [subject |-> None, user |-> None]

Places == {"idle", "open", "claim", "fetch", "resolve", "fail", "consume", "mint",
           "approve", "replied"}

Init ==
    /\ \E name \in [Locals -> Names] :
         /\ \A u, v \in Locals : name[u] = name[v] => u = v
         /\ student = [u \in Users |-> IF u \in Locals
                                       THEN [status |-> "live", name |-> name[u]]
                                       ELSE Unused]
    /\ identity = [s \in Subjects |-> None]
    /\ approval = [a \in Approvals |-> NoApproval]
    /\ flow = [f \in Flows |-> NoFlow]
    /\ registration \in BOOLEAN
    /\ pc = [c \in Calls |-> "idle"]
    /\ call = [c \in Calls |-> NoArgs]
    /\ signed = [f \in Flows |-> Nobody]
    /\ token = [f \in Flows |-> None]
    /\ minted = [f \in Flows |-> 0]
    /\ linked = {}

Live(u) == student[u].status = "live"
Unlinked(u) == \A s \in Subjects : identity[s] # u
HasRow(f) == flow[f].phase \notin {"unstarted", "gone"}

\* _flow finds the row: there is one and it has not expired.
Valid(f) == HasRow(f) /\ ~flow[f].old

\* Control.
Arrive(c, here, args) ==
    /\ pc[c] = "idle"
    /\ pc' = [pc EXCEPT ![c] = here]
    /\ call' = [call EXCEPT ![c] = args]

Goto(c, here) == pc' = [pc EXCEPT ![c] = here] /\ UNCHANGED call

Reply(c, reply) ==
    /\ pc' = [pc EXCEPT ![c] = "replied"]
    /\ call' = [call EXCEPT ![c].reply = reply]

\* The call ends: its reply was read, or nobody reads it.
Return(c) ==
    /\ pc' = [pc EXCEPT ![c] = "idle"]
    /\ call' = [call EXCEPT ![c] = NoArgs]

-----------------------------------------------------------------------------
(* POST /auth/forgejo/start and GET /auth/forgejo/authorize.               *)

Purged(g) == IF HasRow(g) /\ flow[g].old THEN [NoFlow EXCEPT !.phase = "gone"] ELSE flow[g]

Start(c, f) ==
    /\ flow[f].phase = "unstarted"
    /\ Arrive(c, "replied", [NoArgs EXCEPT !.op = "start", !.flow = f, !.reply = "started"])
    /\ flow' = [g \in Flows |-> IF g = f THEN [NoFlow EXCEPT !.phase = "pending"]
                                ELSE Purged(g)]
    /\ UNCHANGED <<accounts, history>>

Authorize(c, f, b) ==
    /\ Valid(f)
    /\ Arrive(c, "open", [NoArgs EXCEPT !.op = "authorize", !.flow = f, !.browser = b])
    /\ UNCHANGED <<accounts, flow, history>>

\* Only the first browser is sent to Forgejo; it keeps the flow's cookie.
OpenLogin(c) ==
    LET f == call[c].flow IN
    /\ pc[c] = "open"
    /\ flow' = IF flow[f].phase # "pending" THEN flow
               ELSE [flow EXCEPT ![f].phase = "browser", ![f].browser = call[c].browser]
    /\ Return(c)
    /\ UNCHANGED <<accounts, history>>

-----------------------------------------------------------------------------
(* GET /auth/forgejo/callback.                                             *)

Callback(c, f, b) ==
    /\ Valid(f) /\ flow[f].browser = b
    /\ Arrive(c, "claim", [NoArgs EXCEPT !.op = "callback", !.flow = f, !.browser = b])
    /\ UNCHANGED <<accounts, flow, history>>

\* Mutant: a repeated callback goes on.
ClaimAgain(c) ==
    /\ pc[c] = "claim" /\ HasRow(call[c].flow)
    /\ flow' = [flow EXCEPT ![call[c].flow].phase = "exchanging"]
    /\ Goto(c, "fetch")
    /\ UNCHANGED <<accounts, history>>

Claim(c) ==
    /\ pc[c] = "claim" /\ flow[call[c].flow].phase = "browser"
    /\ flow' = [flow EXCEPT ![call[c].flow].phase = "exchanging"]
    /\ Goto(c, "fetch")
    /\ UNCHANGED <<accounts, history>>

ClaimRefused(c) ==
    /\ pc[c] = "claim" /\ flow[call[c].flow].phase # "browser"
    /\ Return(c)
    /\ UNCHANGED <<accounts, flow, history>>

\* await fetch_identity: Forgejo tells who signed in, under which name.
Fetched(c, s, n) ==
    /\ pc[c] = "fetch"
    /\ pc' = [pc EXCEPT ![c] = "resolve"]
    /\ call' = [call EXCEPT ![c].subject = s, ![c].name = n]
    /\ UNCHANGED <<accounts, flow, history>>

\* The user cancelled, or Forgejo failed.
FetchFails(c) ==
    /\ pc[c] = "fetch"
    /\ Goto(c, "fail")
    /\ UNCHANGED <<accounts, flow, history>>

\* The end of resolve_user's transaction.  The row may have been purged.
SignIn(c, u) ==
    LET f == call[c].flow IN
    /\ flow' = IF HasRow(f) THEN [flow EXCEPT ![f].phase = "ready", ![f].user = u] ELSE flow
    /\ signed' = [signed EXCEPT ![f] = [subject |-> call[c].subject, user |-> u]]
    /\ Reply(c, "success")
    /\ UNCHANGED <<registration, linked, token, minted>>

Matching(c) == {a \in Approvals : /\ approval[a].status = "pending" /\ ~approval[a].old
                                  /\ approval[a].name = call[c].name}

\* The subject is known: a new remote name changes nothing here.
ResolveKnown(c) ==
    LET s == call[c].subject IN
    /\ pc[c] = "resolve" /\ identity[s] # None
    /\ SignIn(c, identity[s])
    /\ UNCHANGED <<student, identity, approval>>

\* Mutant: approvals and registration come before the identity.
AnySubject(c) == pc[c] = "resolve"

NewSubject(c) == pc[c] = "resolve" /\ identity[call[c].subject] = None

\* Mutant: an account that has an identity already is given another one.
ApprovedThoughLinked(a) == Live(approval[a].user)

MayLink(a) == Live(approval[a].user) /\ Unlinked(approval[a].user)

\* Mutant: the approval stays pending.
ApprovalKept(c, a) == approval

\* Mutant: the audit record does not say who used it.
ApprovalUnsigned(c, a) == [approval EXCEPT ![a].status = "consumed"]

ApprovalSpent(c, a) ==
    [approval EXCEPT ![a].status = "consumed", ![a].subject = call[c].subject]

ResolveApproved(c, a) ==
    /\ NewSubject(c)
    /\ a \in Matching(c) /\ MayLink(a)
    /\ approval' = ApprovalSpent(c, a)
    /\ identity' = [identity EXCEPT ![call[c].subject] = approval[a].user]
    /\ SignIn(c, approval[a].user)
    /\ UNCHANGED student

\* Mutant: a new user takes the name as it is.
TakenName(c, u) == call[c].name

FreeName(c, u) ==
    IF \E v \in Users : Live(v) /\ student[v].name = call[c].name THEN u ELSE call[c].name

ResolveRegistered(c, u) ==
    /\ NewSubject(c) /\ Matching(c) = {}
    /\ registration /\ student[u].status = "unused"
    /\ student' = [student EXCEPT ![u] = [status |-> "live", name |-> FreeName(c, u)]]
    /\ identity' = [identity EXCEPT ![call[c].subject] = u]
    /\ SignIn(c, u)
    /\ UNCHANGED approval

\* 403 or 409, rolled back.
ResolveRefused(c) ==
    /\ NewSubject(c)
    /\ IF Matching(c) = {} THEN ~registration ELSE \A a \in Matching(c) : ~MayLink(a)
    /\ Goto(c, "fail")
    /\ UNCHANGED <<accounts, flow, history>>

Fail(c) ==
    LET f == call[c].flow IN
    /\ pc[c] = "fail"
    /\ flow' = IF HasRow(f) THEN [flow EXCEPT ![f].phase = "failed"] ELSE flow
    /\ Reply(c, "failure")
    /\ UNCHANGED <<accounts, history>>

-----------------------------------------------------------------------------
(* POST /auth/forgejo/exchange, by who knows the flow's verifier.          *)

Exchange(c, f, ticket) ==
    LET args == [NoArgs EXCEPT !.op = "exchange", !.flow = f]
        Answer(reply) == Arrive(c, "replied", [args EXCEPT !.reply = reply])
    IN  /\ \/ /\ ~Valid(f) \/ flow[f].phase = "failed"
              /\ Answer("refused")
           \/ /\ Valid(f) /\ flow[f].phase \in {"pending", "browser", "exchanging"}
              /\ Answer("pending")
           \/ /\ Valid(f) /\ flow[f].phase = "ready" /\ ~ticket
              /\ Answer("refused")
           \/ /\ Valid(f) /\ flow[f].phase = "ready" /\ ticket
              /\ Arrive(c, "consume", args)
        /\ UNCHANGED <<accounts, flow, history>>

\* Mutant: the row is looked at but not deleted.
RowKept(f) == flow[f]

Consumed(f) == [NoFlow EXCEPT !.phase = "gone"]

\* DELETE ... RETURNING user_id.
Consume(c) ==
    LET f == call[c].flow IN
    /\ pc[c] = "consume" /\ flow[f].phase = "ready" /\ ~flow[f].old
    /\ flow' = [flow EXCEPT ![f] = Consumed(f)]
    /\ pc' = [pc EXCEPT ![c] = "mint"]
    /\ call' = [call EXCEPT ![c].user = flow[f].user]
    /\ UNCHANGED <<accounts, history>>

ConsumeRefused(c) ==
    LET f == call[c].flow IN
    /\ pc[c] = "consume" /\ ~(flow[f].phase = "ready" /\ ~flow[f].old)
    /\ Reply(c, "refused")
    /\ UNCHANGED <<accounts, flow, history>>

Mint(c) ==
    /\ pc[c] = "mint" /\ Live(call[c].user)
    /\ token' = [token EXCEPT ![call[c].flow] = call[c].user]
    /\ minted' = [minted EXCEPT ![call[c].flow] = @ + 1]
    /\ Reply(c, "token")
    /\ UNCHANGED <<accounts, flow, signed>>

\* 401: the account was deleted.
MintRefused(c) ==
    /\ pc[c] = "mint" /\ ~Live(call[c].user)
    /\ Reply(c, "refused")
    /\ UNCHANGED <<accounts, flow, history>>

-----------------------------------------------------------------------------
(* Operators and administrators.                                           *)

\* admin link-forgejo --username: first what has expired is retired ...
Approve(c, n, u) ==
    /\ Arrive(c, "approve", [NoArgs EXCEPT !.op = "approve", !.name = n, !.user = u])
    /\ approval' = [a \in Approvals |->
                      IF approval[a].status = "pending" /\ approval[a].old
                      THEN [approval[a] EXCEPT !.status = "expired"] ELSE approval[a]]
    /\ UNCHANGED <<student, identity, registration, linked, flow, history>>

Conflict(c) == \E a \in Approvals :
    /\ approval[a].status = "pending"
    /\ approval[a].name = call[c].name \/ approval[a].user = call[c].user

\* ... then the approval is checked and inserted.
InsertApproval(c, a) ==
    /\ pc[c] = "approve" /\ approval[a].status = "unused"
    /\ Live(call[c].user) /\ Unlinked(call[c].user) /\ ~Conflict(c)
    /\ approval' = [approval EXCEPT ![a] = [NoApproval EXCEPT !.status = "pending",
                                              !.name = call[c].name, !.user = call[c].user]]
    /\ Return(c)
    /\ UNCHANGED <<student, identity, registration, linked, flow, history>>

RefuseApproval(c) ==
    /\ pc[c] = "approve"
    /\ ~Live(call[c].user) \/ ~Unlinked(call[c].user) \/ Conflict(c)
    /\ Return(c)
    /\ UNCHANGED <<accounts, flow, history>>

\* admin link-forgejo --subject.
LinkSubject(s, u) ==
    /\ Live(u) /\ Unlinked(u) /\ identity[s] = None
    /\ identity' = [identity EXCEPT ![s] = u]
    /\ linked' = linked \cup {<<s, u>>}
    /\ UNCHANGED <<student, approval, registration, flow, pc, call, history>>

SetRegistration ==
    /\ registration' = ~registration
    /\ UNCHANGED <<student, identity, approval, linked, flow, pc, call, history>>

\* DELETE /admin/users/{id}: foreign keys delete the identity and the flows.
DeleteUser(u) ==
    /\ Live(u)
    /\ student' = [student EXCEPT ![u] = [status |-> "deleted", name |-> None]]
    /\ identity' = [s \in Subjects |-> IF identity[s] = u THEN None ELSE identity[s]]
    /\ flow' = [f \in Flows |-> IF HasRow(f) /\ flow[f].user = u
                                THEN [NoFlow EXCEPT !.phase = "gone"] ELSE flow[f]]
    /\ UNCHANGED <<approval, registration, linked, pc, call, history>>

(* Time and failure.                                                       *)

\* Five minutes after the start, fifteen after the approval.
Expire(f) ==
    /\ Valid(f)
    /\ flow' = [flow EXCEPT ![f].old = TRUE]
    /\ UNCHANGED <<accounts, pc, call, history>>

ExpireApproval(a) ==
    /\ approval[a].status = "pending" /\ ~approval[a].old
    /\ approval' = [approval EXCEPT ![a].old = TRUE]
    /\ UNCHANGED <<student, identity, registration, linked, flow, pc, call, history>>

\* The worker dies or the database fails: an exception no handler catches.
\* A reply that was not read is lost the same way.
Dies(c) ==
    /\ pc[c] # "idle"
    /\ Return(c)
    /\ UNCHANGED <<accounts, flow, history>>

-----------------------------------------------------------------------------
CallbackStep(c) ==
    \/ Claim(c) \/ ClaimRefused(c)
    \/ \E s \in Subjects, n \in Names : Fetched(c, s, n)
    \/ FetchFails(c)
    \/ ResolveKnown(c) \/ ResolveRefused(c) \/ Fail(c)
    \/ \E a \in Approvals : ResolveApproved(c, a)
    \/ \E u \in Users : ResolveRegistered(c, u)

ExchangeStep(c) == Consume(c) \/ ConsumeRefused(c) \/ Mint(c) \/ MintRefused(c)

ApproveStep(c) == RefuseApproval(c) \/ \E a \in Approvals : InsertApproval(c, a)

\* A handler or command goes on.
Step(c) == OpenLogin(c) \/ CallbackStep(c) \/ ExchangeStep(c) \/ ApproveStep(c)

Operator ==
    \/ \E c \in Calls, n \in Names, u \in Users : Approve(c, n, u)
    \/ \E s \in Subjects, u \in Users : LinkSubject(s, u)
    \/ SetRegistration
    \/ \E u \in Users : DeleteUser(u)

Time == (\E f \in Flows : Expire(f)) \/ (\E a \in Approvals : ExpireApproval(a))

\* Clients that send anything at any time, any number of times.
Client(c) ==
    \E f \in Flows :
        \/ Start(c, f)
        \/ \E b \in Browsers : Authorize(c, f, b) \/ Callback(c, f, b)
        \/ \E ticket \in BOOLEAN : Exchange(c, f, ticket)

Next ==
    \/ \E c \in Calls : Client(c) \/ Step(c) \/ Dies(c)
    \/ Operator
    \/ Time

Spec == Init /\ [][Next]_serverVars

-----------------------------------------------------------------------------
(* Correctness.                                                            *)

\* Every variable keeps to the shape of its rows and of the table's CHECK: an
\* approval names a subject exactly when it was consumed.
TypeOK ==
    /\ student \in [Users -> StudentRow]
    /\ identity \in [Subjects -> Users \cup {None}]
    /\ approval \in [Approvals -> ApprovalRow]
    /\ \A a \in Approvals : approval[a].status = "consumed" <=> approval[a].subject # None
    /\ flow \in [Flows -> FlowRow]
    /\ registration \in BOOLEAN
    /\ pc \in [Calls -> Places]
    /\ call \in [Calls -> CallRow]
    /\ signed \in [Flows -> [subject : Subjects \cup {None}, user : Users \cup {None}]]
    /\ token \in [Flows -> Users \cup {None}]
    /\ minted \in [Flows -> Nat]
    /\ linked \subseteq Subjects \X Users

\* A login attempt is worth one token, however often its callback and its
\* exchange are repeated, by however many workers.
OneTokenPerFlow == \A f \in Flows : minted[f] <= 1

\* The token of a flow names the account of the person who signed in for it,
\* which that person still has unless the account was deleted.
TokenOfSigner ==
    \A f \in Flows : token[f] # None =>
        /\ signed[f].user = token[f]
        /\ identity[signed[f].subject] = token[f] \/ student[token[f]].status = "deleted"

\* Subjects and accounts match one to one, and live accounts have different
\* names, however sign-ins, approvals and links race.
AccountsOneToOne ==
    /\ \A s, t \in Subjects : identity[s] # None /\ identity[s] = identity[t] => s = t
    /\ \A u, v \in Users : Live(u) /\ Live(v) /\ student[u].name = student[v].name => u = v

\* A sign-in never moves a person to another account: an identity ends only
\* with the deletion of its account.
IdentityStays ==
    [][\A s \in Subjects :
         identity[s] # None /\ identity'[s] # identity[s]
           => student'[identity[s]].status = "deleted"]_serverVars

\* Equal names never link: an account that existed before belongs to a
\* Forgejo user only if an operator linked the two, by subject or by an
\* approval that this user consumed.  A consumed approval tells the truth.
OnlyOperatorsLink ==
    /\ \A s \in Subjects : identity[s] \in Locals =>
         \/ <<s, identity[s]>> \in linked
         \/ \E a \in Approvals : /\ approval[a].status = "consumed"
                                 /\ approval[a].subject = s /\ approval[a].user = identity[s]
    /\ \A a \in Approvals : approval[a].status = "consumed" =>
         \/ identity[approval[a].subject] = approval[a].user
         \/ student[approval[a].user].status = "deleted"

-----------------------------------------------------------------------------
(* What a login attempt is worth, whichever rows and calls hold it: a row    *)
(* that was consumed lives on in the call that is about to mint.             *)

Taking(c, f) == pc[c] = "mint" /\ call[c].flow = f

Worth(f) ==
    IF minted[f] > 0 THEN "taken"
    ELSE IF flow[f].phase = "ready" \/ \E c \in Calls : Taking(c, f) THEN "signed"
    ELSE IF flow[f].phase \in {"failed", "gone"} THEN "dead" ELSE "open"

WorthTo(f) ==
    IF minted[f] > 0 THEN token[f]
    ELSE IF flow[f].phase = "ready" THEN flow[f].user
    ELSE IF \E c \in Calls : Taking(c, f) THEN call[CHOOSE c \in Calls : Taking(c, f)].user
    ELSE None

HandoffOf == INSTANCE Handoff WITH
    stage <- [f \in Flows |-> Worth(f)], user <- [f \in Flows |-> WorthTo(f)],
    tokens <- minted

\* Whatever is repeated, lost or interleaved, an attempt is one sign-in and at
\* most one token for it.
ImplementsHandoff == HandoffOf!Spec
=============================================================================
