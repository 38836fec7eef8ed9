---------------------------- MODULE PlatformProofs ----------------------------
(***************************************************************************)
(* Proofs about the server and its student page besides the tutoring.       *)
(* Users: its types, that every mentor can be traced to the command line or *)
(* to a grant by someone who can, and that whoever was deleted leaves the   *)
(* page that deleted them.  StudentPage: that all the page holds and draws  *)
(* is of the student whose token it holds, that what it shows as solved was *)
(* defended, and that sign-ins do not get into each other's way.            *)
(***************************************************************************)
EXTENDS Users, FiniteSetTheorems, TLAPS

-----------------------------------------------------------------------------
(* Types *)

\* A request that reaches another stage is a request.
LEMMA StageType ==
    \A q \in Requests :
        /\ \A s \in {"sent", "authorized", "done", "refused"} : [q EXCEPT !.stage = s] \in Requests
        /\ [q EXCEPT !.stage = "done", !.result = Pupils] \in Requests
BY DEF Requests, Pupils

\* A list of a page that asks for it again is old, and no other request changes.
LEMMA AgedType ==
    ASSUME NEW q \in Requests, NEW a
    PROVE  /\ Aged(a, q) \in Requests
           /\ Aged(a, q).by = q.by /\ Aged(a, q).op = q.op /\ Aged(a, q).target = q.target
           /\ Aged(a, q).to = q.to /\ Aged(a, q).stage = q.stage /\ Aged(a, q).result = q.result
           /\ q.by = a /\ q.op = "list" => Aged(a, q).old = TRUE
           /\ q.by # a \/ q.op # "list" => Aged(a, q) = q
BY DEF Requests, Aged

\* What a page asks for is a request.
LEMMA NewAskType ==
    \A a \in Users, i \in 1..MaxAsks :
        /\ NewAsk(a, "list", None, None, i) \in Requests
        /\ \A u \in Users : NewAsk(a, "delete", u, None, i) \in Requests
        /\ \A u \in Users, r \in Roles :
              NewAsk(a, "role", u, r, i) \in Requests /\ NewAsk(a, "create", u, r, i) \in Requests
BY DEF NewAsk, Requests

\* A page that may ask has a slot for it.
LEMMA SlotType ==
    ASSUME NEW a, MayAsk(a)
    PROVE  Slot(a) \in 1..MaxAsks
<1>1. Slot(a) \in Unused(a)
  BY DEF MayAsk, Slot
<1> QED BY <1>1 DEF Unused

\* Asking for the list keeps the types.
LEMMA LoadsType ==
    ASSUME TypeOK, NEW a \in Users, NEW i \in 1..MaxAsks, NEW S, Loads(a, i, S)
    PROVE  /\ asks' \subseteq Requests
           /\ loading' \in [Users -> BOOLEAN] /\ failed' \in [Users -> BOOLEAN]
<1>1. \A r \in asks : Aged(a, r) \in Requests
  BY AgedType DEF TypeOK
<1>2. asks' \subseteq Requests
  BY <1>1, NewAskType DEF Loads
<1> QED BY <1>2 DEF Loads, TypeOK

\* The users a page shows are given roles, those of Staff or "student".
LEMMA RolesAreNamed == Staff \subseteq Roles /\ "student" \in Roles /\ "none" \notin Roles /\ "gone" \notin Roles
BY DEF Staff, Roles

\* A step of the server or the page on one request keeps the types.
LEMMA RequestType ==
    ASSUME TypeOK, NEW q \in asks,
           Authorize(q) \/ Serves(q) \/ Answered(q) \/ Listed(q) \/ Lost(q)
    PROVE  TypeOK'
<1>1. q \in Requests
  BY DEF TypeOK
<1>2. /\ q.by \in Users /\ q.result \subseteq Users /\ q.slot \in 1..MaxAsks /\ q.old \in BOOLEAN
      /\ q.op # "list" => q.target \in Users
      /\ q.op \in {"role", "create"} => q.to \in Roles
  BY <1>1 DEF Requests
<1>3. \A s \in {"sent", "authorized", "done", "refused"} : [q EXCEPT !.stage = s] \in Requests
  BY <1>1, StageType
<1>4. [q EXCEPT !.stage = "done", !.result = Pupils] \in Requests
  BY <1>1, StageType
<1>5. ASSUME NEW S, Loads(q.by, q.slot, S)
      PROVE  /\ asks' \subseteq Requests
             /\ loading' \in [Users -> BOOLEAN] /\ failed' \in [Users -> BOOLEAN]
  BY <1>2, <1>5, LoadsType
<1>6. asks' \subseteq Requests
  <2>1. asks \subseteq Requests
    BY DEF TypeOK
  <2>2. (\E r \in Requests : Becomes(q, r)) => asks' \subseteq Requests
    BY <2>1 DEF Becomes
  <2>3. CASE Authorize(q)
    BY <1>3, <2>2, <2>3 DEF Authorize
  <2>4. CASE Serves(q)
    <3>1. \E r \in Requests : Becomes(q, r)
      BY <1>3, <1>4, <2>4 DEF Serves, list_students, update_user_role, create_user, delete_user
    <3> QED
      BY <2>2, <3>1
  <2>5. CASE Answered(q)
    BY <1>5, <2>1, <2>2, <2>5 DEF Answered
  <2> QED
    BY <2>1, <2>3, <2>4, <2>5 DEF Listed, Lost
<1>7. CASE Authorize(q)
  BY <1>6, <1>7 DEF TypeOK, Authorize, pageVars
<1>8. CASE Serves(q)
  <2>1. /\ role' \in [Users -> Roles \cup {"none", "gone"}]
        /\ \A u \in Users : role'[u] = "none" => role[u] = "none"
    BY <1>2, <1>8, RolesAreNamed DEF TypeOK, Serves, list_students, update_user_role, create_user, delete_user
  <2>2. grants' \subseteq Users \X Users
    BY <1>2, <1>8 DEF TypeOK, Serves, list_students, update_user_role, create_user, delete_user
  <2>3. progress' \subseteq progress /\ running' = running /\ UNCHANGED pageVars
    BY <1>8 DEF Serves, list_students, update_user_role, create_user, delete_user, pageVars
  <2>4. progress \cup running \subseteq Users
    BY DEF TypeOK
  <2> QED
    BY <1>6, <2>1, <2>2, <2>3, <2>4 DEF TypeOK, pageVars
<1>9. CASE Answered(q)
  <2>1. loading' \in [Users -> BOOLEAN] /\ failed' \in [Users -> BOOLEAN]
    BY <1>5, <1>9 DEF TypeOK, Answered
  <2> QED BY <1>6, <1>9, <2>1 DEF TypeOK, Answered
<1>10. CASE Listed(q) \/ Lost(q)
  <2>1. /\ listed' \in [Users -> SUBSET Users] /\ loading' \in [Users -> BOOLEAN]
        /\ failed' \in [Users -> BOOLEAN] /\ overtaken' \in [Users -> BOOLEAN]
    <3>1. /\ listed \in [Users -> SUBSET Users] /\ loading \in [Users -> BOOLEAN]
          /\ failed \in [Users -> BOOLEAN] /\ overtaken \in [Users -> BOOLEAN]
      BY DEF TypeOK
    <3>2. \A S \in SUBSET Users : [listed EXCEPT ![q.by] = S] \in [Users -> SUBSET Users]
      BY <3>1
    <3>3. /\ [loading EXCEPT ![q.by] = FALSE] \in [Users -> BOOLEAN]
          /\ [failed EXCEPT ![q.by] = TRUE] \in [Users -> BOOLEAN]
          /\ [overtaken EXCEPT ![q.by] = q.old] \in [Users -> BOOLEAN]
      BY <1>2, <3>1
    <3>4. CASE Listed(q)
      BY <1>2, <3>1, <3>2, <3>3, <3>4 DEF Listed, Fails
    <3>5. CASE Lost(q)
      BY <3>1, <3>2, <3>3, <3>5 DEF Lost, Fails
    <3> QED
      BY <1>10, <3>4, <3>5
  <2> QED
    BY <1>6, <1>10, <2>1 DEF TypeOK, Listed, Lost
<1> QED
  BY <1>7, <1>8, <1>9, <1>10

\* A step of an account or of the command line keeps the types.
LEMMA AccountType ==
    ASSUME TypeOK, NEW u \in Users,
           CheckBegins(u) \/ CheckStores(u) \/ register(u) \/ SetRoleByHand(u)
    PROVE  TypeOK'
<1>1. CASE CheckBegins(u)
  BY <1>1, RolesAreNamed DEF TypeOK, CheckBegins, Exists, pageVars
<1>2. CASE CheckStores(u)
  BY <1>2 DEF TypeOK, CheckStores, pageVars
<1>3. CASE register(u)
  BY <1>3, RolesAreNamed DEF TypeOK, register, pageVars
<1>4. CASE SetRoleByHand(u)
  BY <1>4, RolesAreNamed DEF TypeOK, SetRoleByHand, pageVars
<1> QED
  BY <1>1, <1>2, <1>3, <1>4

\* A page that asks keeps the types.
LEMMA PageType ==
    ASSUME TypeOK, NEW a \in Pages, load(a) \/ PageAsks(a) \/ Demotes(a)
    PROVE  TypeOK'
<1>1. a \in Users
  BY UsersAssumption
<1>2. Shown(a) \subseteq Users
  BY <1>1 DEF TypeOK, Shown
<1>3. CASE load(a)
  <2>1. /\ asks' \subseteq Requests
        /\ loading' \in [Users -> BOOLEAN] /\ failed' \in [Users -> BOOLEAN]
    BY <1>1, <1>3, SlotType, LoadsType DEF load
  <2> QED BY <1>3, <2>1 DEF load, TypeOK
<1>4. CASE PageAsks(a)
  <2>1. asks' \subseteq Requests
    BY <1>1, <1>2, <1>4, NewAskType, SlotType, RolesAreNamed DEF PageAsks, Asks, TypeOK
  <2> QED
    BY <1>4, <2>1 DEF PageAsks, TypeOK, pageVars
<1>5. CASE Demotes(a)
  <2>1. asks' \subseteq Requests
    BY <1>1, <1>5, NewAskType, SlotType, RolesAreNamed DEF Demotes, Asks, TypeOK
  <2> QED
    BY <1>5, <2>1 DEF Demotes, TypeOK, pageVars
<1> QED
  BY <1>3, <1>4, <1>5

\* Every variable keeps to its values: in particular nobody without an account has
\* a check running or progress, whatever is refused, lost or deleted meanwhile.
THEOREM UsersTypes == Spec => []TypeOK
<1>1. Init => TypeOK
  <2> SUFFICES ASSUME Init PROVE TypeOK
    OBVIOUS
  <2>1. Pupils \subseteq Users
    BY DEF Pupils
  <2> QED
    BY <2>1, UsersAssumption DEF Init, TypeOK
<1>2. TypeOK /\ [Next]_vars => TypeOK'
  <2> SUFFICES ASSUME TypeOK, [Next]_vars PROVE TypeOK'
    OBVIOUS
  <2>1. CASE UNCHANGED vars
    BY <2>1 DEF vars, TypeOK
  <2> QED
    BY <2>1, RequestType, AccountType, PageType DEF Next
<1> QED
  BY <1>1, <1>2, PTL DEF Spec

-----------------------------------------------------------------------------
(* Who appoints *)

\* Made a mentor on the command line or by a grant.
Appointed(u) == u \in byHand \cup Granted

\* EveryMentorIsAppointed is not inductive: a request that was let through is
\* carried out later, when its caller may have any role or none.  Whoever passed
\* the check was a mentor then, and so was appointed.
AppointInv ==
    /\ TypeOK /\ EveryMentorIsAppointed
    /\ \A q \in asks :
        /\ q.op = "role" /\ q.to = "mentor" /\ q.stage = "authorized" => Appointed(q.by)
        /\ q.op = "create" /\ q.stage = "authorized" => q.to # "mentor"

\* A request of role is let through only from a mentor when it makes one.
LEMMA OnlyMentorsAppoint ==
    \A q \in Requests : \A r \in Roles : q.op = "role" /\ q.to = "mentor" /\ Allowed(q, r) => r = "mentor"
BY DEF Allowed

\* Appointments are never taken back.
LEMMA AppointmentsStay ==
    TypeOK /\ [Next]_vars => byHand \subseteq byHand' /\ grants \subseteq grants'
<1> SUFFICES ASSUME TypeOK, [Next]_vars PROVE byHand \subseteq byHand' /\ grants \subseteq grants'
  OBVIOUS
<1>1. ASSUME NEW q \in asks, Authorize(q) \/ Serves(q) \/ Answered(q) \/ Listed(q) \/ Lost(q)
      PROVE  byHand \subseteq byHand' /\ grants \subseteq grants'
  BY <1>1 DEF Authorize, Serves, Answered, Listed, Lost, list_students, update_user_role, create_user, delete_user
<1>2. ASSUME NEW u \in Users, CheckBegins(u) \/ CheckStores(u) \/ register(u) \/ SetRoleByHand(u)
      PROVE  byHand \subseteq byHand' /\ grants \subseteq grants'
  BY <1>2 DEF CheckBegins, CheckStores, register, SetRoleByHand
<1>3. ASSUME NEW a \in Pages, load(a) \/ PageAsks(a) \/ Demotes(a)
      PROVE  byHand \subseteq byHand' /\ grants \subseteq grants'
  BY <1>3 DEF load, PageAsks, Demotes
<1> QED
  BY <1>1, <1>2, <1>3 DEF Next, vars

\* A step makes mentors only of those it makes appointed, and its grants have
\* appointed givers.
LEMMA AppointStep ==
    ASSUME AppointInv, [Next]_vars
    PROVE  EveryMentorIsAppointed'
<1> DEFINE Kept == byHand \subseteq byHand' /\ Granted \subseteq Granted'
<1>1. Kept
  BY AppointmentsStay DEF AppointInv, Granted
<1>2. \A u \in Users : role[u] = "mentor" => Appointed(u)'
  BY <1>1 DEF AppointInv, EveryMentorIsAppointed, Appointed
<1>3. \A g \in grants : Appointed(g[1])'
  BY <1>1 DEF AppointInv, EveryMentorIsAppointed, Appointed
<1>4. SUFFICES /\ \A u \in Users : role'[u] = "mentor" => role[u] = "mentor" \/ Appointed(u)'
               /\ \A g \in grants' : g \in grants \/ Appointed(g[1])'
  BY <1>2, <1>3 DEF EveryMentorIsAppointed, Appointed
<1>5. ASSUME role' = role, grants' = grants
      PROVE  /\ \A u \in Users : role'[u] = "mentor" => role[u] = "mentor" \/ Appointed(u)'
             /\ \A g \in grants' : g \in grants \/ Appointed(g[1])'
  BY <1>5
<1>6. role \in [Users -> Roles \cup {"none", "gone"}] /\ asks \subseteq Requests
  BY DEF AppointInv, TypeOK
<1>7. ASSUME NEW q \in asks, update_user_role(q)
      PROVE  /\ \A u \in Users : role'[u] = "mentor" => role[u] = "mentor" \/ Appointed(u)'
             /\ \A g \in grants' : g \in grants \/ Appointed(g[1])'
  <2>1. CASE q.to = "mentor" /\ role' # role
    <3>1. /\ role' = [role EXCEPT ![q.target] = q.to]
          /\ grants' = grants \cup {<<q.by, q.target>>} /\ byHand' = byHand
      BY <1>7, <2>1 DEF update_user_role
    <3>2. Appointed(q.by)
      BY <1>7, <2>1 DEF AppointInv, update_user_role
    <3>3. Appointed(q.by)'
      BY <1>1, <3>2 DEF Appointed
    <3>4. Appointed(q.target)'
      <4>1. <<q.by, q.target>> \in grants' /\ <<q.by, q.target>>[2] = q.target
        BY <3>1
      <4>2. q.target \in Granted'
        BY <4>1 DEF Granted
      <4> QED
        BY <4>2 DEF Appointed
    <3> QED
      BY <1>6, <3>1, <3>3, <3>4
  <2>2. CASE role' = role
    <3>1. CASE grants' = grants
      BY <1>5, <2>2, <3>1
    <3>2. CASE grants' # grants
      <4>1. q.to = "mentor" /\ grants' = grants \cup {<<q.by, q.target>>}
        BY <1>7, <3>2 DEF update_user_role
      <4>2. Appointed(q.by)
        BY <1>7, <4>1 DEF AppointInv, update_user_role
      <4>3. Appointed(q.by)'
        BY <1>1, <4>2 DEF Appointed
      <4> QED
        BY <2>2, <4>1, <4>3
    <3> QED
      BY <3>1, <3>2
  <2>3. CASE q.to # "mentor" /\ role' # role
    BY <1>6, <1>7, <2>3 DEF update_user_role
  <2> QED
    BY <2>1, <2>2, <2>3
<1>8. ASSUME NEW q \in asks, create_user(q) \/ delete_user(q)
      PROVE  /\ \A u \in Users : role'[u] = "mentor" => role[u] = "mentor" \/ Appointed(u)'
             /\ \A g \in grants' : g \in grants \/ Appointed(g[1])'
  <2>1. CASE create_user(q)
    <3>1. q.to # "mentor"
      BY <2>1 DEF AppointInv, create_user
    <3> QED
      BY <1>6, <2>1, <3>1 DEF create_user
  <2>2. CASE delete_user(q)
    BY <1>6, <2>2 DEF delete_user
  <2> QED
    BY <1>8, <2>1, <2>2
<1>9. ASSUME NEW q \in asks,
             Authorize(q) \/ list_students(q) \/ Answered(q) \/ Listed(q) \/ Lost(q)
      PROVE  role' = role /\ grants' = grants
  BY <1>9 DEF Authorize, list_students, Answered, Listed, Lost
<1>10. ASSUME NEW u \in Users, CheckBegins(u) \/ CheckStores(u)
       PROVE  role' = role /\ grants' = grants
  BY <1>10 DEF CheckBegins, CheckStores
<1>11. ASSUME NEW u \in Users, register(u) \/ SetRoleByHand(u)
       PROVE  /\ grants' = grants
              /\ \A v \in Users : role'[v] = "mentor" => role[v] = "mentor" \/ Appointed(v)'
  <2>1. CASE register(u)
    BY <1>6, <2>1 DEF register
  <2>2. CASE SetRoleByHand(u)
    <3>1. PICK r \in Roles : /\ role' = [role EXCEPT ![u] = r]
                             /\ byHand' = IF r = "mentor" THEN byHand \cup {u} ELSE byHand
      BY <2>2 DEF SetRoleByHand
    <3> QED
      BY <1>6, <2>2, <3>1 DEF Appointed, SetRoleByHand
  <2> QED
    BY <1>11, <2>1, <2>2
<1>12. ASSUME NEW a \in Pages, load(a) \/ PageAsks(a) \/ Demotes(a)
       PROVE  role' = role /\ grants' = grants
  BY <1>12 DEF load, PageAsks, Demotes
<1>13. CASE UNCHANGED vars
  BY <1>5, <1>13 DEF vars
<1>14. CASE \E q \in asks : Authorize(q) \/ Serves(q) \/ Answered(q) \/ Listed(q) \/ Lost(q)
  BY <1>5, <1>7, <1>8, <1>9, <1>14 DEF Serves
<1>15. CASE \E u \in Users : CheckBegins(u) \/ CheckStores(u) \/ register(u) \/ SetRoleByHand(u)
  BY <1>5, <1>10, <1>11, <1>15
<1>16. CASE \E a \in Pages : load(a) \/ PageAsks(a) \/ Demotes(a)
  BY <1>5, <1>12, <1>16
<1> QED
  BY <1>13, <1>14, <1>15, <1>16 DEF Next

\* A request is let through only by Authorize.
LEMMA LetThrough ==
    ASSUME AppointInv, [Next]_vars
    PROVE  \A r \in asks' : r.stage = "authorized" =>
             \/ \E q \in asks : q.stage = "authorized" /\ r.op = q.op /\ r.to = q.to /\ r.by = q.by
             \/ \E q \in asks : /\ r.op = q.op /\ r.to = q.to /\ r.by = q.by /\ q \in Requests
                                /\ role[q.by] \in Roles /\ Allowed(q, role[q.by])
<1> SUFFICES ASSUME NEW r \in asks', r.stage = "authorized",
                    \A q \in asks : ~(q.stage = "authorized" /\ r.op = q.op /\ r.to = q.to /\ r.by = q.by)
             PROVE  \E q \in asks : /\ r.op = q.op /\ r.to = q.to /\ r.by = q.by /\ q \in Requests
                                    /\ role[q.by] \in Roles /\ Allowed(q, role[q.by])
  OBVIOUS
<1>1. asks \subseteq Requests
  BY DEF AppointInv, TypeOK
<1>0. r \notin asks
  OBVIOUS
<1>2. ASSUME NEW a, NEW op, NEW u, NEW to, NEW i, r = NewAsk(a, op, u, to, i) PROVE FALSE
  BY <1>2 DEF NewAsk
<1>11. ASSUME NEW a, NEW i, NEW S, Loads(a, i, S) PROVE FALSE
  <2>1. ASSUME NEW q \in asks, r = Aged(a, q) PROVE FALSE
    BY <1>1, <2>1, AgedType
  <2> QED BY <1>2, <1>11, <2>1 DEF Loads
<1>3. ASSUME NEW q \in asks, NEW s, s # "authorized", r = [q EXCEPT !.stage = s] PROVE FALSE
  BY <1>1, <1>3 DEF Requests
<1>4. ASSUME NEW q \in asks, r = [q EXCEPT !.stage = "done", !.result = Pupils] PROVE FALSE
  BY <1>1, <1>4 DEF Requests
<1>5. ASSUME NEW q \in asks, Authorize(q) PROVE r.op = q.op /\ r.to = q.to /\ r.by = q.by /\ q \in Requests /\ role[q.by] \in Roles /\ Allowed(q, role[q.by])
  <2>1. CASE Exists(q.by) /\ Allowed(q, role[q.by])
    <3>1. r = [q EXCEPT !.stage = "authorized"]
      BY <1>0, <1>5, <2>1 DEF Authorize, Becomes
    <3>2. r.op = q.op /\ r.to = q.to /\ r.by = q.by
      BY <1>1, <3>1 DEF Requests
    <3> QED
      BY <1>1, <2>1, <3>2 DEF Exists
  <2>2. CASE ~(Exists(q.by) /\ Allowed(q, role[q.by]))
    <3>1. r = [q EXCEPT !.stage = "refused"]
      BY <1>0, <1>5, <2>2 DEF Authorize, Becomes
    <3> QED
      BY <1>3, <3>1
  <2> QED
    BY <2>1, <2>2
<1>6. ASSUME NEW q \in asks, Serves(q) PROVE FALSE
  <2>1. \E s \in {"done", "refused"} : r = [q EXCEPT !.stage = s] \/ r = [q EXCEPT !.stage = "done", !.result = Pupils]
    BY <1>0, <1>6 DEF Serves, list_students, update_user_role, create_user, delete_user, Becomes
  <2> QED
    BY <1>3, <1>4, <2>1
<1>7. ASSUME NEW q \in asks, Answered(q) \/ Listed(q) \/ Lost(q) PROVE FALSE
  BY <1>0, <1>7, <1>11 DEF Answered, Listed, Lost
<1>8. ASSUME NEW u \in Users, CheckBegins(u) \/ CheckStores(u) \/ register(u) \/ SetRoleByHand(u) PROVE FALSE
  BY <1>0, <1>8 DEF CheckBegins, CheckStores, register, SetRoleByHand
<1>9. ASSUME NEW a \in Pages, load(a) \/ PageAsks(a) \/ Demotes(a) PROVE FALSE
  BY <1>0, <1>2, <1>9, <1>11 DEF load, PageAsks, Demotes, Asks
<1>10. CASE UNCHANGED vars
  BY <1>0, <1>10 DEF vars
<1> QED
  BY <1>5, <1>6, <1>7, <1>8, <1>9, <1>10 DEF Next

\* Every mentor was made one on the command line or by a grant, and so was everyone
\* who ever gave a grant, although a grant may be written after its giver was
\* demoted or deleted.
THEOREM MentorsAreAppointed == Spec => []EveryMentorIsAppointed
<1>1. Init => AppointInv
  <2> SUFFICES ASSUME Init PROVE AppointInv
    OBVIOUS
  <2>1. TypeOK
    <3>1. Pupils \subseteq Users
      BY DEF Pupils
    <3> QED
      BY <3>1, UsersAssumption DEF Init, TypeOK
  <2> QED
    BY <2>1 DEF Init, AppointInv, EveryMentorIsAppointed
<1>2. ASSUME AppointInv, [Next]_vars, TypeOK' PROVE AppointInv'
  <2>1. EveryMentorIsAppointed'
    BY <1>2, AppointStep
  <2>2. \A u : Appointed(u) => Appointed(u)'
    BY <1>2, AppointmentsStay DEF AppointInv, Appointed, Granted
  <2>3. ASSUME NEW r \in asks', r.stage = "authorized"
        PROVE  /\ r.op = "role" /\ r.to = "mentor" => Appointed(r.by)'
               /\ r.op = "create" => r.to # "mentor"
    <3>1. ASSUME NEW q \in asks, q.stage = "authorized", r.op = q.op, r.to = q.to, r.by = q.by
          PROVE  /\ r.op = "role" /\ r.to = "mentor" => Appointed(r.by)'
                 /\ r.op = "create" => r.to # "mentor"
      BY <1>2, <2>2, <3>1 DEF AppointInv
    <3>2. ASSUME NEW q \in asks, r.op = q.op, r.to = q.to, r.by = q.by, q \in Requests,
                 role[q.by] \in Roles, Allowed(q, role[q.by])
          PROVE  /\ r.op = "role" /\ r.to = "mentor" => Appointed(r.by)'
                 /\ r.op = "create" => r.to # "mentor"
      <4>1. q.by \in Users
        BY <3>2 DEF Requests
      <4>2. r.op = "role" /\ r.to = "mentor" => Appointed(r.by)
        BY <1>2, <3>2, <4>1, OnlyMentorsAppoint DEF AppointInv, EveryMentorIsAppointed, Appointed
      <4>3. r.op = "create" => r.to # "mentor"
        BY <3>2 DEF Allowed
      <4> QED
        BY <2>2, <4>2, <4>3
    <3> QED
      BY <1>2, <2>3, <3>1, <3>2, LetThrough
  <2> QED
    BY <1>2, <2>1, <2>3 DEF AppointInv
<1>3. AppointInv => EveryMentorIsAppointed
  BY DEF AppointInv
<1> QED
  BY <1>1, <1>2, <1>3, UsersTypes, PTL DEF Spec

-----------------------------------------------------------------------------
(* Who is shown *)

\* A list asked for after all others.
Latest(q) == q.op = "list" /\ q.old = FALSE

\* What a page has is free of those it was told to be deleted; but not what comes
\* late, or is hidden by an error.
Clean(a) == overtaken[a] = TRUE \/ failed[a] = TRUE \/ listed[a] \cap removed[a] = {}

\* DeletedIsNotListed speaks of pages at rest; until then whoever was deleted may
\* be shown only while the latest list is on its way, and that list, once it was
\* served, has none of them, since an account that is gone never comes back.
ListInv ==
    /\ TypeOK
    /\ removed \in [Users -> SUBSET {u \in Users : role[u] = "gone"}]
    /\ \A q \in asks :
        /\ q.op = "delete" /\ q.stage = "done" => role[q.target] = "gone"
        /\ Latest(q) /\ q.stage = "done" => q.result \cap removed[q.by] = {}
    /\ \A a \in Users : Clean(a) \/ \E q \in asks : q.by = a /\ Latest(q)

\* Nobody who is gone comes back.
LEMMA GoneForGood ==
    ASSUME TypeOK, [Next]_vars, NEW u \in Users, role[u] = "gone"
    PROVE  role'[u] = "gone"
<1>1. role \in [Users -> Roles \cup {"none", "gone"}] /\ asks \subseteq Requests
  BY DEF TypeOK
<1>2. ASSUME NEW q \in asks, Authorize(q) \/ Answered(q) \/ Listed(q) \/ Lost(q)
      PROVE  role' = role
  BY <1>2 DEF Authorize, Answered, Listed, Lost
<1>3. ASSUME NEW q \in asks, Serves(q)
      PROVE  role'[u] = "gone"
  BY <1>1, <1>3, RolesAreNamed DEF Serves, list_students, update_user_role, create_user, delete_user, Exists
<1>4. ASSUME NEW v \in Users, CheckBegins(v) \/ CheckStores(v) \/ register(v) \/ SetRoleByHand(v)
      PROVE  role'[u] = "gone"
  BY <1>1, <1>4, RolesAreNamed DEF CheckBegins, CheckStores, register, SetRoleByHand, Exists
<1>5. ASSUME NEW a \in Pages, load(a) \/ PageAsks(a) \/ Demotes(a)
      PROVE  role' = role
  BY <1>5 DEF load, PageAsks, Demotes
<1> QED
  BY <1>2, <1>3, <1>4, <1>5 DEF Next, vars

\* In a step something is asked for, a request moves on for the same page, a list
\* is asked for, or a request ends.
LEMMA ListStep ==
    ASSUME ListInv, [Next]_vars, TypeOK'
    PROVE  ListInv'
<1> DEFINE Gone == {u \in Users : role[u] = "gone"}
<1>1. /\ role \in [Users -> Roles \cup {"none", "gone"}] /\ asks \subseteq Requests
      /\ listed \in [Users -> SUBSET Users] /\ removed \in [Users -> SUBSET Gone]
      /\ failed \in [Users -> BOOLEAN] /\ overtaken \in [Users -> BOOLEAN]
  BY DEF ListInv, TypeOK
<1>2. Gone \subseteq Gone'
  BY GoneForGood DEF ListInv
<1>3. removed \in [Users -> SUBSET Gone']
  BY <1>1, <1>2
<1>4. \A q \in Requests : \A s \in {"sent", "authorized", "done", "refused"} :
        LET r == [q EXCEPT !.stage = s]
        IN  /\ r.by = q.by /\ r.op = q.op /\ r.target = q.target /\ r.stage = s
            /\ r.result = q.result /\ r.old = q.old
  BY DEF Requests
<1>5. \A a, op, u, to, i :
        LET r == NewAsk(a, op, u, to, i)
        IN  r.by = a /\ r.op = op /\ r.stage = "sent" /\ r.old = FALSE
  BY DEF NewAsk
<1> DEFINE Right(q) == /\ q.op = "delete" /\ q.stage = "done" => role[q.target] = "gone"
                       /\ Latest(q) /\ q.stage = "done" => q.result \cap removed[q.by] = {}
           Settled(a) == Clean(a) \/ \E q \in asks : q.by = a /\ Latest(q)
<1>0. /\ \A q \in asks : Right(q)
      /\ \A a \in Users : Settled(a)
  BY DEF ListInv
\* What is to be shown of the next state.
<1>6. ASSUME removed' \in [Users -> SUBSET Gone'], \A q \in asks' : Right(q)', \A a \in Users : Settled(a)'
      PROVE  ListInv'
  BY <1>6 DEF ListInv
\* Deleted accounts stay gone, served lists stay free of them.
<1>7. ASSUME NEW q \in asks, removed'[q.by] = removed[q.by] PROVE Right(q)'
  <2>1. q.op = "delete" => q.target \in Users
    BY <1>1 DEF Requests
  <2>2. Right(q)
    BY <1>0
  <2>3. Latest(q)' <=> Latest(q)
    BY DEF Latest
  <2> QED BY <1>2, <1>7, <2>1, <2>2, <2>3
<1> HIDE DEF Right
\* Something else than the list is asked for.
<1>8. ASSUME NEW a, NEW op, op # "list", NEW u, NEW to, Asks(a, op, u, to), UNCHANGED pageVars
      PROVE  ListInv'
  <2>1. PICK r : r = NewAsk(a, op, u, to, Slot(a))
    OBVIOUS
  <2>2. asks' = asks \cup {r} /\ r.stage = "sent"
    BY <1>5, <1>8, <2>1 DEF Asks
  <2>3. Right(r)'
    BY <2>2 DEF Right
  <2>4. \A b \in Users : Settled(b)'
    BY <1>0, <1>8, <2>2 DEF pageVars, Clean, Latest
  <2> QED BY <1>3, <1>6, <1>7, <1>8, <2>2, <2>3, <2>4 DEF pageVars
\* A request moves on.
<1>9. ASSUME NEW q \in asks, NEW r, Becomes(q, r), r.by = q.by, r.op = q.op, r.old = q.old,
             UNCHANGED pageVars, Right(r)'
      PROVE  ListInv'
  <2>1. \A p \in asks' : Right(p)'
    BY <1>7, <1>9 DEF Becomes, pageVars
  <2>2. \A b \in Users : Settled(b)'
    BY <1>0, <1>9 DEF Becomes, pageVars, Clean, Latest
  <2> QED BY <1>3, <1>6, <1>9, <2>1, <2>2 DEF pageVars
<1>10. ASSUME NEW q \in asks, Authorize(q) PROVE ListInv'
  <2>1. PICK s \in {"authorized", "refused"} : Becomes(q, [q EXCEPT !.stage = s])
    BY <1>10 DEF Authorize
  <2>2. PICK r : r = [q EXCEPT !.stage = s]
    OBVIOUS
  <2>3. r.by = q.by /\ r.op = q.op /\ r.old = q.old /\ r.stage # "done"
    BY <1>1, <1>4, <2>2
  <2>4. Right(r)'
    BY <2>3 DEF Right
  <2> QED BY <1>9, <1>10, <2>1, <2>2, <2>3, <2>4 DEF Authorize
<1>11. ASSUME NEW q \in asks, list_students(q) PROVE ListInv'
  <2>1. PICK r : r = [q EXCEPT !.stage = "done", !.result = Pupils]
    OBVIOUS
  <2>2. Becomes(q, r) /\ UNCHANGED pageVars
    BY <1>11, <2>1 DEF list_students
  <2>3. r.by = q.by /\ r.op = q.op /\ r.old = q.old /\ r.result = Pupils /\ r.op = "list" /\ q.by \in Users
    BY <1>1, <1>11, <2>1 DEF Requests, list_students
  <2>4. Pupils \cap removed[q.by] = {}
    BY <1>1, <2>3 DEF Pupils
  <2>5. Right(r)'
    BY <2>2, <2>3, <2>4 DEF Right, pageVars
  <2> QED BY <1>9, <2>2, <2>3, <2>5
<1>12. ASSUME NEW q \in asks, update_user_role(q) \/ create_user(q) PROVE ListInv'
  <2>1. PICK s \in {"done", "refused"} : Becomes(q, [q EXCEPT !.stage = s])
    BY <1>12 DEF update_user_role, create_user
  <2>2. PICK r : r = [q EXCEPT !.stage = s]
    OBVIOUS
  <2>3. r.by = q.by /\ r.op = q.op /\ r.old = q.old /\ q.op \in {"role", "create"}
    BY <1>1, <1>4, <1>12, <2>2 DEF update_user_role, create_user
  <2>4. Right(r)'
    BY <2>3 DEF Right, Latest
  <2> QED BY <1>9, <1>12, <2>1, <2>2, <2>3, <2>4 DEF update_user_role, create_user
<1>13. ASSUME NEW q \in asks, delete_user(q) PROVE ListInv'
  <2>1. PICK s \in {"done", "refused"} :
          /\ Becomes(q, [q EXCEPT !.stage = s])
          /\ s = "done" => role' = [role EXCEPT ![q.target] = "gone"]
    BY <1>13 DEF delete_user
  <2>2. PICK r : r = [q EXCEPT !.stage = s]
    OBVIOUS
  <2>3. /\ r.by = q.by /\ r.op = q.op /\ r.old = q.old /\ r.stage = s /\ r.target = q.target
        /\ q.op = "delete" /\ q.target \in Users
    BY <1>1, <1>4, <1>13, <2>2 DEF delete_user, Requests
  <2>4. Right(r)'
    BY <1>1, <2>1, <2>3 DEF Right, Latest
  <2> QED BY <1>9, <1>13, <2>1, <2>2, <2>3, <2>4 DEF delete_user
\* A page asks for the list, and may have been told of a deletion.
<1>14. ASSUME NEW a \in Users, NEW i, NEW S, \A q \in S : q.by = a, Loads(a, i, S),
              UNCHANGED <<listed, overtaken>>, NEW D \in SUBSET Gone',
              removed' = [removed EXCEPT ![a] = @ \cup D]
       PROVE  ListInv'
  <2>1. PICK n : n = NewAsk(a, "list", None, None, i)
    OBVIOUS
  <2>2. asks' = {Aged(a, r) : r \in asks \ S} \cup {n} /\ failed' = [failed EXCEPT ![a] = FALSE]
    BY <1>14, <2>1 DEF Loads
  <2>3. n.by = a /\ n.stage = "sent" /\ Latest(n)
    BY <1>5, <2>1 DEF Latest
  <2>4. removed' \in [Users -> SUBSET Gone'] /\ \A b \in Users : b # a => removed'[b] = removed[b]
    BY <1>3, <1>14
  <2>5. ASSUME NEW r \in asks PROVE Right(Aged(a, r))'
    <3>1. r \in Requests /\ r.by \in Users
      BY <1>1 DEF Requests
    <3>2. CASE r.by # a
      <4>1. Aged(a, r) = r
        BY <3>1, <3>2, AgedType
      <4>2. Right(r)'
        BY <1>7, <2>4, <3>1, <3>2
      <4> QED BY <4>1, <4>2 DEF Right
    <3>3. CASE r.by = a
      <4>1. PICK p : p = Aged(a, r)
        OBVIOUS
      <4>2. p.op = r.op /\ p.stage = r.stage /\ p.target = r.target /\ (r.op = "list" => p.old = TRUE)
        BY <3>1, <3>3, <4>1, AgedType
      <4>3. r.op = "delete" /\ r.stage = "done" => role'[r.target] = "gone"
        <5>1. r.op = "delete" => r.target \in Users
          BY <3>1 DEF Requests
        <5>2. Right(r)
          BY <1>0
        <5> QED BY <1>2, <5>1, <5>2 DEF Right
      <4>4. Right(p)'
        BY <4>2, <4>3 DEF Right, Latest
      <4> QED BY <4>1, <4>4
    <3> QED BY <3>2, <3>3
  <2>6. \A p \in asks' : Right(p)'
    <3>1. Right(n)'
      BY <2>3 DEF Right, Latest
    <3>2. ASSUME NEW p \in asks', p # n PROVE Right(p)'
      <4>1. PICK r \in asks : p = Aged(a, r)
        BY <2>2, <3>2
      <4> QED BY <2>5, <4>1
    <3> QED BY <3>1, <3>2
  <2>7. ASSUME NEW b \in Users PROVE Settled(b)'
    <3>1. CASE b = a
      BY <2>2, <2>3, <3>1 DEF Latest
    <3>2. ASSUME b # a, NEW q \in asks, q.by = b, Latest(q) PROVE Settled(b)'
      <4>1. q \notin S /\ Aged(a, q) = q
        BY <1>1, <1>14, <3>2, AgedType
      <4>2. q \in asks'
        BY <2>2, <4>1
      <4> QED BY <3>2, <4>2 DEF Latest
    <3>3. ASSUME b # a, Clean(b) PROVE Settled(b)'
      BY <1>1, <1>14, <2>2, <2>4, <3>3 DEF Clean
    <3> QED BY <1>0, <3>1, <3>2, <3>3
  <2> QED BY <1>6, <2>4, <2>6, <2>7
<1>15. ASSUME NEW q \in asks, Answered(q), q.stage = "done" PROVE ListInv'
  <2> DEFINE D == IF q.op = "delete" THEN {q.target} ELSE {}
  <2>1. /\ Loads(q.by, q.slot, {q}) /\ UNCHANGED <<listed, overtaken>>
        /\ removed' = [removed EXCEPT ![q.by] = @ \cup D]
    BY <1>15 DEF Answered
  <2>2. q.by \in Users /\ (q.op = "delete" => q.target \in Users)
    BY <1>1 DEF Requests
  <2>3. D \in SUBSET Gone'
    BY <1>0, <1>2, <1>15, <2>2 DEF Right
  <2>4. PICK S : S = {q}
    OBVIOUS
  <2>5. Loads(q.by, q.slot, S) /\ \A r \in S : r.by = q.by
    BY <2>1, <2>4
  <2> HIDE DEF D, Gone
  <2> QED BY <1>14, <2>1, <2>2, <2>3, <2>5
\* A request ends: a list that is shown was asked for last and has none of them,
\* or it comes late, or there is an error in its place.
<1>16. ASSUME NEW q \in asks, Listed(q) \/ Lost(q) \/ (Answered(q) /\ q.stage # "done")
       PROVE  ListInv'
  <2>1. asks' = asks \ {q} /\ removed' = removed
    BY <1>16 DEF Listed, Lost, Answered
  <2>2. q.by \in Users
    BY <1>1 DEF Requests
  <2>3. \/ q.op # "list" /\ UNCHANGED <<listed, failed, overtaken>>
        \/ q.op = "list" /\ failed' = [failed EXCEPT ![q.by] = TRUE] /\ UNCHANGED <<listed, overtaken>>
        \/ /\ q.op = "list" /\ q.stage = "done" /\ UNCHANGED failed
           /\ listed' = [listed EXCEPT ![q.by] = q.result]
           /\ overtaken' = [overtaken EXCEPT ![q.by] = q.old]
    BY <1>16 DEF Listed, Lost, Answered, Fails
  <2>4. ASSUME NEW b \in Users PROVE Settled(b)'
    <3>1. CASE b # q.by \/ q.op # "list"
      <4>1. listed'[b] = listed[b] /\ failed'[b] = failed[b] /\ overtaken'[b] = overtaken[b]
        BY <1>1, <2>2, <2>3, <3>1
      <4>2. Clean(b) \/ \E p \in asks \ {q} : p.by = b /\ Latest(p)
        BY <1>0, <3>1 DEF Latest
      <4>3. Clean(b) => Clean(b)'
        BY <2>1, <4>1 DEF Clean
      <4> QED BY <2>1, <4>2, <4>3 DEF Latest
    <3>2. CASE b = q.by /\ q.op = "list"
      <4>1. q.old \in BOOLEAN
        BY <1>1 DEF Requests
      <4>2. CASE failed' = [failed EXCEPT ![q.by] = TRUE]
        BY <1>1, <2>2, <3>2, <4>2 DEF Clean
      <4>3. CASE /\ q.stage = "done" /\ listed' = [listed EXCEPT ![q.by] = q.result]
                 /\ overtaken' = [overtaken EXCEPT ![q.by] = q.old]
        <5>1. listed'[b] = q.result /\ overtaken'[b] = q.old
          BY <1>1, <2>2, <3>2, <4>3
        <5>2. q.old = FALSE => q.result \cap removed[b] = {}
          BY <1>0, <3>2, <4>3 DEF Right, Latest
        <5> QED BY <2>1, <4>1, <5>1, <5>2 DEF Clean
      <4> QED BY <2>3, <3>2, <4>2, <4>3
    <3> QED BY <3>1, <3>2
  <2>5. \A p \in asks' : Right(p)'
    BY <1>7, <2>1
  <2> QED BY <1>3, <1>6, <2>1, <2>4, <2>5
<1>17. ASSUME asks' = asks, UNCHANGED pageVars PROVE ListInv'
  <2>1. \A q \in asks' : Right(q)'
    BY <1>7, <1>17 DEF pageVars
  <2>2. \A b \in Users : Settled(b)'
    BY <1>0, <1>17 DEF pageVars, Clean, Latest
  <2> QED BY <1>3, <1>6, <1>17, <2>1, <2>2 DEF pageVars
<1>18. ASSUME NEW u \in Users, CheckBegins(u) \/ CheckStores(u) \/ register(u) \/ SetRoleByHand(u)
       PROVE  ListInv'
  BY <1>17, <1>18 DEF CheckBegins, CheckStores, register, SetRoleByHand
<1>19. ASSUME NEW a \in Pages, load(a) PROVE ListInv'
  <2>1. a \in Users
    BY UsersAssumption
  <2>2. Loads(a, Slot(a), {}) /\ UNCHANGED <<listed, removed, overtaken>>
    BY <1>19 DEF load
  <2>3. removed' = [removed EXCEPT ![a] = @ \cup {}]
    BY <1>1, <2>2
  <2>4. PICK S : S = {}
    OBVIOUS
  <2>5. Loads(a, Slot(a), S) /\ \A r \in S : r.by = a
    BY <2>2, <2>4
  <2>6. PICK D \in SUBSET Gone' : D = {}
    OBVIOUS
  <2>7. removed' = [removed EXCEPT ![a] = @ \cup D]
    BY <2>3, <2>6
  <2> HIDE DEF Gone
  <2> QED BY <1>14, <2>1, <2>2, <2>5, <2>7
<1>20. ASSUME NEW a \in Pages, PageAsks(a) \/ Demotes(a) PROVE ListInv'
  <2>1. UNCHANGED pageVars
    BY <1>20 DEF PageAsks, Demotes
  <2>2. \E op \in {"role", "delete", "create"} : \E u, to : Asks(a, op, u, to)
    BY <1>20 DEF PageAsks, Demotes
  <2> QED BY <1>8, <2>1, <2>2
<1>21. CASE UNCHANGED vars
  BY <1>17, <1>21 DEF vars, pageVars
<1>22. ASSUME NEW q \in asks, Authorize(q) \/ Serves(q) \/ Answered(q) \/ Listed(q) \/ Lost(q)
       PROVE  ListInv'
  BY <1>10, <1>11, <1>12, <1>13, <1>15, <1>16, <1>22 DEF Serves
<1> QED
  BY <1>18, <1>19, <1>20, <1>21, <1>22 DEF Next

\* A page whose requests have all ended, in whatever order, shows nobody it was
\* told to be deleted, however many it had under way at a time and however they
\* were refused, lost, overtaken by other accounts' or carried out after their
\* caller lost the role; unless the list it shows was asked for before another one.
THEOREM DeletedStayAway == Spec => []DeletedIsNotListed
<1>1. Init => ListInv
  <2> SUFFICES ASSUME Init PROVE ListInv
    OBVIOUS
  <2>1. TypeOK
    <3>1. Pupils \subseteq Users
      BY DEF Pupils
    <3> QED
      BY <3>1, UsersAssumption DEF Init, TypeOK
  <2>2. /\ removed \in [Users -> SUBSET {u \in Users : role[u] = "gone"}]
        /\ \A a \in Users : Clean(a)
    BY DEF Init, Clean
  <2>3. asks = {}
    BY DEF Init
  <2> QED
    BY <2>1, <2>2, <2>3 DEF ListInv
<1>2. ListInv /\ [Next]_vars /\ TypeOK' => ListInv'
  BY ListStep
<1>3. ListInv => DeletedIsNotListed
  <2> SUFFICES ASSUME ListInv, NEW a \in Users, Asked(a) = {}, ~overtaken[a]
               PROVE  Shown(a) \cap removed[a] = {}
    BY DEF DeletedIsNotListed
  <2>1. Clean(a)
    BY DEF ListInv, Asked
  <2> QED BY <2>1 DEF Clean, Shown
<1> QED
  BY <1>1, <1>2, <1>3, UsersTypes, PTL DEF Spec

-----------------------------------------------------------------------------
(* The student's page *)

CONSTANTS Students, Tokens, Attempts, Tasks, MaxChecks

VARIABLES owner, expired, checked, confirmed, required, token, stored, user, selected, shown,
          screen, panel, providers, unknown, forgejo, pc, own, fresh, got, opening

P == INSTANCE StudentPage

\* The token of a student.
Held(t) == t \in Tokens /\ owner[t] \in Students

\* Answers are awaited, and kept, for a student's token.
OwnInv == \A c \in P!Calls : pc[c] \in {"me", "loading"} \/ got[c] # P!NoAnswer => Held(own[c])

\* What is on the page is that of the token it holds, and calls whose epoch is
\* the page's were made with it.
TokenInv ==
    /\ token # None => Held(token) /\ {user, shown.of} \subseteq {None, owner[token]}
    /\ screen = "dashboard" => token # None
    /\ \A c \in P!Calls : fresh[c] /\ token # None => own[c] = token

\* Of what an answer, or the page, says was confirmed nothing is ever taken back.
GotInv ==
    \A c \in P!Calls :
        /\ pc[c] \notin {"loading", "opening"} => got[c] = P!NoAnswer
        /\ got[c] # P!NoAnswer => got[c].understanding \subseteq {-1} \cup confirmed[owner[own[c]]]
ShownInv ==
    \/ shown = P!Nothing
    \/ shown.of \in Students /\ shown.data.understanding \subseteq {-1} \cup confirmed[shown.of]

PageInv == /\ P!TypeOK /\ P!StoredIsHeld /\ P!DetailIsSelected
           /\ OwnInv /\ TokenInv /\ GotInv /\ ShownInv

CallTypes ==
    /\ pc \in [P!Calls -> {"idle", "asking", "starting", "waiting", "exchange", "me", "loading", "opening"}]
    /\ own \in [P!Calls -> Tokens \cup {None}] /\ fresh \in [P!Calls -> BOOLEAN]
    /\ got \in [P!Calls -> P!Answers]

\* A call that ends, goes on or enters is a call.
LEMMA CallTypesKept ==
    ASSUME CallTypes, NEW c \in P!Calls,
           \/ P!Done(c)
           \/ \E place \in {"idle", "asking", "starting", "waiting", "exchange", "me", "loading", "opening"} : P!Goto(c, place)
           \/ \E t \in Tokens : P!Enter(c, t)
    PROVE  CallTypes'
<1>1. P!NoAnswer \in P!Answers
  BY DEF P!NoAnswer, P!Answers
<1>2. CASE P!Done(c)
  BY <1>1, <1>2 DEF CallTypes, P!Done
<1>3. CASE \E place \in {"idle", "asking", "starting", "waiting", "exchange", "me", "loading", "opening"} : P!Goto(c, place)
  BY <1>3 DEF CallTypes, P!Goto
<1>4. ASSUME NEW t \in Tokens, P!Enter(c, t) PROVE CallTypes'
  BY <1>1, <1>4 DEF CallTypes, P!Enter
<1> QED BY <1>2, <1>3, <1>4

\* The pages's variables without calls.
LEMMA ClearedTypes ==
    P!clearStudentData =>
        /\ user' \in Students \cup {None} /\ selected' \in Tasks \cup {None}
        /\ shown' \in [of : Students \cup {None}, data : P!Answers] /\ panel' \in P!Panels
  BY DEF P!clearStudentData, P!Nothing, P!NoAnswer, P!Answers, P!Empty, P!Panels

LEMMA PageTypeInit == ASSUME P!PageAssumption, P!Init PROVE PageInv
<1>1. P!TypeOK
  BY SMTT(30) DEF P!Init, P!TypeOK, P!Nothing, P!NoAnswer, P!Answers, P!Empty, P!Panels, P!PageAssumption, P!Solutions
<1> QED BY <1>1 DEF P!Init, PageInv, P!StoredIsHeld, P!DetailIsSelected, OwnInv, TokenInv, GotInv, ShownInv, P!Nothing, P!Empty

\* The answer of the server to a part is one it can give.
LEMMA PartTypes ==
    ASSUME P!PageAssumption, P!TypeOK, OwnInv, NEW c \in P!Calls, P!PartAnswers(c)
    PROVE  /\ got' \in [P!Calls -> P!Answers]
           /\ got' = [got EXCEPT ![c] = got'[c]]
           /\ got'[c].understanding \subseteq got[c].understanding \cup confirmed[owner[own[c]]]
<1>1. PICK part \in P!Parts :
          got' = [got EXCEPT ![c][part] =
               LET s == owner[own[c]] IN
               CASE part = "progress" -> checked[s]
                 [] part = "understanding" -> confirmed[s]
                 [] part = "account" -> required[s]]
  BY DEF P!PartAnswers
<1> DEFINE s == owner[own[c]]
<1>2. s \in Students /\ got[c] \in P!Answers
  BY DEF OwnInv, Held, P!PartAnswers, P!TypeOK
<1>3. checked[s] \in {-1, 0} \cup P!Solutions /\ confirmed[s] \in SUBSET P!Solutions /\ required[s] \in -1..1
  BY <1>2 DEF P!TypeOK, P!Solutions, P!PageAssumption
<1> HIDE DEF s
<1>4. CASE part = "progress"
  <2>1. got' = [got EXCEPT ![c] = [got[c] EXCEPT !["progress"] = checked[s]]]
    BY <1>1, <1>4, Zenon DEF s, P!TypeOK
  <2> QED BY <2>1, <1>2, <1>3 DEF P!Answers, P!TypeOK, s
<1>5. CASE part = "understanding"
  <2>1. got' = [got EXCEPT ![c] = [got[c] EXCEPT !["understanding"] = confirmed[s]]]
    BY <1>1, <1>5 DEF s, P!TypeOK
  <2> QED BY <2>1, <1>2, <1>3 DEF P!Answers, P!TypeOK, s
<1>6. CASE part = "account"
  <2>1. got' = [got EXCEPT ![c] = [got[c] EXCEPT !["account"] = required[s]]]
    BY <1>1, <1>6 DEF s, P!TypeOK
  <2> QED BY <2>1, <1>2, <1>3 DEF P!Answers, P!TypeOK, s
<1> QED BY <1>1, <1>4, <1>5, <1>6 DEF P!Parts

\* Every step keeps the types.
LEMMA PageTypeStep ==
    ASSUME P!PageAssumption, PageInv, P!Next PROVE P!TypeOK'
<1> USE DEF P!serverVars, P!authVars, P!callVars, P!sessionVars, P!viewVars, P!pageVars
<1> DEFINE Server == /\ owner' \in [Tokens -> Students \cup {None}] /\ expired' \subseteq Tokens
                     /\ checked' \in [Students -> 0..MaxChecks]
                     /\ confirmed' \in [Students -> SUBSET P!Solutions]
                     /\ required' \in [Students -> {0, 1}]
           Auth == providers' \subseteq P!Methods /\ unknown' \in BOOLEAN /\ forgejo' \in Attempts \cup {None}
           Held2 == {token', stored'} \subseteq Tokens \cup {None} /\ user' \in Students \cup {None}
           View == /\ selected' \in Tasks \cup {None} /\ shown' \in [of : Students \cup {None}, data : P!Answers]
                   /\ panel' \in P!Panels /\ screen' \in {"auth", "dashboard"}
                   /\ opening' \subseteq [task : Tasks, by : P!Calls \cup {None}]
<1>1. CallTypes
  BY DEF PageInv, P!TypeOK, CallTypes
<1>2. Server /\ Auth /\ Held2 /\ View /\ CallTypes' => P!TypeOK'
  BY DEF P!TypeOK, CallTypes
<1>3. UNCHANGED P!callVars => CallTypes'
  BY <1>1 DEF CallTypes
<1> USE DEF PageInv, P!TypeOK
<1>4. UNCHANGED P!serverVars => Server
  OBVIOUS
<1>5. UNCHANGED P!authVars => Auth
  OBVIOUS
<1>6. UNCHANGED P!sessionVars => Held2
  OBVIOUS
<1>7. UNCHANGED <<P!viewVars, screen>> => View
  OBVIOUS
<1>e. \A x : x \in P!Calls <=> x \in {"start", "form", "refresh"} \/ x \in Attempts
  BY DEF P!Calls
<1> HIDE DEF P!TypeOK, PageInv
<1>8. ASSUME NEW c \in P!Calls, P!MeAnswers(c) PROVE P!TypeOK'
  <2>1. CallTypes'
    BY <1>1, <1>8, CallTypesKept DEF P!MeAnswers
  <2>2. Held2 /\ screen' \in {"auth", "dashboard"}
    BY <1>8 DEF P!MeAnswers, PageInv, P!TypeOK, OwnInv, Held
  <2> QED BY <1>2, <1>4, <1>5, <2>1, <2>2, <1>8 DEF P!MeAnswers, PageInv, P!TypeOK
<1>9. ASSUME NEW c \in P!Calls, P!PartAnswers(c) PROVE P!TypeOK'
  <2>1. got' \in [P!Calls -> P!Answers]
    BY <1>9, PartTypes DEF PageInv
  <2>2. CallTypes'
    BY <1>1, <1>9, <2>1 DEF P!PartAnswers, CallTypes
  <2> QED BY <1>2, <1>4, <1>5, <1>6, <1>7, <2>2, <1>9 DEF P!PartAnswers
<1>10. ASSUME NEW c \in P!Calls, P!Loaded(c) PROVE P!TypeOK'
  <2>1. CallTypes'
    BY <1>1, <1>10, CallTypesKept DEF P!Loaded
  <2>2. own[c] \in Tokens /\ owner[own[c]] \in Students /\ got[c] \in P!Answers
    BY <1>10 DEF P!Loaded, PageInv, P!TypeOK, OwnInv, Held
  <2>3. shown' \in [of : Students \cup {None}, data : P!Answers]
    BY <2>2, <1>10 DEF P!Loaded, P!Draw, PageInv, P!TypeOK
  <2>4. panel' \in P!Panels /\ opening' \subseteq [task : Tasks, by : P!Calls \cup {None}]
    BY <1>10 DEF P!Loaded, P!Panels, PageInv, P!TypeOK
  <2> QED BY <1>2, <1>4, <1>5, <1>6, <2>1, <2>3, <2>4, <1>10 DEF P!Loaded, PageInv, P!TypeOK
<1>11. ASSUME NEW c \in P!Calls, P!EnterFails(c) PROVE P!TypeOK'
  <2>1. CallTypes'
    BY <1>1, <1>11, CallTypesKept DEF P!EnterFails
  <2> QED BY <1>2, <1>4, <1>5, <2>1, <1>11 DEF P!EnterFails, PageInv, P!TypeOK
<1>12. CASE P!RefreshFails
  <2>1. CallTypes'
    BY <1>1, <1>12, CallTypesKept DEF P!RefreshFails, P!Calls
  <2> QED BY <1>2, <1>4, <1>5, <1>6, <2>1, <1>12 DEF P!RefreshFails, P!Failure, P!Panels, PageInv, P!TypeOK
<1>13. CASE P!Submit \/ P!SubmitRefused
  <2>1. CallTypes'
    BY <1>1, <1>13, CallTypesKept DEF P!Submit, P!SubmitRefused, P!Calls
  <2> QED BY <1>2, <1>4, <1>5, <1>6, <1>7, <2>1, <1>13 DEF P!Submit, P!SubmitRefused
<1>14. ASSUME NEW c \in P!Calls, NEW t \in Tokens, P!Issue(t), P!Enter(c, t),
              UNCHANGED <<screen, opening>>, Auth
       PROVE  P!TypeOK'
  <2>1. CallTypes'
    BY <1>1, <1>14, CallTypesKept
  <2>2. Server
    BY <1>14 DEF P!Issue, PageInv, P!TypeOK
  <2>3. Held2 /\ View
    BY <1>14, ClearedTypes DEF P!Enter, PageInv, P!TypeOK, P!clearStudentData
  <2> QED BY <1>2, <1>14, <2>1, <2>2, <2>3
<1>15. CASE P!SubmitAnswers
  BY <1>5, <1>14, <1>15 DEF P!SubmitAnswers, P!Calls
<1>16. ASSUME NEW a \in Attempts, P!ForgejoBegins(a) PROVE P!TypeOK'
  <2>1. CallTypes'
    BY <1>1, <1>16, CallTypesKept DEF P!ForgejoBegins, P!Calls
  <2> QED BY <1>2, <1>4, <1>6, <1>7, <2>1, <1>16 DEF P!ForgejoBegins, PageInv, P!TypeOK
<1>17. ASSUME NEW a \in Attempts, P!ForgejoGoesOn(a) \/ P!ExchangePending(a) PROVE P!TypeOK'
  <2>1. CallTypes'
    BY <1>1, <1>17, CallTypesKept DEF P!ForgejoGoesOn, P!ExchangePending, P!Calls
  <2> QED BY <1>2, <1>4, <1>5, <1>6, <1>7, <2>1, <1>17 DEF P!ForgejoGoesOn, P!ExchangePending
<1>18. ASSUME NEW a \in Attempts, P!Exchanged(a) PROVE P!TypeOK'
  <2>1. PICK t \in Tokens :
            /\ P!Issue(t)
            /\ IF forgejo = a
               THEN forgejo' = None /\ P!Enter(a, t)
               ELSE P!Done(a) /\ UNCHANGED <<forgejo, P!sessionVars, selected, shown, panel>>
    BY <1>18 DEF P!Exchanged
  <2>2. a \in P!Calls /\ UNCHANGED <<screen, opening, providers, unknown>>
    BY <1>18 DEF P!Exchanged, P!Calls
  <2>3. CASE forgejo = a
    BY <1>14, <2>1, <2>2, <2>3 DEF PageInv, P!TypeOK
  <2>4. CASE forgejo # a
    <3>1. CallTypes'
      BY <1>1, <2>1, <2>2, <2>4, CallTypesKept
    <3>2. Server
      BY <2>1 DEF P!Issue, PageInv, P!TypeOK
    <3> QED BY <1>2, <1>5, <1>6, <1>7, <2>1, <2>2, <2>4, <3>1, <3>2
  <2> QED BY <2>3, <2>4
<1>19. ASSUME NEW a \in Attempts, P!ForgejoFails(a) PROVE P!TypeOK'
  <2>1. CallTypes'
    BY <1>1, <1>19, CallTypesKept DEF P!ForgejoFails, P!Calls
  <2> QED BY <1>2, <1>4, <1>6, <2>1, <1>19 DEF P!ForgejoFails, PageInv, P!TypeOK
<1>20. CASE P!cancelForgejo
  BY <1>2, <1>3, <1>4, <1>6, <1>7, <1>20 DEF P!cancelForgejo, PageInv, P!TypeOK
<1>21. CASE P!Logout
  <2>1. CallTypes'
    BY <1>1, <1>21 DEF P!Logout, CallTypes
  <2> QED BY <1>2, <1>4, <2>1, <1>21, ClearedTypes DEF P!Logout, P!clearStudentData, PageInv, P!TypeOK
<1>22. CASE P!ProvidersAnswer \/ P!ProvidersFail
  BY <1>2, <1>3, <1>4, <1>6, <1>22 DEF P!ProvidersAnswer, P!ProvidersFail, PageInv, P!TypeOK
<1>23. CASE P!Refresh
  <2>1. CallTypes'
    BY <1>1, <1>23 DEF P!Refresh, CallTypes, P!Calls, PageInv, P!TypeOK
  <2> QED BY <1>2, <1>4, <1>5, <1>6, <1>7, <2>1, <1>23 DEF P!Refresh
<1>24. ASSUME NEW t \in Tasks, P!openTask(t) PROVE P!TypeOK'
  BY <1>2, <1>3, <1>4, <1>5, <1>6, <1>24 DEF P!openTask, P!Panels, PageInv, P!TypeOK
<1>25. ASSUME NEW o \in opening, P!TaskAnswers(o) \/ P!TaskFails(o) PROVE P!TypeOK'
  <2>1. o \in [task : Tasks, by : P!Calls \cup {None}]
    BY DEF PageInv, P!TypeOK
  <2>2. CallTypes'
    BY <1>1, <1>3, <1>25, <2>1, CallTypesKept DEF P!TaskAnswers, P!TaskFails, P!Return
  <2>3. panel' \in P!Panels /\ opening' \subseteq opening
    BY <1>25, <2>1 DEF P!TaskAnswers, P!TaskFails, P!Return, P!Failure, P!Panels, PageInv, P!TypeOK
  <2> QED BY <1>2, <1>4, <1>5, <1>6, <2>2, <2>3, <1>25 DEF P!TaskAnswers, P!TaskFails, PageInv, P!TypeOK
<1>26. CASE P!Reload
  <2>0. P!NoAnswer \in P!Answers /\ stored \in Tokens \cup {None}
    BY DEF P!NoAnswer, P!Answers, PageInv, P!TypeOK
  <2>1. CallTypes'
    BY <2>0, <1>26 DEF P!Reload, CallTypes
  <2> QED BY <1>2, <1>4, <2>0, <2>1, <1>26, ClearedTypes DEF P!Reload, P!clearStudentData, PageInv, P!TypeOK
<1>27. ASSUME NEW s \in Students, P!Check(s) \/ P!Confirm(s) \/ P!SetAccess(s) PROVE P!TypeOK'
  <2>1. Server
    BY <1>27 DEF P!Check, P!Confirm, P!SetAccess, P!Solutions, P!PageAssumption, PageInv, P!TypeOK
  <2> QED BY <1>2, <1>3, <1>5, <1>6, <1>7, <2>1, <1>27 DEF P!Check, P!Confirm, P!SetAccess
<1>28. ASSUME NEW t \in Tokens, P!Expire(t) PROVE P!TypeOK'
  BY <1>2, <1>3, <1>5, <1>6, <1>7, <1>28 DEF P!Expire, PageInv, P!TypeOK
<1> QED
  BY <1>8, <1>9, <1>10, <1>11, <1>12, <1>13, <1>15, <1>16, <1>17, <1>18, <1>19, <1>20, <1>21,
     <1>22, <1>23, <1>24, <1>25, <1>26, <1>27, <1>28
     DEF P!Next, P!EnterSteps, P!ForgejoSteps, P!OpenSteps

\* What one step can do to a call: nothing, end it, take it on by a place, take it
\* to its first request with the token of the page, or bring an answer.
CallStep(d) ==
    \/ pc'[d] = pc[d] /\ own'[d] = own[d] /\ got'[d] = got[d] /\ (fresh'[d] => fresh[d])
    \/ pc'[d] = "idle" /\ own'[d] = None /\ got'[d] = P!NoAnswer /\ ~fresh'[d]
    \/ /\ own'[d] = own[d] /\ got'[d] = got[d] /\ (fresh'[d] => fresh[d])
       /\ \/ pc[d] \notin {"loading", "opening"} /\ pc'[d] \notin {"me", "loading", "opening"}
          \/ pc[d] = "me" /\ pc'[d] = "loading"
          \/ pc[d] = "loading" /\ pc'[d] = "opening"
    \/ pc'[d] = "me" /\ own'[d] = token' /\ token' # None /\ got'[d] = P!NoAnswer
    \/ /\ pc[d] = "loading" /\ pc'[d] = "loading" /\ own'[d] = own[d] /\ (fresh'[d] => fresh[d])
       /\ got'[d].understanding \subseteq got[d].understanding \cup confirmed[owner[own[d]]]
    \/ /\ pc[d] = "idle" /\ pc'[d] = "loading" /\ own'[d] = token' /\ token' # None
       /\ got'[d] = got[d]

\* What it can do to the page's token, and to what is shown with it.
TokenStep ==
    \/ /\ token' = token
       /\ user' \in {user, None} \/ (token # None /\ user' = owner[token])
       /\ screen' = "dashboard" => screen = "dashboard" \/ token # None
    \/ token' = None /\ screen' = "auth"
    \/ /\ token' # None /\ Held(token)' /\ user' = None /\ shown' = P!Nothing
       /\ \A d \in P!Calls : fresh'[d] => own'[d] = token'

ShownStep ==
    \/ shown' = shown
    \/ shown' = P!Nothing
    \/ \E c \in P!Calls :
          /\ fresh[c] /\ token # None /\ token' = token
          /\ pc[c] = "loading" /\ got[c] # P!NoAnswer
          /\ shown' = [of |-> owner[own[c]], data |-> got[c]]

PageSteps == (\A d \in P!Calls : CallStep(d)) /\ TokenStep /\ ShownStep

LEMMA QuietCalls ==
    ASSUME UNCHANGED P!callVars PROVE \A d \in P!Calls : CallStep(d)
  BY DEF P!callVars, CallStep

LEMMA QuietPage ==
    ASSUME UNCHANGED <<token, user, screen, shown>> PROVE TokenStep /\ ShownStep
  BY DEF TokenStep, ShownStep

LEMMA DoneStep ==
    ASSUME PageInv, NEW c \in P!Calls, P!Done(c) PROVE \A d \in P!Calls : CallStep(d)
<1> SUFFICES ASSUME NEW d \in P!Calls PROVE CallStep(d)
  OBVIOUS
<1>1. CASE d = c
  BY <1>1 DEF CallStep, P!Done, PageInv, P!TypeOK
<1>2. CASE d # c
  BY <1>2 DEF CallStep, P!Done, PageInv, P!TypeOK
<1> QED BY <1>1, <1>2

LEMMA GotoStep ==
    ASSUME PageInv, NEW c \in P!Calls, NEW place, P!Goto(c, place),
           \/ pc[c] \notin {"loading", "opening"} /\ place \notin {"me", "loading", "opening"}
           \/ pc[c] = "me" /\ place = "loading"
           \/ pc[c] = "loading" /\ place = "opening"
    PROVE  \A d \in P!Calls : CallStep(d)
<1> SUFFICES ASSUME NEW d \in P!Calls PROVE CallStep(d)
  OBVIOUS
<1>1. CASE d = c
  BY <1>1 DEF CallStep, P!Goto, PageInv, P!TypeOK
<1>2. CASE d # c
  BY <1>2 DEF CallStep, P!Goto, PageInv, P!TypeOK
<1> QED BY <1>1, <1>2

LEMMA EnterStep ==
    ASSUME P!PageAssumption, PageInv, NEW c \in P!Calls, NEW t \in Tokens, P!Issue(t), P!Enter(c, t)
    PROVE  PageSteps
<1>1. t # None /\ token' = t
  BY DEF P!PageAssumption, P!Enter
<1>2. Held(token)'
  BY <1>1 DEF P!Issue, Held, PageInv, P!TypeOK
<1>3. ASSUME NEW d \in P!Calls PROVE CallStep(d) /\ (fresh'[d] => own'[d] = token')
  <2>1. CASE d = c
    BY <1>1, <2>1 DEF CallStep, P!Enter, PageInv, P!TypeOK
  <2>2. CASE d # c
    BY <1>1, <2>2 DEF CallStep, P!Enter, PageInv, P!TypeOK
  <2> QED BY <2>1, <2>2
<1> QED BY <1>1, <1>2, <1>3 DEF PageSteps, TokenStep, ShownStep, P!Enter, P!clearStudentData

\* Every step of the page is of this kind.
LEMMA PageStepsTaken ==
    ASSUME P!PageAssumption, PageInv, P!Next PROVE PageSteps
<1> USE DEF P!serverVars, P!authVars, P!sessionVars, P!viewVars, P!pageVars
<1>1. ASSUME NEW c \in P!Calls, P!MeAnswers(c) PROVE PageSteps
  <2>1. \A d \in P!Calls : CallStep(d)
    BY <1>1, DoneStep, GotoStep DEF P!MeAnswers
  <2>2. TokenStep
    BY <1>1 DEF P!MeAnswers, P!Current, TokenStep, PageInv, OwnInv, Held, P!PageAssumption
  <2> QED BY <1>1, <2>1, <2>2 DEF PageSteps, ShownStep, P!MeAnswers
<1>2. ASSUME NEW c \in P!Calls, P!PartAnswers(c) PROVE PageSteps
  <2>1. /\ got' = [got EXCEPT ![c] = got'[c]]
        /\ got'[c].understanding \subseteq got[c].understanding \cup confirmed[owner[own[c]]]
    BY <1>2, PartTypes DEF PageInv
  <2>2. ASSUME NEW d \in P!Calls PROVE CallStep(d)
    <3>1. CASE d = c
      BY <1>2, <2>1, <3>1 DEF CallStep, P!PartAnswers
    <3>2. CASE d # c
      <4>1. got'[d] = got[d]
        BY <2>1, <3>2 DEF PageInv, P!TypeOK
      <4> QED BY <1>2, <4>1 DEF CallStep, P!PartAnswers
    <3> QED BY <3>1, <3>2
  <2> QED BY <1>2, <2>2, QuietPage DEF PageSteps, P!PartAnswers
<1>3. ASSUME NEW c \in P!Calls, P!Loaded(c) PROVE PageSteps
  <2>1. \A d \in P!Calls : CallStep(d)
    BY <1>3, DoneStep, GotoStep DEF P!Loaded
  <2>2. TokenStep
    BY <1>3 DEF P!Loaded, TokenStep
  <2>3. got[c] # P!NoAnswer
    BY <1>3 DEF P!Loaded, P!Parts
  <2>4. ShownStep
    BY <1>3, <2>3 DEF P!Loaded, P!StillWanted, P!Draw, ShownStep
  <2> QED BY <2>1, <2>2, <2>4 DEF PageSteps
<1>4. ASSUME NEW c \in P!Calls, P!EnterFails(c) PROVE PageSteps
  <2>1. \A d \in P!Calls : CallStep(d)
    BY <1>4, DoneStep DEF P!EnterFails
  <2> QED BY <1>4, <2>1 DEF PageSteps, TokenStep, ShownStep, P!EnterFails
<1>5. CASE P!RefreshFails \/ P!SubmitRefused
  <2>1. \A d \in P!Calls : CallStep(d)
    BY <1>5, DoneStep DEF P!RefreshFails, P!SubmitRefused, P!Calls
  <2> QED BY <1>5, <2>1, QuietPage DEF PageSteps, P!RefreshFails, P!SubmitRefused
<1>6. CASE P!Submit
  <2>1. \A d \in P!Calls : CallStep(d)
    BY <1>6, GotoStep DEF P!Submit, P!Calls
  <2> QED BY <1>6, <2>1, QuietPage DEF PageSteps, P!Submit
<1>7. CASE P!SubmitAnswers
  BY <1>7, EnterStep DEF P!SubmitAnswers, P!Calls
<1>8. ASSUME NEW a \in Attempts, P!ForgejoBegins(a) PROVE PageSteps
  <2>1. \A d \in P!Calls : CallStep(d)
    BY <1>8, GotoStep DEF P!ForgejoBegins, P!Calls
  <2> QED BY <1>8, <2>1, QuietPage DEF PageSteps, P!ForgejoBegins
<1>9. ASSUME NEW a \in Attempts, P!ForgejoGoesOn(a) \/ P!ExchangePending(a) PROVE PageSteps
  <2>1. \A d \in P!Calls : CallStep(d)
    BY <1>9, GotoStep, DoneStep DEF P!ForgejoGoesOn, P!ExchangePending, P!Calls
  <2> QED BY <1>9, <2>1, QuietPage DEF PageSteps, P!ForgejoGoesOn, P!ExchangePending
<1>10. ASSUME NEW a \in Attempts, P!Exchanged(a) PROVE PageSteps
  <2>1. a \in P!Calls
    BY DEF P!Calls
  <2>2. CASE forgejo = a
    BY <1>10, <2>1, <2>2, EnterStep DEF P!Exchanged
  <2>3. CASE forgejo # a
    <3>1. \A d \in P!Calls : CallStep(d)
      BY <1>10, <2>1, <2>3, DoneStep DEF P!Exchanged
    <3> QED BY <1>10, <2>3, <3>1, QuietPage DEF PageSteps, P!Exchanged
  <2> QED BY <2>2, <2>3
<1>11. ASSUME NEW a \in Attempts, P!ForgejoFails(a) PROVE PageSteps
  <2>1. \A d \in P!Calls : CallStep(d)
    BY <1>11, DoneStep DEF P!ForgejoFails, P!Calls
  <2> QED BY <1>11, <2>1 DEF PageSteps, TokenStep, ShownStep, P!ForgejoFails
<1>12. CASE P!cancelForgejo
  BY <1>12, QuietCalls, QuietPage DEF PageSteps, P!cancelForgejo
<1>13. CASE P!Logout
  BY <1>13 DEF PageSteps, CallStep, TokenStep, ShownStep, P!Logout, P!clearStudentData
<1>14. CASE P!ProvidersAnswer \/ P!ProvidersFail
  BY <1>14, QuietCalls DEF PageSteps, TokenStep, ShownStep, P!ProvidersAnswer, P!ProvidersFail
<1>15. CASE P!Refresh
  <2>1. ASSUME NEW d \in P!Calls PROVE CallStep(d)
    <3>1. CASE d = "refresh"
      BY <1>15, <3>1 DEF CallStep, P!Refresh, PageInv, P!TypeOK, TokenInv
    <3>2. CASE d # "refresh"
      BY <1>15, <3>2 DEF CallStep, P!Refresh, PageInv, P!TypeOK
    <3> QED BY <3>1, <3>2
  <2> QED BY <1>15, <2>1, QuietPage DEF PageSteps, P!Refresh
<1>16. ASSUME NEW t \in Tasks, P!openTask(t) PROVE PageSteps
  BY <1>16, QuietCalls, QuietPage DEF PageSteps, P!openTask
<1>17. ASSUME NEW o \in opening, P!TaskAnswers(o) \/ P!TaskFails(o) PROVE PageSteps
  <2>1. o.by \in P!Calls \cup {None}
    BY DEF PageInv, P!TypeOK
  <2>2. \A d \in P!Calls : CallStep(d)
    BY <1>17, <2>1, DoneStep, QuietCalls DEF P!TaskAnswers, P!TaskFails, P!Return
  <2> QED BY <1>17, <2>2, QuietPage DEF PageSteps, P!TaskAnswers, P!TaskFails
<1>18. CASE P!Reload
  <2>1. token' = token /\ stored = token
    BY <1>18 DEF P!Reload, PageInv, P!StoredIsHeld
  <2>2. ASSUME NEW d \in P!Calls PROVE CallStep(d)
    BY <1>18, <2>1 DEF CallStep, P!Reload
  <2> QED BY <1>18, <2>1, <2>2 DEF PageSteps, TokenStep, ShownStep, P!Reload, P!clearStudentData
<1>19. ASSUME NEW s \in Students, P!Check(s) \/ P!Confirm(s) \/ P!SetAccess(s) PROVE PageSteps
  BY <1>19, QuietCalls, QuietPage DEF PageSteps, P!Check, P!Confirm, P!SetAccess, P!callVars
<1>20. ASSUME NEW t \in Tokens, P!Expire(t) PROVE PageSteps
  BY <1>20, QuietCalls, QuietPage DEF PageSteps, P!Expire, P!callVars
<1> QED
  BY <1>1, <1>2, <1>3, <1>4, <1>5, <1>6, <1>7, <1>8, <1>9, <1>10, <1>11, <1>12, <1>13, <1>14,
     <1>15, <1>16, <1>17, <1>18, <1>19, <1>20
     DEF P!Next, P!EnterSteps, P!ForgejoSteps, P!OpenSteps

\* A token's owner and a confirmed solution stay.
ServerKept ==
    /\ \A t : Held(t) => Held(t)' /\ owner'[t] = owner[t]
    /\ \A s \in Students : confirmed[s] \subseteq confirmed'[s]

LEMMA ServerKeeps ==
    ASSUME P!PageAssumption, PageInv, P!Next PROVE ServerKept
<1> USE DEF P!serverVars, P!pageVars
<1>1. CASE UNCHANGED <<owner, confirmed>>
  BY <1>1 DEF ServerKept, Held
<1>2. ASSUME NEW t \in Tokens, P!Issue(t) PROVE ServerKept
  BY <1>2 DEF ServerKept, P!Issue, Held, PageInv, P!TypeOK, P!PageAssumption
<1>3. ASSUME NEW s \in Students, P!Confirm(s) PROVE ServerKept
  BY <1>3 DEF ServerKept, P!Confirm, Held, PageInv, P!TypeOK
<1>4. ASSUME NEW c \in P!Calls, P!MeAnswers(c) \/ P!PartAnswers(c) \/ P!Loaded(c) \/ P!EnterFails(c)
      PROVE  ServerKept
  BY <1>1, <1>4 DEF P!MeAnswers, P!PartAnswers, P!Loaded, P!EnterFails
<1>5. ASSUME NEW a \in Attempts, P!ForgejoBegins(a) \/ P!ForgejoSteps(a) PROVE ServerKept
  BY <1>1, <1>2, <1>5 DEF P!ForgejoBegins, P!ForgejoSteps, P!ForgejoGoesOn, P!ExchangePending,
                          P!Exchanged, P!ForgejoFails
<1>6. ASSUME NEW o \in opening, P!TaskAnswers(o) \/ P!TaskFails(o) PROVE ServerKept
  BY <1>1, <1>6 DEF P!TaskAnswers, P!TaskFails
<1>7. CASE P!RefreshFails \/ P!Submit \/ P!SubmitAnswers \/ P!SubmitRefused
  BY <1>1, <1>2, <1>7 DEF P!RefreshFails, P!Submit, P!SubmitAnswers, P!SubmitRefused
<1>8. CASE P!cancelForgejo \/ P!Logout \/ P!ProvidersAnswer \/ P!ProvidersFail \/ P!Refresh \/ P!Reload
  BY <1>1, <1>8 DEF P!cancelForgejo, P!Logout, P!ProvidersAnswer, P!ProvidersFail, P!Refresh, P!Reload
<1>9. ASSUME NEW t \in Tasks, P!openTask(t) PROVE ServerKept
  BY <1>1, <1>9 DEF P!openTask
<1>10. ASSUME NEW s \in Students, P!Check(s) \/ P!SetAccess(s) PROVE ServerKept
  BY <1>1, <1>10 DEF P!Check, P!SetAccess
<1>11. ASSUME NEW t \in Tokens, P!Expire(t) PROVE ServerKept
  BY <1>1, <1>11 DEF P!Expire
<1> QED
  BY <1>3, <1>4, <1>5, <1>6, <1>7, <1>8, <1>9, <1>10, <1>11 DEF P!Next, P!EnterSteps, P!OpenSteps

\* The invariant of the page holds after every step.
LEMMA PageCallsStep ==
    ASSUME P!PageAssumption, PageInv, PageSteps, ServerKept, P!TypeOK'
    PROVE  OwnInv' /\ GotInv' /\ TokenInv' /\ ShownInv'
<1>0. P!NoAnswer.understanding = {-1}
  BY DEF P!NoAnswer
<1>1. ASSUME NEW d \in P!Calls
      PROVE  /\ pc'[d] \in {"me", "loading"} \/ got'[d] # P!NoAnswer => Held(own[d])'
             /\ pc'[d] \notin {"loading", "opening"} => got'[d] = P!NoAnswer
             /\ got'[d] # P!NoAnswer => got'[d].understanding \subseteq {-1} \cup confirmed'[owner'[own'[d]]]
             /\ fresh'[d] /\ token' # None => own'[d] = token'
  <2>1. /\ pc[d] \in {"me", "loading"} \/ got[d] # P!NoAnswer => Held(own[d])
        /\ pc[d] \notin {"loading", "opening"} => got[d] = P!NoAnswer
        /\ got[d] # P!NoAnswer => got[d].understanding \subseteq {-1} \cup confirmed[owner[own[d]]]
        /\ fresh[d] /\ token # None => own[d] = token
    BY DEF PageInv, OwnInv, GotInv, TokenInv
  <2>2. Held(own[d]) => /\ Held(own[d])' \/ own'[d] # own[d]
                        /\ owner'[own[d]] = owner[own[d]]
                        /\ confirmed[owner[own[d]]] \subseteq confirmed'[owner[own[d]]]
    BY DEF ServerKept, Held
  <2>3. token' # None => Held(token)'
    <3>1. CASE token' = token
      BY <3>1 DEF PageInv, TokenInv, ServerKept, Held
    <3> QED BY <3>1 DEF PageSteps, TokenStep
  <2>4. token' # token => token' = None \/ \A e \in P!Calls : fresh'[e] => own'[e] = token'
    BY DEF PageSteps, TokenStep
  <2>5. CallStep(d)
    BY DEF PageSteps
  <2>6. CASE pc'[d] = pc[d] /\ own'[d] = own[d] /\ got'[d] = got[d] /\ (fresh'[d] => fresh[d])
    BY <2>1, <2>2, <2>4, <2>6
  <2>7. CASE pc'[d] = "idle" /\ own'[d] = None /\ got'[d] = P!NoAnswer /\ ~fresh'[d]
    BY <2>7
  <2>8. CASE /\ own'[d] = own[d] /\ got'[d] = got[d] /\ (fresh'[d] => fresh[d])
             /\ \/ pc[d] \notin {"loading", "opening"} /\ pc'[d] \notin {"me", "loading", "opening"}
                \/ pc[d] = "me" /\ pc'[d] = "loading"
                \/ pc[d] = "loading" /\ pc'[d] = "opening"
    BY <2>1, <2>2, <2>4, <2>8
  <2>9. CASE pc'[d] = "me" /\ own'[d] = token' /\ token' # None /\ got'[d] = P!NoAnswer
    BY <2>3, <2>9 DEF Held
  <2>10. CASE /\ pc[d] = "loading" /\ pc'[d] = "loading" /\ own'[d] = own[d] /\ (fresh'[d] => fresh[d])
              /\ got'[d].understanding \subseteq got[d].understanding \cup confirmed[owner[own[d]]]
    <3>1. got[d].understanding \subseteq {-1} \cup confirmed[owner[own[d]]]
      BY <1>0, <2>1
    <3> QED BY <2>1, <2>2, <2>4, <2>10, <3>1
  <2>11. CASE /\ pc[d] = "idle" /\ pc'[d] = "loading" /\ own'[d] = token' /\ token' # None
              /\ got'[d] = got[d]
    BY <2>1, <2>3, <2>11 DEF Held
  <2> QED BY <2>5, <2>6, <2>7, <2>8, <2>9, <2>10, <2>11 DEF CallStep
<1>2. OwnInv' /\ GotInv'
  BY <1>1 DEF OwnInv, GotInv, Held
<1>3. ShownInv'
  <2>1. CASE shown' = shown
    BY <2>1 DEF PageInv, ShownInv, ServerKept
  <2>2. CASE shown' = P!Nothing
    BY <2>2 DEF ShownInv
  <2>3. ASSUME NEW c \in P!Calls, got[c] # P!NoAnswer,
               shown' = [of |-> owner[own[c]], data |-> got[c]]
        PROVE  ShownInv'
    <3>1. owner[own[c]] \in Students /\ got[c].understanding \subseteq {-1} \cup confirmed[owner[own[c]]]
      BY <2>3 DEF PageInv, OwnInv, GotInv, Held
    <3> QED BY <2>3, <3>1 DEF ShownInv, ServerKept
  <2> QED BY <2>1, <2>2, <2>3 DEF PageSteps, ShownStep
<1>4. TokenInv'
  <2>1. ASSUME token' # None PROVE Held(token)' /\ {user', shown'.of} \subseteq {None, owner'[token']}
    <3>1. CASE token' = token
      <4>1. /\ Held(token) /\ Held(token)' /\ owner'[token'] = owner[token]
            /\ {user, shown.of} \subseteq {None, owner[token]}
        BY <2>1, <3>1 DEF PageInv, TokenInv, ServerKept, Held
      <4>2. user' \in {None, owner[token]}
        BY <2>1, <3>1, <4>1 DEF PageSteps, TokenStep
      <4>3. shown'.of \in {None, owner[token]}
        <5>1. CASE shown' = shown
          BY <4>1, <5>1
        <5>2. CASE shown' = P!Nothing
          BY <5>2 DEF P!Nothing
        <5>3. ASSUME NEW c \in P!Calls, fresh[c], token # None,
                     shown' = [of |-> owner[own[c]], data |-> got[c]]
              PROVE  shown'.of \in {None, owner[token]}
          BY <5>3 DEF PageInv, TokenInv
        <5> QED BY <5>1, <5>2, <5>3 DEF PageSteps, ShownStep
      <4> QED BY <4>1, <4>2, <4>3
    <3>2. CASE token' # token
      BY <2>1, <3>2 DEF PageSteps, TokenStep, P!Nothing
    <3> QED BY <3>1, <3>2
  <2>2. screen' = "dashboard" => token' # None
    BY DEF PageSteps, TokenStep, PageInv, TokenInv
  <2> QED BY <1>1, <2>1, <2>2 DEF TokenInv
<1> QED BY <1>2, <1>3, <1>4

\* The browser's copy follows the page's token, and a task's text is put only
\* over the selection.
LEMMA PageCopiesStep ==
    ASSUME PageInv, P!Next PROVE P!StoredIsHeld' /\ P!DetailIsSelected'
<1> USE DEF P!StoredIsHeld, P!DetailIsSelected, P!serverVars, P!authVars, P!sessionVars, P!viewVars,
            P!pageVars, PageInv
<1>1. ASSUME NEW c \in P!Calls, P!MeAnswers(c) \/ P!PartAnswers(c) \/ P!Loaded(c) \/ P!EnterFails(c)
      PROVE  P!StoredIsHeld' /\ P!DetailIsSelected'
  BY <1>1 DEF P!MeAnswers, P!PartAnswers, P!Loaded, P!EnterFails
<1>2. ASSUME NEW c \in P!Calls, NEW t \in Tokens, P!Enter(c, t)
      PROVE  P!StoredIsHeld' /\ P!DetailIsSelected'
  BY <1>2 DEF P!Enter, P!clearStudentData, P!Empty
<1>3. ASSUME NEW a \in Attempts, P!ForgejoBegins(a) \/ P!ForgejoSteps(a)
      PROVE  P!StoredIsHeld' /\ P!DetailIsSelected'
  BY <1>2, <1>3 DEF P!ForgejoBegins, P!ForgejoSteps, P!ForgejoGoesOn, P!ExchangePending,
                    P!Exchanged, P!ForgejoFails, P!Calls
<1>4. ASSUME NEW o \in opening, P!TaskAnswers(o) \/ P!TaskFails(o)
      PROVE  P!StoredIsHeld' /\ P!DetailIsSelected'
  BY <1>4 DEF P!TaskAnswers, P!TaskFails, P!Failure
<1>5. CASE P!RefreshFails \/ P!Submit \/ P!SubmitAnswers \/ P!SubmitRefused
  BY <1>2, <1>5 DEF P!RefreshFails, P!Submit, P!SubmitAnswers, P!SubmitRefused, P!Calls, P!Failure
<1>6. CASE P!cancelForgejo \/ P!ProvidersAnswer \/ P!ProvidersFail \/ P!Refresh
  BY <1>6 DEF P!cancelForgejo, P!ProvidersAnswer, P!ProvidersFail, P!Refresh
<1>7. CASE P!Logout \/ P!Reload
  BY <1>7 DEF P!Logout, P!Reload, P!clearStudentData, P!Empty
<1>8. ASSUME NEW t \in Tasks, P!openTask(t) PROVE P!StoredIsHeld' /\ P!DetailIsSelected'
  BY <1>8 DEF P!openTask
<1>9. ASSUME NEW s \in Students, P!Check(s) \/ P!Confirm(s) \/ P!SetAccess(s)
      PROVE  P!StoredIsHeld' /\ P!DetailIsSelected'
  BY <1>9 DEF P!Check, P!Confirm, P!SetAccess
<1>10. ASSUME NEW t \in Tokens, P!Expire(t) PROVE P!StoredIsHeld' /\ P!DetailIsSelected'
  BY <1>10 DEF P!Expire
<1> QED
  BY <1>1, <1>3, <1>4, <1>5, <1>6, <1>7, <1>8, <1>9, <1>10 DEF P!Next, P!EnterSteps, P!OpenSteps

LEMMA PageHolds == ASSUME P!PageAssumption PROVE P!Spec => []PageInv
<1>1. P!Init => PageInv
  BY PageTypeInit
<1>2. PageInv /\ [P!Next]_P!vars => PageInv'
  <2>1. ASSUME PageInv, P!Next PROVE PageInv'
    BY <2>1, PageTypeStep, PageStepsTaken, ServerKeeps, PageCallsStep, PageCopiesStep DEF PageInv
  <2>2. ASSUME PageInv, UNCHANGED P!vars PROVE PageInv'
    BY <2>2 DEF P!vars, PageInv, P!TypeOK, P!StoredIsHeld, P!DetailIsSelected, OwnInv, TokenInv,
                GotInv, ShownInv, Held
  <2> QED BY <2>1, <2>2
<1> QED BY <1>1, <1>2, PTL DEF P!Spec

\* student.js: what a visible dashboard holds and draws is of the student whose
\* token the page holds; the browser keeps that token and no other; a task's text
\* is drawn only while the task is selected; and a task shown as solved, with the
\* defence required, is one whose latest shown solution was defended.
THEOREM PageOfItsStudent ==
    ASSUME P!PageAssumption
    PROVE  P!Spec => [](P!PageIsOfItsStudent /\ P!SolvedIsDefended)
<1>1. ASSUME PageInv PROVE P!PageIsOfItsStudent
  BY <1>1 DEF PageInv, TokenInv, P!PageIsOfItsStudent, P!NobodyElsesData
<1>2. ASSUME PageInv PROVE P!SolvedIsDefended
  <2>1. shown.data.progress \in {-1, 0} \cup P!Solutions
    BY <1>2 DEF PageInv, P!TypeOK, P!Answers
  <2>2. P!taskState(shown.data) = "passed" /\ shown.data.account = 1
            => shown.data.progress \in shown.data.understanding /\ shown.data.progress # -1 /\ shown # P!Nothing
    BY <2>1 DEF P!taskState, P!Nothing, P!NoAnswer, P!Solutions
  <2> QED BY <1>2, <2>2 DEF PageInv, ShownInv, P!SolvedIsDefended
<1> QED BY <1>1, <1>2, PageHolds, PTL

\* A token is dropped by signing out or because the server refused that very token.
LEMMA DropStep ==
    ASSUME P!PageAssumption, PageInv, [P!Next]_P!vars PROVE P!DropsForCause
<1> USE DEF P!DropsForCause
<1>1. token' = token => P!DropsForCause
  OBVIOUS
<1>2. token' # None => P!DropsForCause
  OBVIOUS
<1> USE DEF P!serverVars, P!authVars, P!callVars, P!sessionVars, P!viewVars, P!pageVars
<1>3. ASSUME NEW c \in P!Calls, P!MeAnswers(c) \/ P!PartAnswers(c) \/ P!Loaded(c) \/ P!EnterFails(c)
      PROVE  P!DropsForCause
  BY <1>1, <1>3 DEF P!MeAnswers, P!PartAnswers, P!Loaded, P!EnterFails, P!Current
<1>4. ASSUME NEW c, NEW t \in Tokens, P!Enter(c, t) PROVE P!DropsForCause
  BY <1>4 DEF P!Enter, P!PageAssumption
<1>5. ASSUME NEW a \in Attempts, P!ForgejoBegins(a) \/ P!ForgejoSteps(a) PROVE P!DropsForCause
  BY <1>1, <1>4, <1>5 DEF P!ForgejoBegins, P!ForgejoSteps, P!ForgejoGoesOn, P!ExchangePending,
                          P!Exchanged, P!ForgejoFails
<1>6. ASSUME NEW o \in opening, P!TaskAnswers(o) \/ P!TaskFails(o) PROVE P!DropsForCause
  BY <1>1, <1>6 DEF P!TaskAnswers, P!TaskFails
<1>7. CASE P!RefreshFails \/ P!Submit \/ P!SubmitAnswers \/ P!SubmitRefused
  BY <1>1, <1>4, <1>7 DEF P!RefreshFails, P!Submit, P!SubmitAnswers, P!SubmitRefused
<1>8. CASE P!cancelForgejo \/ P!Logout \/ P!ProvidersAnswer \/ P!ProvidersFail \/ P!Refresh \/ P!Reload
  BY <1>1, <1>8 DEF P!cancelForgejo, P!Logout, P!ProvidersAnswer, P!ProvidersFail, P!Refresh, P!Reload,
                    PageInv, P!StoredIsHeld
<1>9. ASSUME NEW t \in Tasks, P!openTask(t) PROVE P!DropsForCause
  BY <1>1, <1>9 DEF P!openTask
<1>10. ASSUME NEW s \in Students, P!Check(s) \/ P!Confirm(s) \/ P!SetAccess(s) PROVE P!DropsForCause
  BY <1>1, <1>10 DEF P!Check, P!Confirm, P!SetAccess
<1>11. ASSUME NEW t \in Tokens, P!Expire(t) PROVE P!DropsForCause
  BY <1>1, <1>11 DEF P!Expire
<1>12. CASE UNCHANGED P!vars
  BY <1>1, <1>12 DEF P!vars
<1> QED
  BY <1>3, <1>5, <1>6, <1>7, <1>8, <1>9, <1>10, <1>11, <1>12 DEF P!Next, P!EnterSteps, P!OpenSteps

\* An attempt enters only while it is the current one.
LEMMA AbandonStep ==
    ASSUME P!PageAssumption, PageInv, [P!Next]_P!vars PROVE P!KeepsAbandonedOut
<1> SUFFICES ASSUME NEW a \in Attempts, pc[a] = "exchange", pc'[a] = "me" PROVE forgejo = a
  BY DEF P!KeepsAbandonedOut
<1>0. a \in P!Calls /\ a \notin {"start", "form", "refresh"} /\ pc \in [P!Calls -> {"idle", "asking", "starting", "waiting", "exchange", "me", "loading", "opening"}]
  BY DEF P!Calls, P!PageAssumption, PageInv, P!TypeOK
<1> DEFINE Moved == pc'[a] # pc[a]
<1>1. Moved
  OBVIOUS
<1> USE DEF P!callVars
<1>2. ASSUME NEW c \in P!Calls, P!Done(c) PROVE FALSE
  BY <1>0, <1>2 DEF P!Done
<1>3. ASSUME NEW c \in P!Calls, NEW place, P!Goto(c, place), c # a \/ place # "me" PROVE FALSE
  BY <1>0, <1>3 DEF P!Goto
<1>4. ASSUME NEW c \in P!Calls, NEW t, P!Enter(c, t) PROVE c = a
  BY <1>0, <1>4 DEF P!Enter
<1>5. ASSUME NEW c \in P!Calls, P!MeAnswers(c) \/ P!PartAnswers(c) \/ P!Loaded(c) \/ P!EnterFails(c)
      PROVE  FALSE
  BY <1>1, <1>2, <1>3, <1>5 DEF P!MeAnswers, P!PartAnswers, P!Loaded, P!EnterFails
<1>6. ASSUME NEW b \in Attempts, P!ForgejoBegins(b) \/ P!ForgejoSteps(b) PROVE forgejo = a
  <2>1. b \in P!Calls
    BY DEF P!Calls
  <2>2. CASE P!Exchanged(b)
    BY <1>2, <1>4, <2>1, <2>2 DEF P!Exchanged
  <2> QED BY <1>2, <1>3, <1>6, <2>1, <2>2 DEF P!ForgejoBegins, P!ForgejoSteps, P!ForgejoGoesOn,
                                         P!ExchangePending, P!ForgejoFails
<1>7. ASSUME NEW o \in opening, P!TaskAnswers(o) \/ P!TaskFails(o) PROVE FALSE
  <2>1. o.by \in P!Calls \cup {None}
    BY DEF PageInv, P!TypeOK
  <2> QED BY <1>1, <1>2, <1>7, <2>1 DEF P!TaskAnswers, P!TaskFails, P!Return
<1>8. CASE P!RefreshFails \/ P!Submit \/ P!SubmitAnswers \/ P!SubmitRefused
  <2>1. {"form", "refresh"} \subseteq P!Calls
    BY DEF P!Calls
  <2> QED BY <1>0, <1>2, <1>3, <1>4, <1>8, <2>1 DEF P!RefreshFails, P!Submit, P!SubmitAnswers, P!SubmitRefused
<1>9. CASE P!cancelForgejo \/ P!Logout \/ P!ProvidersAnswer \/ P!ProvidersFail \/ P!Refresh \/ P!Reload
  BY <1>0, <1>1, <1>9 DEF P!cancelForgejo, P!Logout, P!ProvidersAnswer, P!ProvidersFail, P!Refresh, P!Reload
<1>10. ASSUME NEW t \in Tasks, P!openTask(t) PROVE FALSE
  BY <1>1, <1>10 DEF P!openTask
<1>11. ASSUME NEW s \in Students, P!Check(s) \/ P!Confirm(s) \/ P!SetAccess(s) PROVE FALSE
  BY <1>1, <1>11 DEF P!Check, P!Confirm, P!SetAccess, P!pageVars
<1>12. ASSUME NEW t \in Tokens, P!Expire(t) PROVE FALSE
  BY <1>1, <1>12 DEF P!Expire, P!pageVars
<1>13. CASE UNCHANGED P!vars
  BY <1>1, <1>13 DEF P!vars
<1> QED
  BY <1>5, <1>6, <1>7, <1>8, <1>9, <1>10, <1>11, <1>12, <1>13 DEF P!Next, P!EnterSteps, P!OpenSteps

\* student.js, enter: the late failure of another sign-in drops no token; forgejoLogin:
\* an attempt that was cancelled, or left by signing out, signs nobody in.
THEOREM SignInsApart ==
    ASSUME P!PageAssumption
    PROVE  P!Spec => [][P!DropsForCause /\ P!KeepsAbandonedOut]_P!vars
<1>1. PageInv /\ [P!Next]_P!vars => [P!DropsForCause /\ P!KeepsAbandonedOut]_P!vars
  BY DropStep, AbandonStep
<1> QED BY <1>1, PageHolds, PTL DEF P!Spec
=============================================================================
