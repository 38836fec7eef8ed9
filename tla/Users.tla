-------------------------------- MODULE Users --------------------------------
(***************************************************************************)
(* The administration of users: roles and the grants of mentors, deletion   *)
(* with its progress, checks that are still running, and the page that      *)
(* lists students.  A request's caller is looked up in a dependency, in a   *)
(* thread; its handler runs later, in one go.  Account ids are never reused.*)
(***************************************************************************)
EXTENDS FiniteSets, Naturals

CONSTANTS Users,
          Pages,      \* the accounts that have the console open
          Founders,   \* the role each account begins with, or "none"
          MaxAsks,    \* bound: requests of one page under way
          None

Roles == {"student", "mentor", "admin"}
Staff == {"mentor", "admin"}

ASSUME UsersAssumption ==
    /\ Pages \subseteq Users /\ None \notin Users
    /\ Founders \in [Users -> Roles \cup {"none"}] /\ MaxAsks \in Nat \ {0}

\* A list is of nobody in particular, a role or a new account is given to somebody.
\* The slot tells the requests of one page apart; old, of a list, is history: the
\* page has asked for it again since.
Requests ==
    {q \in [by : Users, op : {"list", "role", "delete", "create"}, target : Users \cup {None}, to : Roles \cup {None},
            stage : {"sent", "authorized", "done", "refused"}, result : SUBSET Users,
            slot : 1..MaxAsks, old : BOOLEAN] :
        (q.op # "list" => q.target \in Users) /\ (q.op \in {"role", "create"} => q.to \in Roles)}

VARIABLES
    role,      \* students.role; "none" before the account, "gone" after it
    grants,    \* mentor_grants: <<actor, user>>
    progress,  \* who has rows of progress
    running,   \* checks whose checker runs
    asks,      \* requests under way
    listed,    \* StudentList.svelte: the students each account's page has
    loading,   \* whether it is loading them
    failed,    \* and whether it shows an error in their place
    byHand,    \* history: mentors made on the server's command line
    removed,   \* history: whom each page was told to be deleted
    overtaken  \* history: the list a page has was asked for before another one was

vars == <<role, grants, progress, running, asks, listed, loading, failed, byHand, removed, overtaken>>
pageVars == <<listed, loading, failed, removed, overtaken>>

Exists(u) == role[u] \in Roles
Pupils == {u \in Users : role[u] = "student"}
Asked(a) == {q \in asks : q.by = a}
Becomes(q, r) == asks' = (asks \ {q}) \cup {r}
Unused(a) == {i \in 1..MaxAsks : \A q \in Asked(a) : q.slot # i}
MayAsk(a) == Unused(a) # {}
Slot(a) == CHOOSE i \in Unused(a) : TRUE
NewAsk(a, op, u, to, i) ==
    [by |-> a, op |-> op, target |-> u, to |-> to, stage |-> "sent", result |-> {}, slot |-> i, old |-> FALSE]
Asks(a, op, u, to) == asks' = asks \cup {NewAsk(a, op, u, to, Slot(a))}

-----------------------------------------------------------------------------
(* The page *)

\* The rows: hidden while any list loads, and by an error.
Shown(a) == IF loading[a] \/ failed[a] THEN {} ELSE listed[a]

\* load, after the requests S have ended
Aged(a, r) == IF r.by = a /\ r.op = "list" THEN [r EXCEPT !.old = TRUE] ELSE r
Loads(a, i, S) ==
    /\ asks' = {Aged(a, r) : r \in asks \ S} \cup {NewAsk(a, "list", None, None, i)}
    /\ loading' = [loading EXCEPT ![a] = TRUE] /\ failed' = [failed EXCEPT ![a] = FALSE]

\* «Refresh» and «Retry»
load(a) ==
    /\ Exists(a) /\ MayAsk(a) /\ ~loading[a]
    /\ Loads(a, Slot(a), {})
    /\ UNCHANGED <<role, grants, progress, running, listed, byHand, removed, overtaken>>

\* handleDelete, handleRoleChange, handleCreate: nothing waits for what was asked
\* before; there are no buttons without rows, but the form for a new user.
PageAsks(a) ==
    /\ Exists(a) /\ MayAsk(a)
    /\ \/ \E u \in Shown(a), to \in Staff : Asks(a, "role", u, to)
       \/ \E u \in Shown(a) : Asks(a, "delete", u, None)
       \/ \E u \in Users, to \in Roles : role[u] = "none" /\ Asks(a, "create", u, to)
    /\ UNCHANGED <<role, grants, progress, running, pageVars, byHand>>

\* Demotions have no button; other clients of the API may send them.
Demotes(a) ==
    /\ Exists(a) /\ MayAsk(a)
    /\ \E u \in Users : Exists(u) /\ Asks(a, "role", u, "student")
    /\ UNCHANGED <<role, grants, progress, running, pageVars, byHand>>

\* Mutant: the list is asked for before the deletion is answered.
AnsweredEarly(q) ==
    /\ q \in asks /\ q.op # "list" /\ q.stage \in {"authorized", "done", "refused"}
    /\ IF q.stage # "refused"
       THEN /\ Loads(q.by, q.slot, {q})
            /\ removed' = [removed EXCEPT ![q.by] = @ \cup (IF q.op = "delete" THEN {q.target} ELSE {})]
       ELSE asks' = asks \ {q} /\ UNCHANGED <<loading, failed, removed>>
    /\ UNCHANGED <<role, grants, progress, running, listed, byHand, overtaken>>
\* The answer to an action: after a success the list is loaded anew.
Answered(q) ==
    /\ q \in asks /\ q.op # "list" /\ q.stage \in {"done", "refused"}
    /\ IF q.stage = "done"
       THEN /\ Loads(q.by, q.slot, {q})
            /\ removed' = [removed EXCEPT ![q.by] = @ \cup (IF q.op = "delete" THEN {q.target} ELSE {})]
       ELSE asks' = asks \ {q} /\ UNCHANGED <<loading, failed, removed>>
    /\ UNCHANGED <<role, grants, progress, running, listed, byHand, overtaken>>

\* The end of load, whichever was asked for last
Fails(a) == failed' = [failed EXCEPT ![a] = TRUE] /\ UNCHANGED <<listed, overtaken>>
Listed(q) ==
    /\ q \in asks /\ q.op = "list" /\ q.stage \in {"done", "refused"}
    /\ asks' = asks \ {q}
    /\ loading' = [loading EXCEPT ![q.by] = FALSE]
    /\ IF q.stage = "done"
       THEN /\ listed' = [listed EXCEPT ![q.by] = q.result]
            /\ overtaken' = [overtaken EXCEPT ![q.by] = q.old]
            /\ UNCHANGED failed
       ELSE Fails(q.by)
    /\ UNCHANGED <<role, grants, progress, running, byHand, removed>>

\* The connection fails before or after the request was served.
Lost(q) ==
    /\ q \in asks
    /\ asks' = asks \ {q}
    /\ IF q.op = "list"
       THEN loading' = [loading EXCEPT ![q.by] = FALSE] /\ Fails(q.by)
       ELSE UNCHANGED <<loading, failed, listed, overtaken>>
    /\ UNCHANGED <<role, grants, progress, running, byHand, removed>>

-----------------------------------------------------------------------------
(* The server *)

\* Mutant: administrators appoint mentors.
AllowedToAdmins(q, r) == IF q.op = "list" THEN r \in Staff ELSE r = "admin" \/ (q.to = "mentor" /\ r = "mentor")
\* Who may ask for what, by the role that was read.
Allowed(q, r) ==
    CASE q.op = "list"                    -> r \in Staff
      [] q.op = "role" /\ q.to = "mentor" -> r = "mentor"
      [] q.op = "create"                  -> r = "admin" /\ q.to # "mentor"
      [] OTHER                            -> r = "admin"

\* get_current_user and the role it finds
Authorize(q) ==
    /\ q \in asks /\ q.stage = "sent"
    /\ IF Exists(q.by) /\ Allowed(q, role[q.by])
       THEN Becomes(q, [q EXCEPT !.stage = "authorized"])
       ELSE Becomes(q, [q EXCEPT !.stage = "refused"])
    /\ UNCHANGED <<role, grants, progress, running, pageVars, byHand>>

\* list_students
list_students(q) ==
    /\ q \in asks /\ q.stage = "authorized" /\ q.op = "list"
    /\ Becomes(q, [q EXCEPT !.stage = "done", !.result = Pupils])
    /\ UNCHANGED <<role, grants, progress, running, pageVars, byHand>>

\* update_user_role
update_user_role(q) ==
    /\ q \in asks /\ q.stage = "authorized" /\ q.op = "role"
    /\ IF Exists(q.target) /\ (q.to = "mentor" => role[q.target] = "student")
       THEN /\ role' = [role EXCEPT ![q.target] = q.to]
            /\ grants' = IF q.to = "mentor" THEN grants \cup {<<q.by, q.target>>} ELSE grants
            /\ Becomes(q, [q EXCEPT !.stage = "done"])
       ELSE Becomes(q, [q EXCEPT !.stage = "refused"]) /\ UNCHANGED <<role, grants>>
    /\ UNCHANGED <<progress, running, pageVars, byHand>>

\* create_user: the name is free or taken by now.
create_user(q) ==
    /\ q \in asks /\ q.stage = "authorized" /\ q.op = "create"
    /\ IF role[q.target] = "none"
       THEN role' = [role EXCEPT ![q.target] = q.to] /\ Becomes(q, [q EXCEPT !.stage = "done"])
       ELSE UNCHANGED role /\ Becomes(q, [q EXCEPT !.stage = "refused"])
    /\ UNCHANGED <<grants, progress, running, pageVars, byHand>>

\* delete_user: grants keep the names of those who are gone.
delete_user(q) ==
    /\ q \in asks /\ q.stage = "authorized" /\ q.op = "delete"
    /\ IF Exists(q.target)
       THEN /\ role' = [role EXCEPT ![q.target] = "gone"]
            /\ progress' = progress \ {q.target}
            /\ Becomes(q, [q EXCEPT !.stage = "done"])
       ELSE Becomes(q, [q EXCEPT !.stage = "refused"]) /\ UNCHANGED <<role, progress>>
    /\ UNCHANGED <<grants, running, pageVars, byHand>>

\* check_solution: its caller is looked up, then the checker's thread is awaited.
CheckBegins(u) ==
    /\ Exists(u) /\ u \notin running
    /\ running' = running \cup {u}
    /\ UNCHANGED <<role, grants, progress, asks, pageVars, byHand>>

CheckStores(u) ==
    /\ u \in running
    /\ running' = running \ {u} /\ progress' = progress \cup {u}
    /\ UNCHANGED <<role, grants, asks, pageVars, byHand>>

\* register, or the first sign-in through Forgejo
register(u) ==
    /\ role[u] = "none"
    /\ role' = [role EXCEPT ![u] = "student"]
    /\ UNCHANGED <<grants, progress, running, asks, pageVars, byHand>>

\* ego-server admin set-role
SetRoleByHand(u) ==
    /\ Exists(u)
    /\ \E r \in Roles :
        /\ role' = [role EXCEPT ![u] = r]
        /\ byHand' = IF r = "mentor" THEN byHand \cup {u} ELSE byHand
    /\ UNCHANGED <<grants, progress, running, asks, pageVars>>

-----------------------------------------------------------------------------

Init ==
    /\ role = Founders
    /\ grants = {} /\ progress = {} /\ running = {} /\ asks = {}
    /\ listed = [u \in Users |-> IF u \in Pages THEN Pupils ELSE {}] /\ loading = [u \in Users |-> FALSE]
    /\ byHand = {u \in Users : Founders[u] = "mentor"} /\ removed = [u \in Users |-> {}]
    /\ failed = [u \in Users |-> FALSE] /\ overtaken = [u \in Users |-> FALSE]

Serves(q) == list_students(q) \/ update_user_role(q) \/ create_user(q) \/ delete_user(q)

Next ==
    \/ \E q \in asks : Authorize(q) \/ Serves(q) \/ Answered(q) \/ Listed(q) \/ Lost(q)
    \/ \E u \in Users :
        \/ CheckBegins(u) \/ CheckStores(u) \/ register(u) \/ SetRoleByHand(u)
    \/ \E a \in Pages : load(a) \/ PageAsks(a) \/ Demotes(a)

Spec == Init /\ [][Next]_vars

-----------------------------------------------------------------------------
(* Properties *)

\* Every variable keeps to its values; whoever has progress had an account.
TypeOK ==
    /\ role \in [Users -> Roles \cup {"none", "gone"}]
    /\ grants \subseteq Users \X Users /\ asks \subseteq Requests
    /\ progress \cup running \subseteq {u \in Users : role[u] # "none"}
    /\ listed \in [Users -> SUBSET Users]
    /\ loading \in [Users -> BOOLEAN] /\ failed \in [Users -> BOOLEAN] /\ overtaken \in [Users -> BOOLEAN]

Granted == {g[2] : g \in grants}
\* docs/FORGEJO_AUTH.md:105, «Каждое такое назначение записывает actor ID, target
\* ID и время в `mentor_grants`»: every mentor is there by the command line or by
\* the grant of someone who was; demotions, deletions and races lose no link.
EveryMentorIsAppointed ==
    /\ \A u \in Users : role[u] = "mentor" => u \in byHand \cup Granted
    /\ \A g \in grants : g[1] \in byHand \cup Granted

\* StudentList.svelte:53: a page whose requests have all ended, in whatever order,
\* does not show whom it was told to be deleted, unless the list it shows last was
\* asked for before another one.
DeletedIsNotListed ==
    \A a \in Users : Asked(a) = {} /\ ~overtaken[a] => Shown(a) \cap removed[a] = {}
=============================================================================
