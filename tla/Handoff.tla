------------------------------- MODULE Handoff --------------------------------
(***************************************************************************)
(* What src/ego_server/routers/forgejo_auth.py promises of login attempts, *)
(* without browsers, tickets, callbacks, workers or time: somebody signs   *)
(* in, once; then at most one token is handed over, for the same user; an  *)
(* attempt may come to nothing at any moment before that.                  *)
(***************************************************************************)
EXTENDS Naturals

CONSTANTS Flows, Users, None

VARIABLES
    stage,  \* each attempt is "open", then "signed", then "taken", or "dead"
    user,   \* who signed in
    tokens  \* how many tokens were handed over

vars == <<stage, user, tokens>>

Init ==
    /\ stage = [f \in Flows |-> "open"]
    /\ user = [f \in Flows |-> None]
    /\ tokens = [f \in Flows |-> 0]

SignIn(f) ==
    /\ stage[f] = "open"
    /\ stage' = [stage EXCEPT ![f] = "signed"]
    /\ \E u \in Users : user' = [user EXCEPT ![f] = u]
    /\ UNCHANGED tokens

Take(f) ==
    /\ stage[f] = "signed"
    /\ stage' = [stage EXCEPT ![f] = "taken"]
    /\ tokens' = [tokens EXCEPT ![f] = 1]
    /\ UNCHANGED user

\* Several attempts may end together, in one purge.
Abandon ==
    /\ \E dead \in SUBSET {f \in Flows : stage[f] \in {"open", "signed"}} :
         /\ stage' = [f \in Flows |-> IF f \in dead THEN "dead" ELSE stage[f]]
         /\ user' = [f \in Flows |-> IF f \in dead THEN None ELSE user[f]]
    /\ UNCHANGED tokens

Next == Abandon \/ \E f \in Flows : SignIn(f) \/ Take(f)

Spec == Init /\ [][Next]_vars
=============================================================================
