-------------------------------- MODULE Wallet --------------------------------
(***************************************************************************)
(* What the billing half of src/ego_server/ai.py promises of one wallet,   *)
(* without workers, calls, models or crashes: money comes in once per      *)
(* credit id, is held before a request works, and is given back, less what *)
(* the request cost, exactly once.                                         *)
(***************************************************************************)
EXTENDS Integers

CONSTANTS Requests, CreditIds, Amounts, Reserve

VARIABLES enabled, balance, reserved, spent,
          credited,  \* the amount booked under each credit id, 0 for none
          hold       \* each request is "new", then "open", then "closed"

vars == <<enabled, balance, reserved, spent, credited, hold>>

Init ==
    /\ enabled = FALSE /\ balance = 0 /\ reserved = 0 /\ spent = 0
    /\ credited = [i \in CreditIds |-> 0]
    /\ hold = [r \in Requests |-> "new"]

SetAccess ==
    /\ enabled' \in BOOLEAN
    /\ UNCHANGED <<balance, reserved, spent, credited, hold>>

Credit(i, amount) ==
    /\ credited[i] = 0
    /\ credited' = [credited EXCEPT ![i] = amount]
    /\ balance' = balance + amount
    /\ UNCHANGED <<enabled, reserved, spent, hold>>

Hold(r) ==
    /\ hold[r] = "new" /\ enabled /\ balance - reserved >= Reserve
    /\ hold' = [hold EXCEPT ![r] = "open"]
    /\ reserved' = reserved + Reserve
    /\ UNCHANGED <<enabled, balance, spent, credited>>

Close(r) ==
    /\ hold[r] = "open"
    /\ hold' = [hold EXCEPT ![r] = "closed"]
    /\ reserved' = reserved - Reserve
    /\ balance' \in Int /\ balance' <= balance
    /\ spent' = spent + (balance - balance')
    /\ UNCHANGED <<enabled, credited>>

Next ==
    \/ SetAccess
    \/ \E i \in CreditIds, amount \in Amounts : Credit(i, amount)
    \/ \E r \in Requests : Hold(r) \/ Close(r)

Spec == Init /\ [][Next]_vars
=============================================================================
