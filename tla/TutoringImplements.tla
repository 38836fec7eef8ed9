-------------------------- MODULE TutoringImplements --------------------------
(* Tutoring implements the two things it promises, Wallet and Defense.      *)
EXTENDS Tutoring

WalletOf == INSTANCE Wallet WITH
    enabled <- account.enabled, balance <- account.balance,
    reserved <- account.reserved, spent <- account.spent, credited <- credited,
    hold <- [r \in Requests |-> CASE request[r].status = "none" -> "new"
                                  [] request[r].status = "running" -> "open"
                                  [] request[r].status = "done" -> "closed"]

\* How the defense of a solution stands: the one active session, if any.
Stands(rows, b) ==
    LET active == {s \in Sessions : rows[s].status = "active" /\ rows[s].submission = b}
        s == CHOOSE s \in active : TRUE
    IN  IF active = {} THEN [open |-> FALSE, stage |-> 0, refused |-> 0]
        ELSE [open |-> TRUE, stage |-> rows[s].stage, refused |-> rows[s].retries]

DefenseOf == INSTANCE Defense WITH
    understanding <- [b \in Submissions |-> submission[b].understanding],
    evidence <- [b \in Submissions |-> submission[b].evidence],
    defended <- [b \in Submissions |-> Stands(session, b)]

\* Whatever the workers, calls, crashes and recoveries do, the account moves
\* only by a credit booked once, a hold and its one settlement.
ImplementsWallet == WalletOf!Spec

\* On one event loop the turns, retries and replays of a dialogue amount to
\* the plain protocol of a defense.
ImplementsDefense == DefenseOf!Spec
=============================================================================
