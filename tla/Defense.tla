------------------------------- MODULE Defense --------------------------------
(***************************************************************************)
(* What the tutor promises of the defense of checked solutions, without    *)
(* sessions, turns or workers: at most one defense of a solution is open,  *)
(* it goes through the stages in order with one quote for each, ends       *)
(* confirmed after the last stage or with needs_review after a second      *)
(* refused answer, and a confirmed solution is never defended again.       *)
(***************************************************************************)
EXTENDS Naturals, Sequences

CONSTANTS Submissions, STAGES

Closed == [open |-> FALSE, stage |-> 0, refused |-> 0]

VARIABLES understanding, evidence,
          defended  \* the defense of each solution: whether one is open, its
                    \* stage and how many answers of the stage were refused

vars == <<understanding, evidence, defended>>

Init ==
    /\ understanding = [b \in Submissions |-> "none"]
    /\ evidence = [b \in Submissions |-> <<>>]
    /\ defended = [b \in Submissions |-> Closed]

Check(b) ==
    /\ understanding[b] = "none"
    /\ understanding' = [understanding EXCEPT ![b] = "pending"]
    /\ UNCHANGED <<evidence, defended>>

Begin(b) ==
    /\ understanding[b] \in {"pending", "needs_review"} /\ ~defended[b].open
    /\ understanding' = [understanding EXCEPT ![b] = "pending"]
    /\ evidence' = [evidence EXCEPT ![b] = <<>>]
    /\ defended' = [defended EXCEPT ![b] = [Closed EXCEPT !.open = TRUE]]

Pass(b) ==
    /\ defended[b].open
    /\ LET stage == defended[b].stage + 1
           last == stage = Len(STAGES)
       IN  /\ evidence' = [evidence EXCEPT ![b] = Append(@, STAGES[stage])]
           /\ understanding' = [understanding EXCEPT
                                  ![b] = IF last THEN "confirmed" ELSE "pending"]
           /\ defended' = [defended EXCEPT
                             ![b] = IF last THEN Closed
                                     ELSE [open |-> TRUE, stage |-> stage, refused |-> 0]]

Refuse(b) ==
    /\ defended[b].open
    /\ IF defended[b].refused = 0
       THEN /\ defended' = [defended EXCEPT ![b].refused = 1]
            /\ UNCHANGED understanding
       ELSE /\ defended' = [defended EXCEPT ![b] = Closed]
            /\ understanding' = [understanding EXCEPT ![b] = "needs_review"]
    /\ UNCHANGED evidence

Next == \E b \in Submissions : Check(b) \/ Begin(b) \/ Pass(b) \/ Refuse(b)

Spec == Init /\ [][Next]_vars
=============================================================================
