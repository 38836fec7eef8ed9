------------------------------ MODULE MCTutoring ------------------------------
(* Instances of Tutoring for TLC: the symmetry of its sets of identifiers.   *)
EXTENDS TutoringImplements, TLC

\* Identifiers are only compared, so renaming them changes nothing.  A run
\* with a liveness property uses no symmetry.
Symmetry == Permutations(Calls) \cup Permutations(Requests)
            \cup Permutations(Sessions) \cup Permutations(Submissions)
            \cup Permutations(CreditIds) \cup Permutations(Workers)
=============================================================================
