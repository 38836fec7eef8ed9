------------------------------ MODULE MCForgejo -------------------------------
(* ForgejoServer for TLC: its symmetry.                                      *)
EXTENDS ForgejoServer, TLC

Symmetry == Permutations(Calls) \cup Permutations(Flows) \cup Permutations(Subjects)
            \cup Permutations(Names) \cup Permutations(Approvals)
            \cup Permutations(Browsers) \cup Permutations(Locals)
            \cup Permutations(Users \ Locals)
=============================================================================
