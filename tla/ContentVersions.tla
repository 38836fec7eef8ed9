--------------------------- MODULE ContentVersions ---------------------------
(***************************************************************************)
(* What the catalogue promises of the versions of tasks.  As long as those  *)
(* of a task are all SemVer, or all other strings, they are published in    *)
(* increasing order and a published version keeps its content for ever.     *)
(* SemVer are compared as such and the rest as strings, which is no order   *)
(* on both: in a history that mixes them a published version may be         *)
(* written again, with other content, but none is ever taken back.          *)
(***************************************************************************)
EXTENDS Naturals

CONSTANTS Tasks, Hashes, MaxVersion, MaxSemver, Text, None

Version == 1..MaxVersion
Semvers == 1..MaxSemver

VARIABLE published   \* the content of every version of every task, or None

Unpublished == [v \in Version |-> None]

Init == published = [t \in Tasks |-> Unpublished]

Alike(v, w) == v \in Semvers <=> w \in Semvers
Later(v, w) == IF v \in Semvers /\ w \in Semvers THEN v > w ELSE Text[v] > Text[w]

Mixed(h) == \E v, w \in Version : h[v] # None /\ h[w] # None /\ ~Alike(v, w)

\* A version that was not there is added, later than all that are like it.
Extends(h, g) ==
    \E v \in Version, x \in Hashes :
        /\ h[v] = None
        /\ \A w \in Version : h[w] # None /\ Alike(v, w) => Later(v, w)
        /\ g = [h EXCEPT ![v] = x]

\* A version is added, or written again.
Rewrites(h, g) ==
    /\ Mixed(h)
    /\ \E v \in Version, x \in Hashes : g = [h EXCEPT ![v] = x]

\* Some tasks get one version each.
Publish ==
    /\ DOMAIN published' = Tasks
    /\ \A t \in Tasks : \/ published'[t] = published[t]
                         \/ Extends(published[t], published'[t])
                         \/ Rewrites(published[t], published'[t])

Spec == Init /\ [][Publish]_published
=============================================================================
