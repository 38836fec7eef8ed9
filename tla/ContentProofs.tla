----------------------------- MODULE ContentProofs -----------------------------
(* Theorems about Content, for every value of its constants.  What is said   *)
(* of files that a failed save puts back assumes one worker process, as      *)
(* src/ego_server is deployed by default: its handlers do not await between  *)
(* the replacement of the first file and the restoration of the last.        *)
EXTENDS Content, FiniteSetTheorems, TLAPS

-----------------------------------------------------------------------------
(* Type correctness.  That an open save knows its task and its base, and a   *)
(* check the version it has read, depends on the stage.                      *)

SaveRow ==
    [stage : {"unused", "open", "validated", "writing", "restoring",
              "saved", "restored", "incomplete", "refused", "crashed"},
     task : Tasks \cup {None}, base : Contents \cup {None},
     expected : Version \cup {0}, cand : Contents \cup {None},
     back : Contents \cup {None}, done : 0..3, next : 0..4,
     whole : BOOLEAN, alone : BOOLEAN]

\* What a save knows at its stage.
Knows(x) ==
    /\ x \in SaveRow
    /\ x.stage \in {"open", "validated", "writing", "restoring"}
           => x.task \in Tasks /\ x.base \in Contents /\ x.expected \in Version
    /\ x.stage \in {"validated", "writing", "restoring"} => x.cand \in Contents
    /\ x.stage \in {"writing", "restoring"} => x.back \in Contents
    /\ x.stage \in {"unused", "open", "validated"} => x.done = 0
    /\ x.stage \in {"unused", "open", "validated", "writing"} => x.next = 0
    /\ x.stage = "restoring" => x.next >= 1 /\ x.next <= x.done + 1

Row == [version : Version, hash : Hashes]
Reading == [task : Tasks, version : Version]

FilesInv ==
    /\ files \in [Tasks -> Contents] /\ policy \in {"declare", "auto_minor"}
    /\ up \in BOOLEAN /\ quiet \in BOOLEAN /\ spoilt \in BOOLEAN

CatalogueInv ==
    /\ rows \in [Tasks -> Row \cup {None}]
    /\ versions \in [Tasks -> [Version -> Hashes \cup {None}]]
    /\ progress \in [Tasks -> [Version -> Marks]]
    /\ \A t \in Tasks : rows[t] = None => versions[t] = [v \in Version |-> None]

RequestsInv ==
    /\ saves \in [Savers -> SaveRow] /\ \A s \in Savers : Knows(saves[s])
    /\ checks \in [Checkers -> Reading \cup {None}]
    /\ lock \in Savers \cup {None}
    /\ \A s \in Savers : At(s, "writing") <=> lock = s
    /\ ~up => Busy = {} /\ \A k \in Checkers : checks[k] = None

TypeInv == FilesInv /\ CatalogueInv /\ RequestsInv

-----------------------------------------------------------------------------
(* The history of versions.                                                  *)

\* Only published versions are solved, or checked.
PublishedInv ==
    /\ \A t \in Tasks, v \in Version : versions[t][v] = None => progress[t][v] = "none"
    /\ \A k \in Checkers : checks[k] # None => versions[checks[k].task][checks[k].version] # None

HistoryInv == RowIsLatest /\ PublishedInv /\ CurrentIsNotStale

\* The save that is writing has found the version it was based on, and holds the
\* lock that keeps others from writing rows.
BasedInv ==
    \A s \in Savers :
        /\ saves[s].stage \in {"open", "validated", "writing", "restoring"}
               => rows[saves[s].task] # None
        /\ At(s, "writing") => rows[saves[s].task].version = saves[s].expected

-----------------------------------------------------------------------------
(* One worker process.                                                       *)

OneWorker == Workers = 1 /\ IsFiniteSet(Savers)

OneBusy == \A s, r \in Busy : s = r

\* What a save has made of the files, of those it has replaced and not yet
\* put back.
Left(x, i) == IF x.next <= i /\ i <= x.done THEN x.cand ELSE x.base
LeftBy(x) == [md |-> Left(x, 1).md, solution |-> Left(x, 2).solution, tests |-> Left(x, 3).tests]

Publication(c) == [version |-> VersionOf(c), hash |-> Hash(c)]

\* A save at work on files f, which are as it has left them unless somebody has
\* edited them meanwhile, or one could not be put back.
Well(x, f) ==
    /\ x.cand # x.base => Raised(VersionOf(x.cand), x.expected)
    /\ x.stage # "restoring" => x.whole
    /\ x.alone /\ x.whole => f = LeftBy(x)
    /\ x.alone /\ x.stage # "validated" => x.back = x.base

SaveInv ==
    /\ \A s \in Busy : /\ Well(saves[s], files[saves[s].task])
                       /\ rows[saves[s].task].version = saves[s].expected
    /\ \A s \in Savers : saves[s].stage \in {"unused", "open"} => saves[s].alone /\ saves[s].whole

\* Tasks that no save is working on.
AtRest(t) == \A s \in Busy : saves[s].task # t

\* What the last sync without errors has read is published.
QuietInv ==
    quiet /\ policy = "declare" =>
        /\ \A s \in Busy : saves[s].alone /\ saves[s].whole
                           /\ rows[saves[s].task] = Publication(saves[s].base)
        /\ \A t \in Tasks : AtRest(t) => rows[t] = Publication(files[t])

\* As long as nobody but saves has changed the files, a sync has no errors.
StartInv ==
    ~spoilt =>
        /\ \A s \in Busy : saves[s].alone /\ saves[s].whole /\ policy = "declare"
                           /\ rows[saves[s].task] = Publication(saves[s].base)
        /\ up => \A t \in Tasks : AtRest(t) => Same(t)
        /\ ~up => Errors = {}

FilesKept == OneBusy /\ SaveInv /\ QuietInv /\ StartInv

-----------------------------------------------------------------------------
(* Type correctness, step by step.                                           *)

LEMMA Sorts ==
    ASSUME ContentAssumption
    PROVE  /\ None \notin Tasks \cup Hashes \cup Savers \cup Row \cup Reading
           /\ MaxVersion \in Nat \ {0}
           /\ \A v \in Version : v \in Nat /\ Text[v] \in Nat
           /\ MaxSemver \in Version /\ First \in Semvers /\ Semvers \subseteq Version
<1>1. MaxVersion \in Nat /\ MaxSemver \in 1..MaxVersion
  BY DEF ContentAssumption, Version
<1>2. Semvers \subseteq Version
  BY <1>1 DEF Semvers, Version
<1> QED BY <1>1, <1>2 DEF ContentAssumption, Row, Reading, Version

\* Among versions of one kind Raised is a strict order.
LEMMA Strict ==
    ASSUME ContentAssumption
    PROVE  /\ \A v \in Version : ~Raised(v, v)
           /\ \A u, v, w \in Version :
                  /\ Catalogue!Alike(u, v) /\ Catalogue!Alike(v, w)
                  /\ Raised(u, v) /\ Raised(v, w)
                  => Raised(u, w)
BY Sorts DEF Raised, Catalogue!Alike, Catalogue!Semvers, Semvers

\* A content has a hash.
LEMMA HashType ==
    ASSUME NEW c \in Contents
    PROVE  Hash(c) \in Hashes
BY DEF Contents, Hash, Hashes

\* One file of a task in another state.
LEMMA PartPut ==
    ASSUME NEW f \in Contents, NEW c \in Contents, NEW n \in 1..3
    PROVE  /\ [f EXCEPT ![Parts[n]] = c[Parts[n]]] \in Contents
           /\ [f EXCEPT ![Parts[n]] = c[Parts[n]]]
                = [md |-> IF n = 1 THEN c.md ELSE f.md,
                   solution |-> IF n = 2 THEN c.solution ELSE f.solution,
                   tests |-> IF n = 3 THEN c.tests ELSE f.tests]
<1>1. CASE n = 1
  <2>1. Parts[n] = "md"
    BY <1>1 DEF Parts
  <2>2. [f EXCEPT !["md"] = c["md"]] = [f EXCEPT !.md = c.md]
    OBVIOUS
  <2>3. [f EXCEPT !.md = c.md]
          = [md |-> IF n = 1 THEN c.md ELSE f.md,
             solution |-> IF n = 2 THEN c.solution ELSE f.solution,
             tests |-> IF n = 3 THEN c.tests ELSE f.tests]
    BY <1>1 DEF Contents
  <2>4. [f EXCEPT !.md = c.md] \in Contents
    BY DEF Contents
  <2> QED BY <2>1, <2>2, <2>3, <2>4
<1>2. CASE n = 2
  <2>1. Parts[n] = "solution"
    BY <1>2 DEF Parts
  <2>2. [f EXCEPT !["solution"] = c["solution"]] = [f EXCEPT !.solution = c.solution]
    OBVIOUS
  <2>3. [f EXCEPT !.solution = c.solution]
          = [md |-> IF n = 1 THEN c.md ELSE f.md,
             solution |-> IF n = 2 THEN c.solution ELSE f.solution,
             tests |-> IF n = 3 THEN c.tests ELSE f.tests]
    BY <1>2 DEF Contents
  <2>4. [f EXCEPT !.solution = c.solution] \in Contents
    BY DEF Contents
  <2> QED BY <2>1, <2>2, <2>3, <2>4
<1>3. CASE n = 3
  <2>1. Parts[n] = "tests"
    BY <1>3 DEF Parts
  <2>2. [f EXCEPT !["tests"] = c["tests"]] = [f EXCEPT !.tests = c.tests]
    OBVIOUS
  <2>3. [f EXCEPT !.tests = c.tests]
          = [md |-> IF n = 1 THEN c.md ELSE f.md,
             solution |-> IF n = 2 THEN c.solution ELSE f.solution,
             tests |-> IF n = 3 THEN c.tests ELSE f.tests]
    BY <1>3 DEF Contents
  <2>4. [f EXCEPT !.tests = c.tests] \in Contents
    BY DEF Contents
  <2> QED BY <2>1, <2>2, <2>3, <2>4
<1> QED BY <1>1, <1>2, <1>3

LEMMA TypeInvInit == ContentAssumption /\ Init => TypeInv
<1> SUFFICES ASSUME ContentAssumption, Init PROVE TypeInv
  OBVIOUS
<1>1. Knows(Unused)
  BY DEF Unused, Knows, SaveRow
<1>2. FilesInv /\ CatalogueInv
  BY DEF Init, FilesInv, CatalogueInv, Marks
<1>3. RequestsInv
  BY <1>1, Sorts DEF Init, RequestsInv, Knows, At, Busy, Unused
<1> QED BY <1>2, <1>3 DEF TypeInv

\* The version a sync gives is a version.
LEMMA Sound ==
    ASSUME ContentAssumption, FilesInv, CatalogueInv, NEW t \in Tasks
    PROVE  /\ files[t] \in Contents /\ VersionOf(files[t]) \in Version
           /\ rows[t] # None => rows[t] \in Row
           /\ t \in Synced => NewVersion(t) \in Version
           /\ t \in Synced /\ rows[t] # None /\ Catalogue!Alike(NewVersion(t), rows[t].version)
                  => Raised(NewVersion(t), rows[t].version)
<1>1. files[t] \in Contents /\ VersionOf(files[t]) \in Version
  BY DEF FilesInv, Contents, VersionOf
<1>2. rows[t] # None => rows[t] \in Row
  BY DEF CatalogueInv
<1>3. ASSUME t \in Synced, rows[t] # None
      PROVE  /\ NewVersion(t) \in Version
             /\ Catalogue!Alike(NewVersion(t), rows[t].version)
                    => Raised(NewVersion(t), rows[t].version)
  <2>1. rows[t].version \in Version /\ ~Wrong(t) /\ ~Same(t)
    BY <1>2, <1>3 DEF Row, Synced
  <2>2. CASE policy = "auto_minor"
    <3>1. NewVersion(t) = Bumped(t) /\ Bumped(t) \in Semvers
      BY <1>3, <2>1, <2>2 DEF Wrong, NewVersion
    <3>2. rows[t].version \in Semvers => Raised(Bumped(t), rows[t].version)
      BY <2>1, <3>1, Sorts DEF Raised, Bumped
    <3> QED BY <3>1, <3>2, Sorts DEF Catalogue!Alike, Catalogue!Semvers, Semvers
  <2>3. CASE policy # "auto_minor"
    BY <1>1, <1>3, <2>1, <2>3 DEF Wrong, NewVersion
  <2> QED BY <2>2, <2>3
<1>4. t \in Synced /\ rows[t] = None => NewVersion(t) \in Version
  BY <1>1 DEF NewVersion
<1> QED BY <1>1, <1>2, <1>3, <1>4

LEMMA SyncTypes ==
    ASSUME ContentAssumption, FilesInv, CatalogueInv, Sync
    PROVE  CatalogueInv'
<1>1. \A t \in Tasks : Hash(files[t]) \in Hashes
  BY Sound, HashType
<1>2. rows' \in [Tasks -> Row \cup {None}]
  <2>1. \A t \in Synced : [version |-> NewVersion(t), hash |-> Hash(files[t])] \in Row
    BY <1>1, Sound DEF Row, Synced
  <2> QED BY <2>1 DEF Sync, CatalogueInv
<1>3. versions' \in [Tasks -> [Version -> Hashes \cup {None}]]
  <2>1. \A t \in Synced : [versions[t] EXCEPT ![NewVersion(t)] = Hash(files[t])]
                              \in [Version -> Hashes \cup {None}]
    BY <1>1, Sound DEF Synced, CatalogueInv
  <2> QED BY <2>1 DEF Sync, CatalogueInv
<1>4. progress' \in [Tasks -> [Version -> Marks]]
  <2>1. \A t \in Tasks : Staled(t) \in [Version -> Marks]
    BY DEF Staled, Marks
  <2> QED BY <2>1 DEF Sync, CatalogueInv
<1>5. \A t \in Tasks : rows'[t] = None => versions'[t] = [v \in Version |-> None]
  <2>1. \A t \in Synced : [version |-> NewVersion(t), hash |-> Hash(files[t])] # None
    BY <1>1, Sound, Sorts DEF Row, Synced
  <2> QED BY <2>1 DEF Sync, CatalogueInv
<1> QED BY <1>2, <1>3, <1>4, <1>5 DEF CatalogueInv

\* What a step makes of the catalogue.
LEMMA CatalogueSteps ==
    ASSUME [Next]_vars
    PROVE  \/ UNCHANGED dbVars
           \/ Sync /\ UNCHANGED checks
           \/ \E k \in Checkers : CheckStores(k)
           \/ Push
<1>1. CASE UNCHANGED vars
  BY <1>1 DEF vars, dbVars
<1>2. ASSUME NEW s \in Savers, Open(s) \/ SaveProceeds(s)
      PROVE  UNCHANGED dbVars \/ (Sync /\ UNCHANGED checks)
  BY <1>2 DEF SaveProceeds, Open, Validate, Lock, LockRefused, Replace, Commit, Abort, Restore,
              RestoreFails, Restored
<1>3. ASSUME NEW k \in Checkers, CheckBegins(k) PROVE UNCHANGED dbVars
  BY <1>3 DEF CheckBegins
<1>4. ASSUME SyncTasks \/ Edit \/ SetPolicy \/ Crash \/ Start
      PROVE  UNCHANGED dbVars \/ (Sync /\ UNCHANGED checks)
  BY <1>4 DEF SyncTasks, Edit, SetPolicy, Crash, Start
<1> QED BY <1>1, <1>2, <1>3, <1>4 DEF Next

LEMMA CatalogueStep ==
    ASSUME ContentAssumption, TypeInv, [Next]_vars
    PROVE  CatalogueInv'
<1> USE DEF TypeInv
<1>1. CASE UNCHANGED dbVars
  BY <1>1 DEF CatalogueInv, dbVars
<1>2. CASE Sync
  BY <1>2, SyncTypes
<1>3. ASSUME NEW k \in Checkers, CheckStores(k) PROVE CatalogueInv'
  <2>1. checks[k].task \in Tasks /\ checks[k].version \in Version
    BY <1>3 DEF CheckStores, RequestsInv, Reading
  <2> QED BY <1>3, <2>1 DEF CheckStores, CatalogueInv, Marks
<1>4. CASE Push
  BY <1>4 DEF Push, CatalogueInv, Marks
<1> QED BY <1>1, <1>2, <1>3, <1>4, CatalogueSteps

LEMMA EndedRow ==
    ASSUME NEW stage \in {"saved", "restored", "incomplete", "refused", "crashed"}
    PROVE  Knows(Ended(stage)) /\ Ended(stage).stage = stage
<1>1. PICK x : x = Unused
  OBVIOUS
<1>2. x \in SaveRow
  BY <1>1 DEF Unused, SaveRow
<1>3. Knows([x EXCEPT !.stage = stage]) /\ [x EXCEPT !.stage = stage].stage = stage
  BY <1>2 DEF Knows, SaveRow
<1> QED BY <1>1, <1>3 DEF Ended

LEMMA OpenRow ==
    ASSUME NEW x, Knows(x), x.stage = "unused",
           NEW t \in Tasks, NEW c \in Contents, NEW v \in Version
    PROVE  Knows([x EXCEPT !.stage = "open", !.task = t, !.base = c, !.expected = v])
BY DEF Knows, SaveRow

LEMMA ValidatedRow ==
    ASSUME NEW x, Knows(x), x.stage = "open", NEW c \in Contents
    PROVE  Knows([x EXCEPT !.stage = "validated", !.cand = c])
BY DEF Knows, SaveRow

LEMMA WritingRow ==
    ASSUME NEW x, Knows(x), x.stage = "validated", NEW c \in Contents
    PROVE  Knows([x EXCEPT !.stage = "writing", !.back = c])
BY DEF Knows, SaveRow

LEMMA ReplacedRow ==
    ASSUME NEW x, Knows(x), x.stage = "writing", x.done < 3, NEW c \in Contents
    PROVE  Knows([x EXCEPT !.done = x.done + 1, !.back = c])
<1>1. PICK n \in 0..3 : n = x.done + 1
  BY DEF Knows, SaveRow
<1>2. [x EXCEPT !.done = n, !.back = c] \in SaveRow
  BY DEF Knows, SaveRow
<1>3. Knows([x EXCEPT !.done = n, !.back = c])
  BY <1>1, <1>2 DEF Knows, SaveRow
<1> QED BY <1>1, <1>3

LEMMA RestoringRow ==
    ASSUME NEW x, Knows(x), x.stage = "writing"
    PROVE  Knows([x EXCEPT !.stage = "restoring", !.next = 1])
<1>1. PICK n \in 0..4 : n = 1
  OBVIOUS
<1>2. x.done \in 0..3 /\ [x EXCEPT !.next = n] \in SaveRow
  BY DEF Knows, SaveRow
<1>3. PICK y \in SaveRow : y = [x EXCEPT !.next = n]
  BY <1>2
<1>4. [y EXCEPT !.stage = "restoring"] = [x EXCEPT !.stage = "restoring", !.next = n]
  BY <1>3 DEF Knows, SaveRow
<1>5. [y EXCEPT !.stage = "restoring"] \in SaveRow
  BY DEF SaveRow
<1> QED BY <1>1, <1>2, <1>4, <1>5 DEF Knows, SaveRow

LEMMA NextRow ==
    ASSUME NEW x, Knows(x), x.stage = "restoring", x.next <= x.done
    PROVE  /\ Knows([x EXCEPT !.next = x.next + 1])
           /\ Knows([x EXCEPT !.next = x.next + 1, !.whole = FALSE])
<1>1. PICK n \in 0..4 : n = x.next + 1
  BY DEF Knows, SaveRow
<1>2. [x EXCEPT !.next = n] \in SaveRow /\ [x EXCEPT !.next = n, !.whole = FALSE] \in SaveRow
  BY DEF Knows, SaveRow
<1>3. Knows([x EXCEPT !.next = n]) /\ Knows([x EXCEPT !.next = n, !.whole = FALSE])
  BY <1>1, <1>2 DEF Knows, SaveRow
<1> QED BY <1>1, <1>3

LEMMA EditedRow ==
    ASSUME NEW x, Knows(x)
    PROVE  Knows([x EXCEPT !.alone = FALSE])
BY ZenonT(30) DEF Knows, SaveRow

\* Only the row of s changes, to x.
Becomes(s, x) == saves' = [saves EXCEPT ![s] = x] /\ Knows(x)

LEMMA OpenEffect ==
    ASSUME ContentAssumption, TypeInv, NEW s \in Savers, Open(s)
    PROVE  \E t \in Tasks :
             /\ rows[t] # None
             /\ Becomes(s, [Unused EXCEPT !.stage = "open", !.task = t, !.base = files[t],
                                          !.expected = rows[t].version])
<1>1. PICK t \in Tasks :
         /\ rows[t] # None
         /\ saves' = [saves EXCEPT ![s] = [Unused EXCEPT !.stage = "open", !.task = t,
                                           !.base = files[t], !.expected = rows[t].version]]
  BY DEF Open
<1>2. files[t] \in Contents /\ rows[t].version \in Version
  BY <1>1, Sound DEF Row, TypeInv
<1>3. Knows([Unused EXCEPT !.stage = "open", !.task = t, !.base = files[t],
                           !.expected = rows[t].version])
  <2>1. Knows(Unused) /\ Unused.stage = "unused"
    BY DEF Unused, Knows, SaveRow
  <2> QED BY <1>2, <2>1, OpenRow
<1> QED BY <1>1, <1>3 DEF Becomes

LEMMA ValidateEffect ==
    ASSUME TypeInv, NEW s \in Savers, Validate(s)
    PROVE  \/ Becomes(s, Ended("refused"))
           \/ /\ Current(s) /\ policy = "declare"
              /\ \E c \in Contents :
                  /\ c # saves[s].base => Raised(VersionOf(c), saves[s].expected)
                  /\ Becomes(s, [saves[s] EXCEPT !.stage = "validated", !.cand = c])
<1>1. CASE Ends(s, "refused")
  BY <1>1, EndedRow DEF Ends, Becomes
<1>2. ASSUME NEW c \in Contents,
             saves' = [saves EXCEPT ![s].stage = "validated", ![s].cand = c]
      PROVE  Becomes(s, [saves[s] EXCEPT !.stage = "validated", !.cand = c])
  <2>1. saves' = [saves EXCEPT ![s] = [saves[s] EXCEPT !.stage = "validated", !.cand = c]]
    BY <1>2 DEF TypeInv, RequestsInv
  <2>2. Knows([saves[s] EXCEPT !.stage = "validated", !.cand = c])
    BY ValidatedRow DEF TypeInv, RequestsInv, Validate, At
  <2> QED BY <2>1, <2>2 DEF Becomes
<1>3. Ends(s, "refused") \/ (Current(s) /\ policy = "declare" /\
        \E c \in Contents :
            /\ c # saves[s].base => Raised(VersionOf(c), saves[s].expected)
            /\ saves' = [saves EXCEPT ![s].stage = "validated", ![s].cand = c])
  BY DEF Validate
<1> QED BY <1>1, <1>2, <1>3

LEMMA LockEffect ==
    ASSUME TypeInv, NEW s \in Savers, Lock(s)
    PROVE  \/ Becomes(s, Ended("refused")) /\ lock' = lock
           \/ /\ Current(s) /\ lock' = s
              /\ Becomes(s, [saves[s] EXCEPT !.stage = "writing", !.back = files[saves[s].task]])
<1>1. ASSUME Ends(s, "refused") PROVE Becomes(s, Ended("refused"))
  BY <1>1, EndedRow DEF Ends, Becomes
<1>2. ASSUME saves' = [saves EXCEPT ![s].stage = "writing", ![s].back = files[saves[s].task]]
      PROVE  Becomes(s, [saves[s] EXCEPT !.stage = "writing", !.back = files[saves[s].task]])
  <2>1. saves' = [saves EXCEPT ![s] = [saves[s] EXCEPT !.stage = "writing",
                                                       !.back = files[saves[s].task]]]
    BY <1>2 DEF TypeInv, RequestsInv
  <2>2. Knows([saves[s] EXCEPT !.stage = "writing", !.back = files[saves[s].task]])
    <3>1. Knows(saves[s]) /\ saves[s].stage = "validated" /\ files[saves[s].task] \in Contents
      BY DEF TypeInv, RequestsInv, FilesInv, Lock, At, Knows
    <3> QED BY <3>1, WritingRow
  <2> QED BY <2>1, <2>2 DEF Becomes
<1> QED BY <1>1, <1>2 DEF Lock

\* A file of s's task in another state.
Puts(s, n, c) ==
    files' = [files EXCEPT ![saves[s].task] = [files[saves[s].task] EXCEPT ![Parts[n]] = c[Parts[n]]]]

LEMMA ReplaceEffect ==
    ASSUME TypeInv, NEW s \in Savers, Replace(s)
    PROVE  /\ Puts(s, saves[s].done + 1, saves[s].cand)
           /\ Becomes(s, [saves[s] EXCEPT !.done = saves[s].done + 1,
                  !.back = [saves[s].back EXCEPT ![Parts[saves[s].done + 1]]
                                = files[saves[s].task][Parts[saves[s].done + 1]]]])
<1> DEFINE x == saves[s]
           p == Parts[x.done + 1]
           back == [x.back EXCEPT ![p] = files[x.task][p]]
<1>1. x \in SaveRow /\ x.task \in Tasks /\ x.cand \in Contents /\ x.back \in Contents
      /\ x.done + 1 \in 1..3 /\ files[x.task] \in Contents
  BY DEF Replace, At, TypeInv, RequestsInv, FilesInv, Knows, SaveRow
<1>2. back \in Contents
  BY <1>1, PartPut
<1>3. files' = [files EXCEPT ![x.task][p] = x.cand[p]]
  BY DEF Replace
<1>4. saves' = [saves EXCEPT ![s].done = @ + 1, ![s].back[p] = files[x.task][p]]
  BY DEF Replace
<1>5. Puts(s, x.done + 1, x.cand)
  BY <1>1, <1>3 DEF Puts, TypeInv, FilesInv
<1>6. saves' = [saves EXCEPT ![s] = [x EXCEPT !.done = x.done + 1, !.back = back]]
  BY <1>1, <1>4 DEF TypeInv, RequestsInv, SaveRow
<1>7. Knows([x EXCEPT !.done = x.done + 1, !.back = back])
  <2>1. Knows(x) /\ x.stage = "writing" /\ x.done < 3
    BY DEF TypeInv, RequestsInv, Replace, At
  <2> HIDE DEF back, x
  <2> QED BY <1>2, <2>1, ReplacedRow
<1> QED BY <1>5, <1>6, <1>7 DEF Becomes

LEMMA AbortEffect ==
    ASSUME TypeInv, NEW s \in Savers, Abort(s)
    PROVE  Becomes(s, [saves[s] EXCEPT !.stage = "restoring", !.next = 1])
<1>1. saves' = [saves EXCEPT ![s] = [saves[s] EXCEPT !.stage = "restoring", !.next = 1]]
  BY DEF Abort, TypeInv, RequestsInv
<1>2. Knows([saves[s] EXCEPT !.stage = "restoring", !.next = 1])
  BY RestoringRow DEF TypeInv, RequestsInv, Abort, At
<1> QED BY <1>1, <1>2 DEF Becomes

LEMMA RestoreEffect ==
    ASSUME TypeInv, NEW s \in Savers, Restore(s)
    PROVE  /\ Puts(s, saves[s].next, saves[s].back)
           /\ Becomes(s, [saves[s] EXCEPT !.next = saves[s].next + 1])
<1> DEFINE x == saves[s]
           p == Parts[x.next]
<1>1. x \in SaveRow /\ x.task \in Tasks /\ x.next \in 1..3
  BY DEF Restore, At, TypeInv, RequestsInv, Knows, SaveRow
<1>2. files' = [files EXCEPT ![x.task][p] = x.back[p]] /\ saves' = [saves EXCEPT ![s].next = @ + 1]
  BY DEF Restore
<1>3. Puts(s, x.next, x.back)
  BY <1>1, <1>2 DEF Puts, TypeInv, FilesInv
<1>4. saves' = [saves EXCEPT ![s] = [x EXCEPT !.next = x.next + 1]]
  BY <1>1, <1>2 DEF TypeInv, RequestsInv, SaveRow
<1>5. Knows([x EXCEPT !.next = x.next + 1])
  BY NextRow DEF TypeInv, RequestsInv, Restore, At
<1> QED BY <1>3, <1>4, <1>5 DEF Becomes

LEMMA RestoreFailsEffect ==
    ASSUME TypeInv, NEW s \in Savers, RestoreFails(s)
    PROVE  Becomes(s, [saves[s] EXCEPT !.next = saves[s].next + 1, !.whole = FALSE])
<1> DEFINE x == saves[s]
<1>1. x \in SaveRow /\ x.task \in Tasks /\ x.next \in 1..3
  BY DEF RestoreFails, At, TypeInv, RequestsInv, Knows, SaveRow
<1>2. saves' = [saves EXCEPT ![s].next = @ + 1, ![s].whole = FALSE]
  BY DEF RestoreFails
<1>3. saves' = [saves EXCEPT ![s] = [x EXCEPT !.next = x.next + 1, !.whole = FALSE]]
  BY <1>1, <1>2 DEF TypeInv, RequestsInv, SaveRow
<1>4. Knows([x EXCEPT !.next = x.next + 1, !.whole = FALSE])
  BY NextRow DEF TypeInv, RequestsInv, RestoreFails, At
<1> QED BY <1>3, <1>4 DEF Becomes

\* How a save ends.
LEMMA EndEffect ==
    ASSUME NEW s \in Savers, LockRefused(s) \/ Commit(s) \/ Restored(s)
    PROVE  \E stage \in {"saved", "restored", "incomplete", "refused"} :
               Becomes(s, Ended(stage)) /\ Ends(s, stage)
BY EndedRow DEF LockRefused, Commit, Restored, Ends, Becomes

\* A step of one save: its row, the lock, and who is at work.
LEMMA SaveSteps ==
    ASSUME ContentAssumption, TypeInv, NEW s \in Savers, Open(s) \/ SaveProceeds(s)
    PROVE  /\ \E x : Becomes(s, x)
           /\ up /\ UNCHANGED <<up, policy, checks>>
           /\ \/ lock' = lock /\ saves'[s].stage # "writing" /\ saves[s].stage # "writing"
              \/ lock' = lock /\ saves'[s].stage = "writing" /\ saves[s].stage = "writing"
              \/ lock = None /\ lock' = s /\ saves'[s].stage = "writing"
              \/ lock = s /\ lock' = None /\ saves'[s].stage # "writing"
<1> USE DEF At, Becomes
<1>1. saves \in [Savers -> SaveRow] /\ saves[s] \in SaveRow
      /\ (saves[s].stage = "writing" <=> lock = s) /\ (~up => s \notin Busy)
  BY DEF TypeInv, RequestsInv
<1>2. up /\ UNCHANGED <<up, policy, checks>>
  <2>1. UNCHANGED <<up, policy, checks>>
    BY DEF SaveProceeds, Open, Validate, Lock, LockRefused, Replace, Commit, Abort, Restore,
           RestoreFails, Restored
  <2>2. up
    BY <1>1 DEF SaveProceeds, Open, Validate, Lock, LockRefused, Replace, Commit, Abort, Restore,
                RestoreFails, Restored, Free, Busy
  <2> QED BY <2>1, <2>2
<1>3. CASE Open(s)
  BY <1>1, <1>2, <1>3, OpenEffect, ZenonT(30) DEF Open, Unused
<1>4. CASE Validate(s)
  <2>1. lock' = lock /\ saves[s].stage = "open"
    BY <1>4 DEF Validate
  <2>2. ASSUME NEW x, Becomes(s, x), x.stage # "writing" PROVE saves'[s].stage # "writing"
    BY <1>1, <2>2
  <2>3. CASE Becomes(s, Ended("refused"))
    BY <1>2, <2>1, <2>2, <2>3, EndedRow
  <2>4. ASSUME NEW c, Becomes(s, [saves[s] EXCEPT !.stage = "validated", !.cand = c])
        PROVE  saves'[s].stage # "writing"
    <3>1. [saves[s] EXCEPT !.stage = "validated", !.cand = c].stage = "validated"
      BY <1>1 DEF SaveRow
    <3> QED BY <2>2, <2>4, <3>1
  <2> QED BY <1>2, <1>4, <2>1, <2>3, <2>4, ValidateEffect
<1>5. CASE Lock(s)
  <2>1. lock = None /\ saves[s].stage = "validated"
    BY <1>5 DEF Lock
  <2>2. CASE Becomes(s, Ended("refused")) /\ lock' = lock
    BY <1>1, <1>2, <2>1, <2>2, EndedRow
  <2>3. ASSUME NEW c, Becomes(s, [saves[s] EXCEPT !.stage = "writing", !.back = c])
        PROVE  saves'[s].stage = "writing"
    <3>1. [saves[s] EXCEPT !.stage = "writing", !.back = c].stage = "writing"
      BY <1>1 DEF SaveRow
    <3> QED BY <1>1, <2>3, <3>1
  <2> QED BY <1>2, <1>5, <2>1, <2>2, <2>3, LockEffect
<1>6. CASE LockRefused(s)
  BY <1>1, <1>2, <1>6, EndEffect, EndedRow DEF LockRefused
<1>7. CASE Replace(s)
  BY <1>1, <1>2, <1>7, ReplaceEffect DEF Replace, SaveRow
<1>8. CASE Commit(s)
  BY <1>1, <1>2, <1>8, EndEffect, EndedRow DEF Commit
<1>9. CASE Abort(s)
  BY <1>1, <1>2, <1>9, AbortEffect DEF Abort, SaveRow
<1>10. CASE Restore(s)
  BY <1>1, <1>2, <1>10, RestoreEffect DEF Restore, SaveRow
<1>11. CASE RestoreFails(s)
  BY <1>1, <1>2, <1>11, RestoreFailsEffect DEF RestoreFails, SaveRow
<1>12. CASE Restored(s)
  BY <1>1, <1>2, <1>12, EndEffect, EndedRow DEF Restored
<1> QED BY <1>3, <1>4, <1>5, <1>6, <1>7, <1>8, <1>9, <1>10, <1>11, <1>12 DEF SaveProceeds

LEMMA FilesStep ==
    ASSUME ContentAssumption, TypeInv, [Next]_vars
    PROVE  FilesInv'
<1> USE DEF TypeInv, FilesInv
<1>1. CASE UNCHANGED vars
  BY <1>1 DEF vars
<1>2. ASSUME NEW s \in Savers, NEW n \in 1..3, NEW c \in Contents, saves[s].task \in Tasks,
             Puts(s, n, c)
      PROVE  files' \in [Tasks -> Contents]
  <2>1. [files[saves[s].task] EXCEPT ![Parts[n]] = c[Parts[n]]] \in Contents
    BY <1>2, PartPut
  <2> QED BY <1>2, <2>1 DEF Puts
<1>3. ASSUME NEW s \in Savers, Open(s) \/ SaveProceeds(s) PROVE FilesInv'
  <2>1. Knows(saves[s])
    BY DEF RequestsInv
  <2>2. CASE Replace(s)
    <3>1. saves[s].done + 1 \in 1..3 /\ saves[s].cand \in Contents /\ saves[s].task \in Tasks
      BY <2>1, <2>2 DEF Replace, At, Knows, SaveRow
    <3> QED BY <1>2, <2>2, <3>1, ReplaceEffect DEF Replace
  <2>3. CASE Restore(s)
    <3>1. saves[s].next \in 1..3 /\ saves[s].back \in Contents /\ saves[s].task \in Tasks
      BY <2>1, <2>3 DEF Restore, At, Knows, SaveRow
    <3> QED BY <1>2, <2>3, <3>1, RestoreEffect DEF Restore, histVars
  <2>4. CASE Commit(s)
    BY <2>4 DEF Commit, Sync
  <2> QED BY <1>3, <2>2, <2>3, <2>4
           DEF SaveProceeds, Open, Validate, Lock, LockRefused, Abort, RestoreFails, Restored, histVars
<1>4. ASSUME NEW k \in Checkers, CheckBegins(k) \/ CheckStores(k) PROVE FilesInv'
  BY <1>4 DEF CheckBegins, CheckStores, histVars
<1>5. CASE SyncTasks
  BY <1>5 DEF SyncTasks, Sync
<1>6. CASE Push
  BY <1>6 DEF Push, histVars
<1>7. CASE Edit
  BY <1>7 DEF Edit
<1>8. CASE SetPolicy
  BY <1>8 DEF SetPolicy
<1>9. CASE Crash
  BY <1>9 DEF Crash
<1>10. CASE Start
  BY <1>10 DEF Start, Sync
<1> QED BY <1>1, <1>3, <1>4, <1>5, <1>6, <1>7, <1>8, <1>9, <1>10 DEF Next

LEMMA RequestsStep ==
    ASSUME ContentAssumption, TypeInv, [Next]_vars
    PROVE  RequestsInv'
<1> USE DEF TypeInv
<1>1. CASE UNCHANGED vars
  BY <1>1 DEF vars, RequestsInv, Knows, At, Busy
<1>2. ASSUME NEW s \in Savers, Open(s) \/ SaveProceeds(s) PROVE RequestsInv'
  <2>1. PICK x : saves' = [saves EXCEPT ![s] = x] /\ Knows(x)
    BY <1>2, SaveSteps DEF Becomes
  <2>2. up /\ up' = up /\ checks' = checks
    BY <1>2, SaveSteps
  <2>3. saves' \in [Savers -> SaveRow] /\ \A r \in Savers : Knows(saves'[r])
    BY <2>1 DEF RequestsInv, Knows
  <2>4. \/ lock' = lock /\ saves'[s].stage # "writing" /\ saves[s].stage # "writing"
        \/ lock' = lock /\ saves'[s].stage = "writing" /\ saves[s].stage = "writing"
        \/ lock = None /\ lock' = s /\ saves'[s].stage = "writing"
        \/ lock = s /\ lock' = None /\ saves'[s].stage # "writing"
    BY <1>2, SaveSteps
  <2>5. \A r \in Savers \ {s} : saves'[r] = saves[r]
    BY <2>1 DEF RequestsInv
  <2>6. lock' \in Savers \cup {None} /\ \A r \in Savers : saves'[r].stage = "writing" <=> lock' = r
    BY <2>4, <2>5, Sorts DEF RequestsInv, At
  <2> QED BY <2>2, <2>3, <2>6 DEF RequestsInv, Knows, At, Busy
<1>3. CASE /\ UNCHANGED <<lock, up, saves>> /\ checks' \in [Checkers -> Reading \cup {None}]
           /\ up \/ UNCHANGED checks
  BY <1>3 DEF RequestsInv, Knows, At, Busy
<1>4. ASSUME NEW k \in Checkers, CheckBegins(k) PROVE RequestsInv'
  <2>1. \A t \in Tasks : rows[t] # None => [task |-> t, version |-> rows[t].version] \in Reading
    BY DEF CatalogueInv, Row, Reading
  <2> QED BY <1>3, <1>4, <2>1 DEF CheckBegins, Free, RequestsInv
<1>5. ASSUME NEW k \in Checkers, CheckStores(k) PROVE RequestsInv'
  BY <1>3, <1>5 DEF CheckStores, Free, RequestsInv
<1>6. CASE SyncTasks \/ Push \/ SetPolicy
  BY <1>3, <1>6 DEF SyncTasks, Push, SetPolicy, RequestsInv
<1>7. CASE Edit
  <2>1. PICK t \in Tasks : saves' = [s \in Savers |->
                IF s \in Busy /\ saves[s].task = t THEN [saves[s] EXCEPT !.alone = FALSE] ELSE saves[s]]
    BY <1>7 DEF Edit
  <2>2. \A s \in Savers : /\ Knows(saves'[s]) /\ saves'[s] \in SaveRow
                          /\ saves'[s].stage = saves[s].stage
    <3> TAKE s \in Savers
    <3>1. Knows([saves[s] EXCEPT !.alone = FALSE])
      BY EditedRow DEF RequestsInv
    <3>2. [saves[s] EXCEPT !.alone = FALSE].stage = saves[s].stage
      BY DEF RequestsInv, SaveRow
    <3> QED BY <2>1, <3>1, <3>2 DEF Knows, RequestsInv
  <2>3. saves' \in [Savers -> SaveRow]
    BY <2>1, <2>2
  <2>4. UNCHANGED <<lock, up, checks>>
    BY <1>7 DEF Edit
  <2> QED BY <2>2, <2>3, <2>4 DEF RequestsInv, At, Busy
<1>8. CASE Crash
  <2>1. saves' = [s \in Savers |-> IF s \in Busy THEN Ended("crashed") ELSE saves[s]]
        /\ lock' = None /\ checks' = [k \in Checkers |-> None]
    BY <1>8 DEF Crash
  <2>2. \A s \in Savers : /\ Knows(saves'[s]) /\ saves'[s] \in SaveRow
                          /\ saves'[s].stage \notin {"validated", "writing", "restoring"}
    BY <2>1, EndedRow DEF Knows, RequestsInv, Busy
  <2>3. saves' \in [Savers -> SaveRow]
    BY <2>1, <2>2
  <2> QED BY <2>1, <2>2, <2>3, Sorts DEF RequestsInv, At, Busy
<1>9. CASE Start
  BY <1>9 DEF Start, RequestsInv, Knows, At, Busy
<1> QED BY <1>1, <1>2, <1>4, <1>5, <1>6, <1>7, <1>8, <1>9 DEF Next

LEMMA TypeInvStep == ContentAssumption /\ TypeInv /\ [Next]_vars => TypeInv'
BY FilesStep, CatalogueStep, RequestsStep DEF TypeInv

\* Type correctness: the rows, the history and the saves of the Task Studio keep
\* to their values, a task without a row has no history, and exactly the save
\* that is writing holds the write lock, for any number of workers.
THEOREM TypeCorrect ==
    ASSUME ContentAssumption
    PROVE  Spec => []TypeOK
<1>1. TypeInv => TypeOK
  BY DEF TypeInv, TypeOK, FilesInv, CatalogueInv, RequestsInv, Row
<1>2. Init => TypeInv
  BY TypeInvInit
<1>3. TypeInv /\ [Next]_vars => TypeInv'
  BY TypeInvStep
<1> QED BY <1>1, <1>2, <1>3, PTL DEF Spec

-----------------------------------------------------------------------------
(* Versions: a row shows the latest of its history, what is current is never *)
(* stale, and the history only grows.                                        *)

LEMMA HistoryInit == ContentAssumption /\ Init => HistoryInv
BY DEF Init, HistoryInv, RowIsLatest, PublishedInv, CurrentIsNotStale

\* What a sync makes of one task: nothing, or the new version n with content x.
Kept(t) == rows'[t] = rows[t] /\ versions'[t] = versions[t] /\ progress'[t] = progress[t]
Gets(t, n, x) ==
    /\ rows[t] # None => /\ rows[t].version \in Version
                         /\ Catalogue!Alike(n, rows[t].version) => Raised(n, rows[t].version)
    /\ rows'[t] # None /\ rows'[t].version = n /\ rows'[t].hash = x
    /\ versions'[t] = [versions[t] EXCEPT ![n] = x]
    /\ \A v \in Version : progress[t][v] = "none" => progress'[t][v] = "none"

LEMMA SyncEffect ==
    ASSUME ContentAssumption, TypeInv, Sync, NEW t \in Tasks
    PROVE  Kept(t) \/ \E n \in Version, x \in Hashes : Gets(t, n, x)
<1>1. CASE t \notin Synced
  BY <1>1 DEF Sync, Synced, Kept
<1>2. CASE t \in Synced
  <2>1. /\ NewVersion(t) \in Version /\ Hash(files[t]) \in Hashes
        /\ rows[t] # None =>
              /\ rows[t].version \in Version
              /\ Catalogue!Alike(NewVersion(t), rows[t].version)
                     => Raised(NewVersion(t), rows[t].version)
    BY <1>2, Sound, HashType DEF TypeInv, Row
  <2>2. rows'[t] = [version |-> NewVersion(t), hash |-> Hash(files[t])]
        /\ versions'[t] = [versions[t] EXCEPT ![NewVersion(t)] = Hash(files[t])]
    BY <1>2 DEF Sync
  <2>3. [version |-> NewVersion(t), hash |-> Hash(files[t])] # None
    BY <2>1, Sorts DEF Row
  <2>4. progress'[t] \in {progress[t], Staled(t)}
    BY <1>2 DEF Sync
  <2>5. \A v \in Version : progress[t][v] = "none" => Staled(t)[v] = "none"
    BY DEF Staled
  <2>6. Gets(t, NewVersion(t), Hash(files[t]))
    BY <2>1, <2>2, <2>3, <2>4, <2>5 DEF Gets
  <2> QED BY <2>1, <2>6
<1> QED BY <1>1, <1>2

\* A history that a new version leaves unmixed has not had that version, and
\* those it had are of its kind and earlier.
LEMMA Fresh ==
    ASSUME ContentAssumption, TypeInv, RowIsLatest, NEW t \in Tasks,
           NEW n \in Version, NEW x \in Hashes, Gets(t, n, x)
    PROVE  /\ ~Catalogue!Mixed(versions[t]) =>
                  /\ versions[t][n] = None
                  /\ \A w \in Version :
                         versions[t][w] # None /\ Catalogue!Alike(n, w) => Raised(n, w)
           /\ ~Catalogue!Mixed(versions'[t]) =>
                  /\ ~Catalogue!Mixed(versions[t])
                  /\ \A w \in Version : versions[t][w] # None => Catalogue!Alike(n, w)
<1> DEFINE h == versions[t]
           g == versions'[t]
<1>1. h \in [Version -> Hashes \cup {None}] /\ None \notin Hashes
      /\ (rows[t] = None => \A v \in Version : h[v] = None)
  BY Sorts DEF TypeInv, CatalogueInv
<1>2. \A v \in Version : g[v] = IF v = n THEN x ELSE h[v]
  BY <1>1 DEF Gets
<1>3. ASSUME ~Catalogue!Mixed(g)
      PROVE  /\ ~Catalogue!Mixed(h)
             /\ \A w \in Version : h[w] # None => Catalogue!Alike(n, w)
  <2>1. \A v, w \in Version : g[v] # None /\ g[w] # None => Catalogue!Alike(v, w)
    BY <1>3 DEF Catalogue!Mixed, Catalogue!Version, Version
  <2>2. g[n] # None /\ \A v \in Version : h[v] # None => g[v] # None
    BY <1>1, <1>2
  <2> QED BY <2>1, <2>2 DEF Catalogue!Mixed, Catalogue!Version, Version
<1>4. ASSUME ~Catalogue!Mixed(h), rows[t] # None
      PROVE  /\ h[n] = None
             /\ \A w \in Version : h[w] # None /\ Catalogue!Alike(n, w) => Raised(n, w)
  <2> DEFINE r == rows[t].version
  <2>1. r \in Version /\ h[r] # None /\ (Catalogue!Alike(n, r) => Raised(n, r))
    <3>1. rows[t] \in Row
      BY <1>4, Sound DEF TypeInv
    <3> QED BY <1>1, <1>4, <3>1 DEF Gets, RowIsLatest, Row
  <2>2. \A v, w \in Version : h[v] # None /\ h[w] # None => Catalogue!Alike(v, w)
    BY <1>4 DEF Catalogue!Mixed, Catalogue!Version, Version
  <2>3. \A v \in Version : h[v] # None => v = r \/ Raised(r, v)
    BY <1>4 DEF RowIsLatest
  <2>4. ASSUME NEW w \in Version, h[w] # None, Catalogue!Alike(n, w) PROVE Raised(n, w)
    <3>1. Catalogue!Alike(r, w) /\ Catalogue!Alike(w, r)
      BY <2>1, <2>2, <2>4
    <3>2. Catalogue!Alike(n, r)
      BY <2>4, <3>1 DEF Catalogue!Alike
    <3> QED BY <2>1, <2>3, <2>4, <3>1, <3>2, Strict
  <2>5. h[n] = None
    <3>1. Catalogue!Alike(n, n)
      BY DEF Catalogue!Alike
    <3> QED BY <2>4, <3>1, Strict
  <2> QED BY <2>4, <2>5
<1> QED BY <1>1, <1>3, <1>4

LEMMA HistoryStep ==
    ASSUME ContentAssumption, TypeInv, HistoryInv, [Next]_vars
    PROVE  HistoryInv'
<1> USE DEF HistoryInv, RowIsLatest, PublishedInv, CurrentIsNotStale
<1>1. /\ rows \in [Tasks -> Row \cup {None}]
      /\ versions \in [Tasks -> [Version -> Hashes \cup {None}]]
      /\ progress \in [Tasks -> [Version -> Marks]]
      /\ \A t \in Tasks : rows[t] = None => \A v \in Version : versions[t][v] = None
      /\ checks \in [Checkers -> Reading \cup {None}]
  BY DEF TypeInv, CatalogueInv, RequestsInv
<1>2. CASE Sync /\ UNCHANGED checks
  <2>1. RowIsLatest'
    <3> SUFFICES ASSUME NEW t \in Tasks, rows'[t] # None
                 PROVE  /\ versions'[t][rows'[t].version] = rows'[t].hash
                        /\ ~Catalogue!Mixed(versions'[t]) =>
                               \A v \in Version \ {rows'[t].version} :
                                   versions'[t][v] # None => Raised(rows'[t].version, v)
      BY DEF Catalogue!Mixed
    <3>1. versions[t] \in [Version -> Hashes \cup {None}]
      BY <1>1
    <3>2. ASSUME NEW n \in Version, NEW x \in Hashes, Gets(t, n, x)
          PROVE  /\ versions'[t][rows'[t].version] = rows'[t].hash
                 /\ ~Catalogue!Mixed(versions'[t]) =>
                        \A v \in Version \ {rows'[t].version} :
                            versions'[t][v] # None => Raised(rows'[t].version, v)
      <4>1. rows'[t].version = n /\ rows'[t].hash = x
            /\ \A v \in Version : versions'[t][v] = IF v = n THEN x ELSE versions[t][v]
        BY <3>1, <3>2 DEF Gets
      <4>2. ASSUME ~Catalogue!Mixed(versions'[t]), NEW v \in Version \ {n}, versions'[t][v] # None
            PROVE  Raised(n, v)
        <5>1. versions[t][v] # None
          BY <4>1, <4>2
        <5> QED BY <3>2, <4>2, <5>1, Fresh
      <4> QED BY <4>1, <4>2
    <3>3. CASE Kept(t)
      BY <3>3 DEF Kept
    <3> QED BY <1>2, <3>2, <3>3, SyncEffect
  <2>2. \A t \in Tasks, v \in Version : versions'[t][v] = None =>
            versions[t][v] = None /\ progress'[t][v] = "none"
    <3> SUFFICES ASSUME NEW t \in Tasks, NEW v \in Version, versions'[t][v] = None
                 PROVE  versions[t][v] = None /\ progress'[t][v] = "none"
      OBVIOUS
    <3>1. versions[t] \in [Version -> Hashes \cup {None}] /\ None \notin Hashes
      BY <1>1, Sorts
    <3>2. CASE Kept(t)
      BY <3>2 DEF Kept
    <3>3. ASSUME NEW n \in Version, NEW x \in Hashes, Gets(t, n, x)
          PROVE  versions[t][v] = None /\ progress'[t][v] = "none"
      BY <3>1, <3>3 DEF Gets
    <3> QED BY <1>2, <3>2, <3>3, SyncEffect
  <2>3. \A k \in Checkers : checks'[k] # None
            => versions'[checks'[k].task][checks'[k].version] # None
    BY <1>1, <1>2, <2>2 DEF Reading
  <2>4. CurrentIsNotStale'
    <3> SUFFICES ASSUME NEW t \in Tasks, rows'[t] # None, ~Catalogue!Mixed(versions'[t])
                 PROVE  progress'[t][rows'[t].version] # "stale"
      OBVIOUS
    <3>1. CASE Kept(t)
      BY <3>1 DEF Kept
    <3>2. ASSUME NEW n \in Version, NEW x \in Hashes, Gets(t, n, x)
          PROVE  progress'[t][rows'[t].version] # "stale"
      <4>1. versions[t][n] = None
        BY <3>2, Fresh
      <4> QED BY <3>2, <4>1 DEF Gets
    <3> QED BY <1>2, <3>1, <3>2, SyncEffect
  <2> QED BY <2>1, <2>2, <2>3, <2>4
<1>3. ASSUME UNCHANGED <<rows, versions>>,
             NEW t \in Tasks, NEW v \in Version, versions[t][v] # None,
             progress' = [progress EXCEPT ![t][v] = "solved"],
             \A k \in Checkers : checks'[k] \in {checks[k], None}
      PROVE  HistoryInv'
  <2>1. \A u \in Tasks, w \in Version :
            progress'[u][w] = IF u = t /\ w = v THEN "solved" ELSE progress[u][w]
    BY <1>1, <1>3
  <2> QED BY <1>1, <1>3, <2>1 DEF Row
<1>4. ASSUME NEW k \in Checkers, CheckStores(k) PROVE HistoryInv'
  <2>1. /\ checks[k] \in Reading /\ versions[checks[k].task][checks[k].version] # None
    BY <1>1, <1>4 DEF CheckStores
  <2>2. checks[k].task \in Tasks /\ checks[k].version \in Version
    BY <2>1 DEF Reading
  <2>3. UNCHANGED <<rows, versions>>
        /\ progress' = [progress EXCEPT ![checks[k].task][checks[k].version] = "solved"]
    BY <1>4 DEF CheckStores
  <2>4. \A j \in Checkers : checks'[j] \in {checks[j], None}
    BY <1>1, <1>4 DEF CheckStores
  <2> QED BY <1>3, <2>1, <2>2, <2>3, <2>4
<1>5. CASE Push
  BY <1>1, <1>3, <1>5 DEF Push
<1>6. CASE UNCHANGED dbVars /\ \A k \in Checkers : checks'[k] \in {checks[k], None}
  BY <1>6 DEF dbVars
<1>7. ASSUME NEW k \in Checkers, CheckBegins(k) PROVE HistoryInv'
  <2>1. PICK t \in Tasks : rows[t] # None
            /\ checks' = [checks EXCEPT ![k] = [task |-> t, version |-> rows[t].version]]
    BY <1>7 DEF CheckBegins
  <2>2. UNCHANGED <<rows, versions, progress>>
    BY <1>7 DEF CheckBegins, dbVars
  <2>3. versions[t][rows[t].version] # None
    BY <1>1, <2>1, Sorts DEF Row
  <2> QED BY <1>1, <2>1, <2>2, <2>3
<1>8. UNCHANGED dbVars =>
        \/ \A k \in Checkers : checks'[k] \in {checks[k], None}
        \/ \E k \in Checkers : CheckBegins(k) \/ CheckStores(k)
        \/ Push
  <2>1. ASSUME NEW s \in Savers, Open(s) \/ SaveProceeds(s) PROVE UNCHANGED checks
    BY <2>1, SaveSteps
  <2> QED BY <2>1 DEF Next, vars, SyncTasks, Edit, SetPolicy, Crash, Start
<1> QED BY <1>2, <1>4, <1>5, <1>6, <1>7, <1>8, CatalogueSteps

LEMMA HistoryHolds ==
    ASSUME ContentAssumption
    PROVE  Spec => [](TypeInv /\ HistoryInv)
<1>1. Init => TypeInv /\ HistoryInv
  BY TypeInvInit, HistoryInit
<1>2. TypeInv /\ HistoryInv /\ [Next]_vars => (TypeInv /\ HistoryInv)'
  BY TypeInvStep, HistoryStep
<1> QED BY <1>1, <1>2, PTL DEF Spec

\* A row shows a version of its task's history, with its content, through every
\* sync, save, rollback and crash, for any number of workers; it is the latest
\* one, unless the history mixes SemVer with other strings (sync.py:377-402).
THEOREM RowsAreLatest ==
    ASSUME ContentAssumption
    PROVE  Spec => []RowIsLatest
<1>1. HistoryInv => RowIsLatest
  BY DEF HistoryInv
<1> QED BY <1>1, HistoryHolds, PTL

\* Progress on the current version is never stale, although checks and pushes
\* write to the versions they read some steps before, as long as the task's
\* versions are all SemVer or all other strings (check.py:69).
THEOREM CurrentNeverStale ==
    ASSUME ContentAssumption
    PROVE  Spec => []CurrentIsNotStale
<1>1. HistoryInv => CurrentIsNotStale
  BY DEF HistoryInv
<1> QED BY <1>1, HistoryHolds, PTL

LEMMA CatalogueExtends ==
    ASSUME ContentAssumption, TypeInv, HistoryInv, [Next]_vars
    PROVE  [Catalogue!Publish]_versions
<1>1. CASE Sync
  <2>1. DOMAIN versions' = Tasks
    BY <1>1 DEF Sync
  <2>2. ASSUME NEW t \in Tasks
        PROVE  \/ versions'[t] = versions[t]
               \/ Catalogue!Extends(versions[t], versions'[t])
               \/ Catalogue!Rewrites(versions[t], versions'[t])
    <3>1. CASE Kept(t)
      BY <3>1 DEF Kept
    <3>2. ASSUME NEW n \in Version, NEW x \in Hashes, Gets(t, n, x)
          PROVE  \/ Catalogue!Extends(versions[t], versions'[t])
                 \/ Catalogue!Rewrites(versions[t], versions'[t])
      <4>1. versions'[t] = [versions[t] EXCEPT ![n] = x]
        BY <3>2 DEF Gets
      <4>2. CASE Catalogue!Mixed(versions[t])
        BY <4>1, <4>2 DEF Catalogue!Rewrites, Catalogue!Version, Version
      <4>3. CASE ~Catalogue!Mixed(versions[t])
        <5>1. /\ versions[t][n] = None
              /\ \A w \in Version :
                     versions[t][w] # None /\ Catalogue!Alike(n, w) => Raised(n, w)
          BY <3>2, <4>3, Fresh DEF HistoryInv
        <5>2. \A w \in Version : Raised(n, w) => Catalogue!Later(n, w)
          BY DEF Raised, Catalogue!Later, Catalogue!Semvers, Semvers
        <5> QED BY <4>1, <5>1, <5>2 DEF Catalogue!Extends, Catalogue!Version, Version
      <4> QED BY <4>2, <4>3
    <3> QED BY <1>1, <3>1, <3>2, SyncEffect
  <2> QED BY <2>1, <2>2 DEF Catalogue!Publish
<1>2. CASE UNCHANGED versions
  BY <1>2
<1> QED BY <1>1, <1>2, CatalogueSteps DEF dbVars, CheckStores, Push

\* The catalogue implements ContentVersions: although sync.py:399 writes with
\* INSERT OR REPLACE, a published version is never taken back, and it keeps its
\* content, whatever policies, files, saves and crashes do, as long as the
\* task's versions are all SemVer or all other strings; later ones are then
\* greater.
THEOREM VersionsImplemented ==
    ASSUME ContentAssumption
    PROVE  Spec => ImplementsVersions
<1>1. Init => Catalogue!Init
  BY DEF Init, Catalogue!Init, Catalogue!Unpublished, Catalogue!Version, Version
<1>2. TypeInv /\ HistoryInv /\ [Next]_vars => [Catalogue!Publish]_versions
  BY CatalogueExtends
<1>3. Spec => Catalogue!Init /\ [][Catalogue!Publish]_versions
  BY <1>1, <1>2, HistoryHolds, PTL DEF Spec
<1> QED BY <1>3 DEF ImplementsVersions, Catalogue!Spec

-----------------------------------------------------------------------------
(* A save commits upon the version it was based on.                          *)

\* No task loses its row.
LEMMA RowsStay ==
    ASSUME ContentAssumption, TypeInv, [Next]_vars, NEW t \in Tasks, rows[t] # None
    PROVE  rows'[t] # None
<1>1. CASE Sync
  BY <1>1, SyncEffect DEF Kept, Gets
<1>2. CASE UNCHANGED rows
  BY <1>2
<1> QED BY <1>1, <1>2, CatalogueSteps DEF dbVars, CheckStores, Push

\* Rows move under the lock, or while nobody has it.
LEMMA RowsUnderLock ==
    ASSUME ContentAssumption, TypeInv, [Next]_vars
    PROVE  \/ UNCHANGED rows
           \/ lock = None /\ UNCHANGED saves
           \/ \E s \in Savers : Commit(s)
<1>1. ASSUME NEW s \in Savers, Open(s) \/ SaveProceeds(s) PROVE UNCHANGED rows \/ Commit(s)
  BY <1>1 DEF SaveProceeds, Open, Validate, Lock, LockRefused, Replace, Abort, Restore,
              RestoreFails, Restored, dbVars
<1>2. CASE SyncTasks
  BY <1>2 DEF SyncTasks
<1>3. CASE Start
  BY <1>3 DEF Start, TypeInv, RequestsInv, Busy, At
<1> QED BY <1>1, <1>2, <1>3
        DEF Next, vars, dbVars, CheckBegins, CheckStores, Push, Edit, SetPolicy, Crash

\* A save that goes on keeps what it was opened with.
LEMMA SaveGoesOn ==
    ASSUME ContentAssumption, TypeInv, NEW s \in Savers, SaveProceeds(s)
    PROVE  \/ saves'[s].stage \in {"saved", "restored", "incomplete", "refused"}
           \/ /\ saves[s].stage \in {"open", "validated", "writing", "restoring"}
              /\ saves'[s].task = saves[s].task
              /\ saves'[s].base = saves[s].base
              /\ saves'[s].expected = saves[s].expected
<1>1. saves \in [Savers -> SaveRow] /\ saves[s] \in SaveRow
  BY DEF TypeInv, RequestsInv
<1>2. ASSUME NEW stage \in {"saved", "restored", "incomplete", "refused"}, Becomes(s, Ended(stage))
      PROVE  saves'[s].stage \in {"saved", "restored", "incomplete", "refused"}
  BY <1>1, <1>2, EndedRow DEF Becomes
<1> DEFINE Same3(x) == /\ x.task = saves[s].task /\ x.base = saves[s].base
                       /\ x.expected = saves[s].expected
<1>3. ASSUME NEW x, Becomes(s, x), Same3(x) PROVE Same3(saves'[s])
  BY <1>1, <1>3 DEF Becomes
<1>4. ASSUME NEW c PROVE /\ Same3([saves[s] EXCEPT !.stage = "validated", !.cand = c])
                         /\ Same3([saves[s] EXCEPT !.stage = "writing", !.back = c])
                         /\ Same3([saves[s] EXCEPT !.stage = "restoring", !.next = c])
                         /\ Same3([saves[s] EXCEPT !.next = c])
                         /\ Same3([saves[s] EXCEPT !.next = c, !.whole = FALSE])
                         /\ \A n : Same3([saves[s] EXCEPT !.done = n, !.back = c])
  BY <1>1 DEF SaveRow
<1> HIDE DEF Same3
<1>5. CASE Validate(s)
  <2>1. saves[s].stage = "open"
    BY <1>5 DEF Validate, At
  <2> QED BY <1>2, <1>3, <1>4, <1>5, <2>1, ValidateEffect DEF Same3
<1>6. CASE Lock(s)
  <2>1. saves[s].stage = "validated"
    BY <1>6 DEF Lock, At
  <2> QED BY <1>2, <1>3, <1>4, <1>6, <2>1, LockEffect DEF Same3
<1>7. CASE LockRefused(s) \/ Commit(s) \/ Restored(s)
  BY <1>2, <1>7, EndEffect
<1>8. CASE Replace(s)
  <2>1. saves[s].stage = "writing"
    BY <1>8 DEF Replace, At
  <2>2. PICK n, c : Becomes(s, [saves[s] EXCEPT !.done = n, !.back = c])
    BY <1>8, ReplaceEffect
  <2>3. Same3([saves[s] EXCEPT !.done = n, !.back = c])
    BY <1>4
  <2> QED BY <1>3, <2>1, <2>2, <2>3 DEF Same3
<1>9. CASE Abort(s)
  <2>1. saves[s].stage = "writing"
    BY <1>9 DEF Abort, At
  <2> QED BY <1>3, <1>4, <1>9, <2>1, AbortEffect DEF Same3
<1>10. CASE Restore(s)
  <2>1. saves[s].stage = "restoring"
    BY <1>10 DEF Restore, At
  <2> QED BY <1>3, <1>4, <1>10, <2>1, RestoreEffect DEF Same3
<1>11. CASE RestoreFails(s)
  <2>1. saves[s].stage = "restoring"
    BY <1>11 DEF RestoreFails, At
  <2> QED BY <1>3, <1>4, <1>11, <2>1, RestoreFailsEffect DEF Same3
<1> QED BY <1>5, <1>6, <1>7, <1>8, <1>9, <1>10, <1>11 DEF SaveProceeds

LEMMA BasedStep ==
    ASSUME ContentAssumption, TypeInv, BasedInv, [Next]_vars
    PROVE  BasedInv'
<1> DEFINE At4(x) == x.stage \in {"open", "validated", "writing", "restoring"}
<1>1. SUFFICES ASSUME NEW s \in Savers
      PROVE  /\ At4(saves'[s]) => rows'[saves'[s].task] # None
             /\ saves'[s].stage = "writing" => rows'[saves'[s].task].version = saves'[s].expected
  BY DEF BasedInv, At
<1>2. At4(saves[s]) => saves[s].task \in Tasks /\ rows[saves[s].task] # None
  BY DEF BasedInv, TypeInv, RequestsInv, Knows
<1>3. saves[s].stage = "writing" => lock = s /\ rows[saves[s].task].version = saves[s].expected
  BY DEF BasedInv, TypeInv, RequestsInv, At
<1>4. ASSUME At4(saves[s]), saves'[s].task = saves[s].task PROVE rows'[saves'[s].task] # None
  BY <1>2, <1>4, RowsStay
<1>5. ASSUME saves'[s].stage = "writing", saves[s].stage = "writing",
             saves'[s].task = saves[s].task, saves'[s].expected = saves[s].expected,
             \A r \in Savers : Commit(r) => r = s
      PROVE  rows'[saves'[s].task].version = saves'[s].expected
  <2>1. ~Commit(s)
    BY <1>5, EndedRow DEF Commit, Ends, TypeInv, RequestsInv
  <2> QED BY <1>3, <1>5, <2>1, RowsUnderLock, Sorts
<1>6. \A r \in Savers : Commit(r) => saves[r].stage = "writing" /\ lock = r
  BY DEF Commit, At, TypeInv, RequestsInv
<1>7. CASE saves'[s] = saves[s]
  BY <1>3, <1>4, <1>5, <1>6, <1>7
<1>8. CASE \E r \in Savers \ {s} : Open(r) \/ SaveProceeds(r)
  <2>1. saves'[s] = saves[s]
    BY <1>8, SaveSteps DEF Becomes, TypeInv, RequestsInv
  <2> QED BY <1>7, <2>1
<1>9. CASE Open(s)
  <2>1. PICK t \in Tasks :
          rows[t] # None /\ saves' = [saves EXCEPT ![s] = [Unused EXCEPT !.stage = "open",
              !.task = t, !.base = files[t], !.expected = rows[t].version]]
    BY <1>9, OpenEffect DEF Becomes
  <2>2. saves'[s].stage = "open" /\ saves'[s].task = t
    BY <2>1 DEF TypeInv, RequestsInv, Unused
  <2> QED BY <2>1, <2>2, RowsStay
<1>10. CASE SaveProceeds(s)
  <2>1. ASSUME At4(saves[s]), saves'[s].task = saves[s].task,
               saves'[s].expected = saves[s].expected
        PROVE  saves'[s].stage = "writing" => rows'[saves'[s].task].version = saves'[s].expected
    <3>1. ASSUME saves[s].stage = "writing", saves'[s].stage = "writing"
          PROVE  rows'[saves'[s].task].version = saves'[s].expected
      <4>1. lock = s
        BY <1>3, <3>1
      <4>2. \A r \in Savers : Commit(r) => r = s
        BY <1>6, <4>1
      <4> QED BY <1>5, <2>1, <3>1, <4>2
    <3>2. ASSUME saves[s].stage # "writing", saves'[s].stage = "writing"
          PROVE  Current(s) /\ UNCHANGED rows
      <4>1. lock = None /\ lock' = s
        BY <1>10, <3>2, SaveSteps DEF TypeInv, RequestsInv, At
      <4>2. Lock(s)
        BY <1>10, <4>1, Sorts DEF SaveProceeds, Validate, LockRefused, Replace, Commit, Abort,
                                  Restore, RestoreFails, Restored
      <4> QED BY <3>2, <4>1, <4>2, LockEffect, Sorts DEF Lock, dbVars
    <3> QED BY <2>1, <3>1, <3>2 DEF Current
  <2> QED BY <1>4, <1>10, <2>1, SaveGoesOn
<1>11. CASE Edit
  <2>1. \/ saves'[s] = [saves[s] EXCEPT !.alone = FALSE] /\ UNCHANGED rows
        \/ saves'[s] = saves[s]
    BY <1>11 DEF Edit, dbVars
  <2>2. ASSUME saves'[s] = [saves[s] EXCEPT !.alone = FALSE]
        PROVE  /\ saves'[s].stage = saves[s].stage /\ saves'[s].task = saves[s].task
               /\ saves'[s].expected = saves[s].expected
    BY <2>2 DEF TypeInv, RequestsInv, SaveRow
  <2> QED BY <1>2, <1>3, <1>7, <2>1, <2>2
<1>12. CASE Crash
  <2>1. saves'[s] = saves[s] \/ saves'[s] = Ended("crashed")
    BY <1>12 DEF Crash
  <2> QED BY <1>7, <2>1, EndedRow
<1>13. CASE SyncTasks \/ Push \/ SetPolicy \/ Start \/ UNCHANGED vars
            \/ \E k \in Checkers : CheckBegins(k) \/ CheckStores(k)
  BY <1>7, <1>13 DEF SyncTasks, Push, SetPolicy, Start, vars, CheckBegins, CheckStores
<1> QED BY <1>7, <1>8, <1>9, <1>10, <1>11, <1>12, <1>13 DEF Next

\* A save commits only upon the version it was based on: no other save or sync
\* of the task has been committed in between, for any number of workers
\* (admin.py:1331-1358).
THEOREM SavesBuildUpon ==
    ASSUME ContentAssumption
    PROVE  Spec => [][SavesBuild]_vars
<1>1. Init => BasedInv
  BY DEF Init, BasedInv, At, Unused
<1>2. TypeInv /\ BasedInv /\ [Next]_vars => BasedInv'
  BY BasedStep
<1>3. BasedInv => SavesBuild
  BY DEF BasedInv, SavesBuild
<1> QED BY <1>1, <1>2, <1>3, HistoryHolds, PTL DEF Spec

-----------------------------------------------------------------------------
(* One worker process: what a save makes of the files, step by step.         *)

LEMMA WellValidated ==
    ASSUME NEW x, NEW c, Knows(x), x.stage = "open", x.alone, x.whole,
           c # x.base => Raised(VersionOf(c), x.expected)
    PROVE  Well([x EXCEPT !.stage = "validated", !.cand = c], x.base)
<1> DEFINE y == [x EXCEPT !.stage = "validated", !.cand = c]
<1>1. x \in SaveRow /\ x.done = 0 /\ x.next = 0 /\ x.base \in Contents
  BY DEF Knows
<1>2. /\ y.stage = "validated" /\ y.cand = c /\ y.base = x.base /\ y.expected = x.expected
      /\ y.done = 0 /\ y.next = 0
  BY <1>1 DEF SaveRow
<1>3. y.whole = x.whole
  BY <1>1 DEF SaveRow
<1> HIDE DEF y
<1>4. LeftBy(y) = x.base
  BY <1>1, <1>2 DEF LeftBy, Left, Contents
<1>5. Well(y, x.base)
  BY <1>2, <1>3, <1>4 DEF Well
<1> QED BY <1>5 DEF y

LEMMA WellWriting ==
    ASSUME NEW x, Knows(x), x.stage = "validated", Well(x, x.base)
    PROVE  Well([x EXCEPT !.stage = "writing", !.back = x.base], x.base)
<1> DEFINE y == [x EXCEPT !.stage = "writing", !.back = x.base]
<1>1. x \in SaveRow
  BY DEF Knows
<1>2. /\ y.stage = "writing" /\ y.cand = x.cand /\ y.base = x.base /\ y.expected = x.expected
      /\ y.done = x.done /\ y.next = x.next /\ y.back = x.base
  BY <1>1 DEF SaveRow
<1>3. y.whole = x.whole /\ y.alone = x.alone
  BY <1>1 DEF SaveRow
<1> HIDE DEF y
<1>4. LeftBy(y) = LeftBy(x)
  BY <1>2 DEF LeftBy, Left
<1>5. Well(y, x.base)
  BY <1>2, <1>3, <1>4 DEF Well
<1> QED BY <1>5 DEF y

LEMMA WellReplaced ==
    ASSUME NEW x, NEW f \in Contents, Knows(x), x.stage = "writing", x.done < 3, Well(x, f)
    PROVE  Well([x EXCEPT !.done = x.done + 1,
                          !.back = [x.back EXCEPT ![Parts[x.done + 1]] = f[Parts[x.done + 1]]]],
                [f EXCEPT ![Parts[x.done + 1]] = x.cand[Parts[x.done + 1]]])
<1>1. x \in SaveRow /\ x.base \in Contents /\ x.cand \in Contents /\ x.back \in Contents
      /\ x.done \in 0..2 /\ x.next = 0
  BY DEF Knows, SaveRow
<1>2. PICK n \in 1..3 : n = x.done + 1
  BY <1>1
<1>3. PICK g : g = [f EXCEPT ![Parts[n]] = x.cand[Parts[n]]]
  OBVIOUS
<1>4. PICK b : b = [x.back EXCEPT ![Parts[n]] = f[Parts[n]]]
  OBVIOUS
<1>5. PICK y : y = [x EXCEPT !.done = n, !.back = b]
  OBVIOUS
<1>6. /\ y.stage = "writing" /\ y.cand = x.cand /\ y.base = x.base /\ y.expected = x.expected
      /\ y.done = n /\ y.next = 0 /\ y.back = b
  BY <1>1, <1>5 DEF SaveRow
<1>7. y.whole = x.whole /\ y.alone = x.alone
  BY <1>1, <1>5 DEF SaveRow
<1>8. ASSUME f = LeftBy(x) PROVE g = LeftBy(y)
  <2>1. g = [md |-> IF n = 1 THEN x.cand.md ELSE f.md,
             solution |-> IF n = 2 THEN x.cand.solution ELSE f.solution,
             tests |-> IF n = 3 THEN x.cand.tests ELSE f.tests]
    BY <1>1, <1>3, PartPut
  <2> QED BY <1>1, <1>2, <1>6, <1>8, <2>1 DEF LeftBy, Left
<1>9. ASSUME f = LeftBy(x), x.back = x.base PROVE b = x.base
  <2>1. b = [md |-> IF n = 1 THEN f.md ELSE x.back.md,
             solution |-> IF n = 2 THEN f.solution ELSE x.back.solution,
             tests |-> IF n = 3 THEN f.tests ELSE x.back.tests]
    BY <1>1, <1>4, PartPut
  <2> QED BY <1>1, <1>2, <1>9, <2>1 DEF LeftBy, Left, Contents
<1>10. Well(y, g)
  BY <1>6, <1>7, <1>8, <1>9 DEF Well
<1> QED BY <1>2, <1>3, <1>4, <1>5, <1>10

LEMMA WellRestoring ==
    ASSUME NEW x, NEW f, Knows(x), x.stage = "writing", Well(x, f)
    PROVE  Well([x EXCEPT !.stage = "restoring", !.next = 1], f)
<1> DEFINE y == [x EXCEPT !.stage = "restoring", !.next = 1]
<1>1. x \in SaveRow /\ x.next = 0
  BY DEF Knows
<1>2. /\ y.stage = "restoring" /\ y.cand = x.cand /\ y.base = x.base /\ y.expected = x.expected
      /\ y.done = x.done /\ y.next = 1 /\ y.back = x.back
  BY <1>1 DEF SaveRow
<1>3. y.whole = x.whole /\ y.alone = x.alone
  BY <1>1 DEF SaveRow
<1> HIDE DEF y
<1>4. LeftBy(y) = LeftBy(x)
  BY <1>1, <1>2 DEF LeftBy, Left
<1>5. Well(y, f)
  BY <1>2, <1>3, <1>4 DEF Well
<1> QED BY <1>5 DEF y

LEMMA WellRestored ==
    ASSUME NEW x, NEW f \in Contents, Knows(x), x.stage = "restoring", x.next <= x.done, Well(x, f)
    PROVE  Well([x EXCEPT !.next = x.next + 1],
                [f EXCEPT ![Parts[x.next]] = x.back[Parts[x.next]]])
<1>1. x \in SaveRow /\ x.base \in Contents /\ x.cand \in Contents /\ x.back \in Contents
      /\ x.done \in 0..3 /\ x.next \in 1..3
  BY DEF Knows, SaveRow
<1>2. PICK n \in 1..3 : n = x.next
  BY <1>1
<1>3. PICK g : g = [f EXCEPT ![Parts[n]] = x.back[Parts[n]]]
  OBVIOUS
<1>4. PICK y : y = [x EXCEPT !.next = n + 1]
  OBVIOUS
<1>5. /\ y.stage = "restoring" /\ y.cand = x.cand /\ y.base = x.base /\ y.expected = x.expected
      /\ y.done = x.done /\ y.next = n + 1 /\ y.back = x.back
  BY <1>1, <1>4 DEF SaveRow
<1>6. y.whole = x.whole /\ y.alone = x.alone
  BY <1>1, <1>4 DEF SaveRow
<1>7. ASSUME f = LeftBy(x), x.back = x.base PROVE g = LeftBy(y)
  <2>1. g = [md |-> IF n = 1 THEN x.back.md ELSE f.md,
             solution |-> IF n = 2 THEN x.back.solution ELSE f.solution,
             tests |-> IF n = 3 THEN x.back.tests ELSE f.tests]
    BY <1>1, <1>3, PartPut
  <2> QED BY <1>1, <1>2, <1>5, <1>7, <2>1 DEF LeftBy, Left
<1>8. Well(y, g)
  BY <1>5, <1>6, <1>7 DEF Well
<1> QED BY <1>2, <1>3, <1>4, <1>8

LEMMA WellLost ==
    ASSUME NEW x, NEW f, Knows(x), x.stage = "restoring", Well(x, f)
    PROVE  Well([x EXCEPT !.next = x.next + 1, !.whole = FALSE], f)
<1> DEFINE y == [x EXCEPT !.next = x.next + 1, !.whole = FALSE]
<1>1. x \in SaveRow
  BY DEF Knows
<1>2. /\ y.stage = "restoring" /\ y.cand = x.cand /\ y.base = x.base /\ y.expected = x.expected
      /\ y.back = x.back
  BY <1>1 DEF SaveRow
<1>3. ~y.whole /\ y.alone = x.alone
  BY <1>1 DEF SaveRow
<1> HIDE DEF y
<1>4. Well(y, f)
  BY <1>2, <1>3 DEF Well
<1> QED BY <1>4 DEF y

LEMMA WellEdited ==
    ASSUME NEW x, NEW f, NEW g, Knows(x), Well(x, f)
    PROVE  Well([x EXCEPT !.alone = FALSE], g)
<1> DEFINE y == [x EXCEPT !.alone = FALSE]
<1>1. x \in SaveRow
  BY DEF Knows
<1>2. /\ y.stage = x.stage /\ y.cand = x.cand /\ y.base = x.base /\ y.expected = x.expected
  BY <1>1 DEF SaveRow
<1>3. ~y.alone /\ y.whole = x.whole
  BY <1>1 DEF SaveRow
<1> HIDE DEF y
<1>4. Well(y, g)
  BY <1>2, <1>3 DEF Well
<1> QED BY <1>4 DEF y

\* What a save leaves that has replaced nothing, or has put all back.
LEMMA NothingLeft ==
    ASSUME NEW x, NEW f, Knows(x), Well(x, f), x.alone, x.whole,
           x.stage \in {"open", "validated", "writing", "restoring"},
           x.done = 0 \/ x.next > x.done
    PROVE  f = x.base
<1>1. x \in SaveRow /\ x.base \in Contents /\ x.done \in 0..3 /\ x.next \in 0..4
  BY DEF Knows, SaveRow
<1>2. \A i \in 1..3 : ~(x.next <= i /\ i <= x.done) 
  BY <1>1
<1>3. LeftBy(x) = x.base
  BY <1>1, <1>2 DEF LeftBy, Left, Contents
<1> QED BY <1>3 DEF Well

\* What a crash leaves of a save that was writing: the files as they were, or a
\* markdown with a later version.
LEMMA CrashLeaves ==
    ASSUME NEW x, NEW f, Knows(x), Well(x, f), x.alone, x.whole,
           x.stage \in {"validated", "writing"}
    PROVE  f = x.base \/ Raised(VersionOf(f), x.expected)
<1>1. x \in SaveRow /\ x.base \in Contents /\ x.cand \in Contents /\ x.done \in 0..3 /\ x.next = 0
  BY DEF Knows, SaveRow
<1>2. CASE x.done = 0
  BY <1>2, NothingLeft
<1>3. ASSUME x.done # 0 PROVE VersionOf(f) = VersionOf(x.cand)
  <2>1. f.md = x.cand.md
    BY <1>1, <1>3 DEF Well, LeftBy, Left
  <2> QED BY <2>1 DEF VersionOf
<1>4. CASE x.cand = x.base
  <2>1. LeftBy(x) = x.base
    BY <1>1, <1>4 DEF LeftBy, Left, Contents
  <2> QED BY <2>1 DEF Well
<1> QED BY <1>2, <1>3, <1>4 DEF Well

\* One request is served at a time.
LEMMA FreeAlone ==
    ASSUME OneWorker, Free
    PROVE  Busy = {}
<1>1. IsFiniteSet(Busy)
  BY FS_Subset DEF OneWorker, Busy
<1>2. Cardinality(Busy) \in Nat /\ Cardinality(Busy) < 1
  BY <1>1, FS_CardinalityType DEF OneWorker, Free
<1> QED BY <1>1, <1>2, FS_EmptySet

\* In "declare" policy, the same is what is published.
LEMMA SameIsPublished ==
    ASSUME ContentAssumption, TypeInv, policy = "declare", NEW t \in Tasks
    PROVE  Same(t) <=> rows[t] = Publication(files[t])
<1>1. Publication(files[t]) \in Row
  BY Sound, HashType DEF TypeInv, Publication, Row
<1>2. Publication(files[t]) # None
  BY <1>1, Sorts
<1>3. rows[t] # None => rows[t] \in Row
  BY Sound DEF TypeInv
<1> QED BY <1>1, <1>2, <1>3 DEF Same, Publication, Row

\* A sync without errors leaves every task as its files say.
LEMMA SyncedSame ==
    ASSUME ContentAssumption, TypeInv, Sync, Errors = {}, UNCHANGED <<files, policy>>, NEW t \in Tasks
    PROVE  /\ Same(t)'
           /\ policy = "declare" => rows'[t] = Publication(files[t])
<1>1. ~Wrong(t)
  BY DEF Errors
<1>2. CASE Same(t)
  <2>1. rows'[t] = rows[t]
    BY <1>2 DEF Sync, Synced
  <2> QED BY <1>2, <2>1, SameIsPublished DEF Same
<1>3. CASE ~Same(t)
  <2>1. rows'[t] = [version |-> NewVersion(t), hash |-> Hash(files[t])]
    BY <1>1, <1>3 DEF Sync, Synced
  <2>2. [version |-> NewVersion(t), hash |-> Hash(files[t])] \in Row
    BY <1>1, <1>3, Sound, HashType DEF TypeInv, Synced, Row
  <2>3. rows'[t] # None /\ rows'[t].hash = Hash(files[t]) /\ rows'[t].version = NewVersion(t)
    BY <2>1, <2>2, Sorts
  <2>4. policy # "auto_minor" => NewVersion(t) = VersionOf(files[t])
    BY DEF NewVersion
  <2> QED BY <2>1, <2>3, <2>4 DEF Same, Publication
<1> QED BY <1>2, <1>3

\* A step of a save that is at work after it.
WellDone(s) ==
    /\ Well(saves'[s], files'[saves[s].task])
    /\ saves'[s].task = saves[s].task /\ saves'[s].base = saves[s].base
    /\ saves'[s].alone = saves[s].alone
    /\ rows[saves[s].task].version = saves'[s].expected
    /\ UNCHANGED rows
    /\ \A t \in Tasks : t # saves[s].task => files'[t] = files[t]
    /\ \/ saves'[s].whole = saves[s].whole /\ UNCHANGED <<quiet, spoilt>>
       \/ quiet' = FALSE /\ spoilt' = TRUE

LEMMA WellStep ==
    ASSUME ContentAssumption, TypeInv, SaveInv, NEW s \in Savers, SaveProceeds(s), s \in Busy'
    PROVE  WellDone(s) /\ (s \in Busy \/ Validate(s))
<1>1. saves \in [Savers -> SaveRow] /\ saves[s] \in SaveRow /\ Knows(saves[s])
      /\ files \in [Tasks -> Contents]
  BY DEF TypeInv, RequestsInv, FilesInv
<1>2. saves'[s].stage \in {"validated", "writing", "restoring"}
  BY DEF Busy
<1>3. ASSUME NEW stage \in {"saved", "restored", "incomplete", "refused"}, Becomes(s, Ended(stage))
      PROVE  FALSE
  BY <1>1, <1>2, <1>3, EndedRow DEF Becomes
<1>4. CASE Validate(s)
  <2>1. PICK c \in Contents : /\ c # saves[s].base => Raised(VersionOf(c), saves[s].expected)
                             /\ Becomes(s, [saves[s] EXCEPT !.stage = "validated", !.cand = c])
    BY <1>3, <1>4, ValidateEffect
  <2>2. /\ Current(s) /\ saves[s].stage = "open"
        /\ UNCHANGED <<rows, files, quiet, spoilt>>
    BY <1>3, <1>4, ValidateEffect DEF Validate, At, dbVars, histVars
  <2>3. saves[s].alone /\ saves[s].whole
    BY <2>2 DEF SaveInv
  <2>4. Well(saves'[s], saves[s].base)
    BY <1>1, <2>1, <2>2, <2>3, WellValidated DEF Becomes
  <2>5. /\ saves'[s].task = saves[s].task /\ saves'[s].base = saves[s].base
        /\ saves'[s].expected = saves[s].expected
    BY <1>1, <2>1 DEF Becomes, SaveRow
  <2>6. saves'[s].alone = saves[s].alone /\ saves'[s].whole = saves[s].whole
    BY <1>1, <2>1 DEF Becomes, SaveRow
  <2>7. files'[saves[s].task] = saves[s].base /\ rows[saves[s].task].version = saves[s].expected
    BY <2>2 DEF Current
  <2> QED BY <1>4, <2>2, <2>4, <2>5, <2>6, <2>7 DEF WellDone
<1>5. ASSUME ~Validate(s)
      PROVE  /\ s \in Busy /\ saves[s].task \in Tasks /\ saves[s].base \in Contents
             /\ Well(saves[s], files[saves[s].task])
             /\ rows[saves[s].task].version = saves[s].expected
  <2>1. s \in Busy
    BY <1>5 DEF SaveProceeds, Lock, LockRefused, Replace, Commit, Abort, Restore, RestoreFails,
                Restored, At, Busy
  <2> QED BY <1>1, <2>1 DEF SaveInv, Busy, Knows
<1>6. CASE Lock(s)
  <2>1. saves[s].stage = "validated" /\ UNCHANGED <<rows, files, quiet, spoilt>>
    BY <1>6 DEF Lock, At, dbVars, histVars
  <2>2. /\ Current(s)
        /\ Becomes(s, [saves[s] EXCEPT !.stage = "writing", !.back = files[saves[s].task]])
    BY <1>3, <1>6, LockEffect
  <2>3. files[saves[s].task] = saves[s].base
    BY <2>2 DEF Current
  <2>4. ~Validate(s)
    BY <2>1 DEF Validate, At
  <2>5. Well(saves'[s], saves[s].base)
    BY <1>1, <1>5, <2>1, <2>2, <2>3, <2>4, WellWriting DEF Becomes
  <2>6. /\ saves'[s].task = saves[s].task /\ saves'[s].base = saves[s].base
        /\ saves'[s].expected = saves[s].expected
    BY <1>1, <2>2 DEF Becomes, SaveRow
  <2>7. saves'[s].alone = saves[s].alone /\ saves'[s].whole = saves[s].whole
    BY <1>1, <2>2 DEF Becomes, SaveRow
  <2> QED BY <1>5, <2>1, <2>3, <2>4, <2>5, <2>6, <2>7 DEF WellDone
<1>7. ASSUME NEW n \in 1..3, NEW c, Puts(s, n, c), saves[s].task \in Tasks
      PROVE  /\ files'[saves[s].task] = [files[saves[s].task] EXCEPT ![Parts[n]] = c[Parts[n]]]
             /\ \A t \in Tasks : t # saves[s].task => files'[t] = files[t]
  BY <1>1, <1>7 DEF Puts
<1>8. CASE Replace(s)
  <2>1. /\ saves[s].stage = "writing" /\ saves[s].done < 3 /\ saves[s].done + 1 \in 1..3
        /\ UNCHANGED <<rows, quiet, spoilt>>
    BY <1>1, <1>8 DEF Replace, At, dbVars, SaveRow
  <2>2. ~Validate(s)
    BY <2>1 DEF Validate, At
  <2>3. PICK b : b = [saves[s].back EXCEPT ![Parts[saves[s].done + 1]]
                          = files[saves[s].task][Parts[saves[s].done + 1]]]
    OBVIOUS
  <2>4. saves' = [saves EXCEPT ![s] = [saves[s] EXCEPT !.done = saves[s].done + 1, !.back = b]]
    BY <1>8, <2>3, ReplaceEffect DEF Becomes
  <2>5. Well([saves[s] EXCEPT !.done = saves[s].done + 1, !.back = b],
             [files[saves[s].task] EXCEPT ![Parts[saves[s].done + 1]]
                  = saves[s].cand[Parts[saves[s].done + 1]]])
    <3>1. files[saves[s].task] \in Contents
      BY <1>1, <1>5, <2>2
    <3> QED BY <1>1, <1>5, <2>1, <2>2, <2>3, <3>1, WellReplaced
  <2>6. /\ files'[saves[s].task] = [files[saves[s].task] EXCEPT ![Parts[saves[s].done + 1]]
                                        = saves[s].cand[Parts[saves[s].done + 1]]]
        /\ \A t \in Tasks : t # saves[s].task => files'[t] = files[t]
    BY <1>5, <1>7, <1>8, <2>1, <2>2, ReplaceEffect
  <2>7. /\ saves'[s].task = saves[s].task /\ saves'[s].base = saves[s].base
        /\ saves'[s].expected = saves[s].expected
    BY <1>1, <2>4 DEF SaveRow
  <2>8. saves'[s].alone = saves[s].alone /\ saves'[s].whole = saves[s].whole
    BY <1>1, <2>4 DEF SaveRow
  <2>9. Well(saves'[s], files'[saves[s].task])
    BY <1>1, <2>4, <2>5, <2>6
  <2> QED BY <1>5, <2>1, <2>2, <2>6, <2>7, <2>8, <2>9 DEF WellDone
<1>9. CASE Abort(s)
  <2>1. /\ saves[s].stage = "writing" /\ UNCHANGED <<rows, files, quiet, spoilt>>
    BY <1>9 DEF Abort, At, dbVars, histVars
  <2>2. ~Validate(s)
    BY <2>1 DEF Validate, At
  <2>3. saves' = [saves EXCEPT ![s] = [saves[s] EXCEPT !.stage = "restoring", !.next = 1]]
    BY <1>9, AbortEffect DEF Becomes
  <2>4. Well(saves'[s], files[saves[s].task])
    BY <1>1, <1>5, <2>1, <2>2, <2>3, WellRestoring
  <2>5. /\ saves'[s].task = saves[s].task /\ saves'[s].base = saves[s].base
        /\ saves'[s].expected = saves[s].expected
    BY <1>1, <2>3 DEF SaveRow
  <2>6. saves'[s].alone = saves[s].alone /\ saves'[s].whole = saves[s].whole
    BY <1>1, <2>3 DEF SaveRow
  <2> QED BY <1>5, <2>1, <2>2, <2>4, <2>5, <2>6 DEF WellDone
<1>10. CASE Restore(s)
  <2>1. /\ saves[s].stage = "restoring" /\ saves[s].next <= saves[s].done /\ saves[s].next \in 1..3
        /\ UNCHANGED <<rows, quiet, spoilt>>
    BY <1>1, <1>10 DEF Restore, At, dbVars, histVars, Knows, SaveRow
  <2>2. ~Validate(s)
    BY <2>1 DEF Validate, At
  <2>3. saves' = [saves EXCEPT ![s] = [saves[s] EXCEPT !.next = saves[s].next + 1]]
    BY <1>10, RestoreEffect DEF Becomes
  <2>4. Well([saves[s] EXCEPT !.next = saves[s].next + 1],
             [files[saves[s].task] EXCEPT ![Parts[saves[s].next]] = saves[s].back[Parts[saves[s].next]]])
    <3>1. files[saves[s].task] \in Contents
      BY <1>1, <1>5, <2>2
    <3> QED BY <1>1, <1>5, <2>1, <2>2, <3>1, WellRestored
  <2>5. /\ files'[saves[s].task] = [files[saves[s].task] EXCEPT ![Parts[saves[s].next]]
                                        = saves[s].back[Parts[saves[s].next]]]
        /\ \A t \in Tasks : t # saves[s].task => files'[t] = files[t]
    BY <1>5, <1>7, <1>10, <2>1, <2>2, RestoreEffect
  <2>6. /\ saves'[s].task = saves[s].task /\ saves'[s].base = saves[s].base
        /\ saves'[s].expected = saves[s].expected
    BY <1>1, <2>3 DEF SaveRow
  <2>7. saves'[s].alone = saves[s].alone /\ saves'[s].whole = saves[s].whole
    BY <1>1, <2>3 DEF SaveRow
  <2>8. Well(saves'[s], files'[saves[s].task])
    BY <1>1, <2>3, <2>4, <2>5
  <2> QED BY <1>5, <2>1, <2>2, <2>5, <2>6, <2>7, <2>8 DEF WellDone
<1>11. CASE RestoreFails(s)
  <2>1. /\ saves[s].stage = "restoring" /\ quiet' = FALSE /\ spoilt' = TRUE
        /\ UNCHANGED <<rows, files>>
    BY <1>11 DEF RestoreFails, At, dbVars
  <2>2. ~Validate(s)
    BY <2>1 DEF Validate, At
  <2>3. saves' = [saves EXCEPT ![s] = [saves[s] EXCEPT !.next = saves[s].next + 1, !.whole = FALSE]]
    BY <1>11, RestoreFailsEffect DEF Becomes
  <2>4. Well(saves'[s], files[saves[s].task])
    BY <1>1, <1>5, <2>1, <2>2, <2>3, WellLost
  <2>5. /\ saves'[s].task = saves[s].task /\ saves'[s].base = saves[s].base
        /\ saves'[s].expected = saves[s].expected
    BY <1>1, <2>3 DEF SaveRow
  <2>6. saves'[s].alone = saves[s].alone
    BY <1>1, <2>3 DEF SaveRow
  <2> QED BY <1>5, <2>1, <2>2, <2>4, <2>5, <2>6 DEF WellDone
<1>12. CASE LockRefused(s) \/ Commit(s) \/ Restored(s)
  BY <1>3, <1>12, EndEffect
<1> QED BY <1>4, <1>6, <1>8, <1>9, <1>10, <1>11, <1>12 DEF SaveProceeds

\* Nobody is at work, and the files are those that were published.
LEMMA Quiescent ==
    ASSUME Busy' = {}, \A r \in Savers : saves'[r].stage \in {"unused", "open"}
                           => saves'[r].alone /\ saves'[r].whole,
           quiet' /\ policy' = "declare" => \A t \in Tasks : rows'[t] = Publication(files'[t]),
           ~spoilt' /\ up' => \A t \in Tasks : Same(t)',
           ~spoilt' /\ ~up' => Errors' = {}
    PROVE  FilesKept'
BY DEF FilesKept, OneBusy, SaveInv, QuietInv, StartInv, AtRest

LEMMA KeptAtWork ==
    ASSUME ContentAssumption, OneWorker, TypeInv, BasedInv, FilesKept,
           NEW s \in Savers, SaveProceeds(s), s \in Busy'
    PROVE  FilesKept'
<1>1. WellDone(s) /\ (s \in Busy \/ Validate(s))
  BY WellStep DEF FilesKept
<1>2. \A r \in Savers : r # s => saves'[r] = saves[r]
  BY SaveSteps DEF Becomes, TypeInv, RequestsInv
<1>3. Validate(s) => Free
  BY DEF Validate
<1>4. Busy \subseteq {s}
  BY <1>1, <1>3, FreeAlone DEF FilesKept, OneBusy
<1>5. Busy' = {s}
  BY <1>2, <1>4 DEF Busy
<1>6. /\ saves[s].task \in Tasks /\ up /\ UNCHANGED <<up, policy>>
      /\ Validate(s) => policy = "declare" /\ files[saves[s].task] = saves[s].base
                        /\ saves[s].alone /\ saves[s].whole
  <2>1. up /\ UNCHANGED <<up, policy>>
    BY SaveSteps
  <2>2. saves[s].task \in Tasks
    BY <1>1 DEF TypeInv, RequestsInv, Knows, Busy, Validate, At
  <2>3. ASSUME Validate(s) PROVE policy = "declare" /\ Current(s)
    <3>1. ~Becomes(s, Ended("refused"))
      BY <1>5, EndedRow DEF Becomes, Busy, TypeInv, RequestsInv
    <3> QED BY <2>3, <3>1, ValidateEffect
  <2>4. Validate(s) => saves[s].alone /\ saves[s].whole
    BY DEF Validate, At, FilesKept, SaveInv
  <2> QED BY <2>1, <2>2, <2>3, <2>4 DEF Current
<1>7. SaveInv'
  <2>1. \A r \in Savers : saves'[r].stage \in {"unused", "open"} => saves'[r].alone /\ saves'[r].whole
    BY <1>2, <1>5 DEF FilesKept, SaveInv, Busy
  <2> QED BY <1>1, <1>5, <2>1 DEF SaveInv, WellDone
<1>8. \A t \in Tasks : (\A r \in Busy' : saves'[r].task # t) =>
        AtRest(t) /\ files'[t] = files[t] /\ rows'[t] = rows[t]
  BY <1>1, <1>4, <1>5 DEF AtRest, WellDone
<1>9. s \notin Busy => Busy = {} /\ AtRest(saves[s].task)
  BY <1>4 DEF AtRest
<1>10. ASSUME quiet', policy' = "declare"
       PROVE  /\ saves'[s].alone /\ saves'[s].whole
              /\ rows'[saves'[s].task] = Publication(saves'[s].base)
              /\ \A t \in Tasks : (\A r \in Busy' : saves'[r].task # t)
                                      => rows'[t] = Publication(files'[t])
  <2>1. quiet /\ saves'[s].whole = saves[s].whole /\ policy = "declare"
    BY <1>1, <1>6, <1>10 DEF WellDone
  <2>2. /\ saves[s].alone /\ saves[s].whole
        /\ rows[saves[s].task] = Publication(saves[s].base)
    BY <1>1, <1>6, <1>9, <2>1 DEF FilesKept, QuietInv
  <2> QED BY <1>1, <1>8, <2>1, <2>2 DEF FilesKept, QuietInv, WellDone
<1>11. ASSUME ~spoilt'
       PROVE  /\ saves'[s].alone /\ saves'[s].whole /\ policy = "declare"
              /\ rows'[saves'[s].task] = Publication(saves'[s].base)
              /\ \A t \in Tasks : (\A r \in Busy' : saves'[r].task # t) => Same(t)'
  <2>1. ~spoilt /\ saves'[s].whole = saves[s].whole
    BY <1>1, <1>11 DEF WellDone
  <2>2. CASE s \in Busy
    <3>1. /\ saves[s].alone /\ saves[s].whole /\ policy = "declare"
          /\ rows[saves[s].task] = Publication(saves[s].base)
      BY <2>1, <2>2 DEF FilesKept, StartInv
    <3>2. \A t \in Tasks : AtRest(t) => Same(t)
      BY <1>6, <2>1 DEF FilesKept, StartInv
    <3> QED BY <1>1, <1>6, <1>8, <2>1, <3>1, <3>2 DEF WellDone, Same
  <2>3. CASE s \notin Busy
    <3>1. \A t \in Tasks : AtRest(t) => Same(t)
      BY <1>6, <2>1 DEF FilesKept, StartInv
    <3>2. /\ saves[s].alone /\ saves[s].whole /\ policy = "declare"
          /\ rows[saves[s].task] = Publication(saves[s].base)
      BY <1>1, <1>6, <1>9, <2>3, <3>1, SameIsPublished
    <3> QED BY <1>1, <1>6, <1>8, <2>1, <3>1, <3>2 DEF WellDone, Same
  <2> QED BY <2>2, <2>3
<1>12. QuietInv'
  BY <1>5, <1>10 DEF QuietInv, AtRest
<1>13. StartInv'
  BY <1>5, <1>6, <1>11 DEF StartInv, AtRest
<1>14. OneBusy'
  BY <1>5 DEF OneBusy
<1> QED BY <1>7, <1>12, <1>13, <1>14 DEF FilesKept

LEMMA KeptAtEnd ==
    ASSUME ContentAssumption, OneWorker, TypeInv, BasedInv, FilesKept,
           NEW s \in Savers, SaveProceeds(s), s \notin Busy'
    PROVE  FilesKept'
<1>1. Validate(s) \/ Lock(s) \/ LockRefused(s) \/ Commit(s) \/ Restored(s)
  <2>1. ASSUME NEW x, Becomes(s, x), x.stage \in {"writing", "restoring"} PROVE FALSE
    BY <2>1 DEF Becomes, Busy, TypeInv, RequestsInv
  <2>2. saves[s] \in SaveRow
    BY DEF TypeInv, RequestsInv
  <2>3. ~Replace(s)
    <3>1. ASSUME NEW n, NEW b PROVE [saves[s] EXCEPT !.done = n, !.back = b].stage = saves[s].stage
      BY <2>2 DEF SaveRow
    <3>2. ASSUME Replace(s)
          PROVE  \E n, b : Becomes(s, [saves[s] EXCEPT !.done = n, !.back = b])
      BY <3>2, ReplaceEffect
    <3>3. Replace(s) => saves[s].stage = "writing"
      BY DEF Replace, At
    <3> QED BY <2>1, <3>1, <3>2, <3>3
  <2>4. ~Abort(s)
    <3>1. [saves[s] EXCEPT !.stage = "restoring", !.next = 1].stage = "restoring"
      BY <2>2 DEF SaveRow
    <3> QED BY <2>1, <3>1, AbortEffect
  <2>5. ~Restore(s)
    <3>1. ASSUME NEW n PROVE [saves[s] EXCEPT !.next = n].stage = saves[s].stage
      BY <2>2 DEF SaveRow
    <3> QED BY <2>1, <3>1, RestoreEffect DEF Restore, At
  <2>6. ~RestoreFails(s)
    <3>1. ASSUME NEW n PROVE [saves[s] EXCEPT !.next = n, !.whole = FALSE].stage = saves[s].stage
      BY <2>2 DEF SaveRow
    <3> QED BY <2>1, <3>1, RestoreFailsEffect DEF RestoreFails, At
  <2> QED BY <2>3, <2>4, <2>5, <2>6 DEF SaveProceeds
<1>2. \A r \in Savers : r # s => saves'[r] = saves[r]
  BY SaveSteps DEF Becomes, TypeInv, RequestsInv
<1>3. Busy \subseteq {s} /\ Busy' = {}
  <2>1. s \in Busy \/ Busy = {}
    BY <1>1, FreeAlone DEF Validate, Lock, LockRefused, Commit, Restored, At, Busy
  <2>2. Busy \subseteq {s}
    BY <2>1 DEF FilesKept, OneBusy
  <2> QED BY <1>2, <2>2 DEF Busy
<1>4. \E stage \in {"saved", "restored", "incomplete", "refused"} : Becomes(s, Ended(stage))
  <2>1. ASSUME NEW x, Becomes(s, x), x.stage \in {"validated", "writing"} PROVE FALSE
    BY <2>1 DEF Becomes, Busy, TypeInv, RequestsInv
  <2>2. saves[s] \in SaveRow
    BY DEF TypeInv, RequestsInv
  <2>3. ASSUME NEW c PROVE /\ [saves[s] EXCEPT !.stage = "validated", !.cand = c].stage = "validated"
                           /\ [saves[s] EXCEPT !.stage = "writing", !.back = c].stage = "writing"
    BY <2>2 DEF SaveRow
  <2>4. CASE Validate(s)
    BY <2>1, <2>3, <2>4, ValidateEffect
  <2>5. CASE Lock(s)
    BY <2>1, <2>3, <2>5, LockEffect
  <2> QED BY <1>1, <2>4, <2>5, EndEffect
<1>5. \A r \in Savers : saves'[r].stage \in {"unused", "open"} => saves'[r].alone /\ saves'[r].whole
  <2>1. saves'[s].stage \notin {"unused", "open"}
    BY <1>4, EndedRow DEF Becomes, TypeInv, RequestsInv
  <2> QED BY <1>2, <2>1 DEF FilesKept, SaveInv
<1>6. up /\ UNCHANGED <<up, policy>>
  BY SaveSteps
<1>7. CASE Commit(s)
  <2>1. Sync /\ Errors = {} /\ UNCHANGED <<files, policy>>
    BY <1>7 DEF Commit, Verified
  <2>2. \A t \in Tasks : Same(t)' /\ (policy = "declare" => rows'[t] = Publication(files[t]))
    BY <2>1, SyncedSame
  <2> QED BY <1>3, <1>5, <1>6, <2>1, <2>2, Quiescent
<1>8. ASSUME ~Commit(s), NEW t \in Tasks, s \in Busy, saves[s].task = t,
             saves[s].alone, saves[s].whole
      PROVE  files[t] = saves[s].base
  <2>1. saves[s].done = 0 \/ saves[s].next > saves[s].done
    BY <1>1, <1>8 DEF Validate, Lock, LockRefused, Restored, At, TypeInv, RequestsInv, Knows
  <2> QED BY <1>8, <2>1, NothingLeft DEF FilesKept, SaveInv, TypeInv, RequestsInv, Busy
<1>9. CASE ~Commit(s)
  <2>1. UNCHANGED <<files, rows, quiet, spoilt>>
    <3>1. CASE Validate(s)
      BY <3>1 DEF Validate, dbVars, histVars
    <3>2. CASE Lock(s)
      BY <3>2 DEF Lock, dbVars, histVars
    <3>3. CASE LockRefused(s)
      BY <3>3 DEF LockRefused, dbVars, histVars
    <3>4. CASE Restored(s)
      BY <3>4 DEF Restored, dbVars, histVars
    <3> QED BY <1>1, <1>9, <3>1, <3>2, <3>3, <3>4
  <2>2. ASSUME quiet', policy' = "declare", NEW t \in Tasks
        PROVE  rows'[t] = Publication(files'[t])
    <3>1. CASE AtRest(t)
      BY <1>6, <2>1, <2>2, <3>1 DEF FilesKept, QuietInv
    <3>2. CASE ~AtRest(t)
      <4>1. s \in Busy /\ saves[s].task = t
        BY <1>3, <3>2 DEF AtRest
      <4> QED BY <1>6, <1>8, <1>9, <2>1, <2>2, <4>1 DEF FilesKept, QuietInv
    <3> QED BY <3>1, <3>2
  <2>3. ASSUME ~spoilt', NEW t \in Tasks PROVE Same(t)'
    <3>1. Same(t)
      <4>1. CASE AtRest(t)
        BY <1>6, <2>1, <2>3, <4>1 DEF FilesKept, StartInv
      <4>2. CASE ~AtRest(t)
        <5>1. s \in Busy /\ saves[s].task = t
          BY <1>3, <4>2 DEF AtRest
        <5>2. /\ saves[s].alone /\ saves[s].whole /\ policy = "declare"
              /\ rows[t] = Publication(saves[s].base)
          BY <2>1, <2>3, <5>1 DEF FilesKept, StartInv
        <5> QED BY <1>8, <1>9, <5>1, <5>2, SameIsPublished
      <4> QED BY <4>1, <4>2
    <3> QED BY <1>6, <2>1, <3>1 DEF Same
  <2> QED BY <1>3, <1>5, <1>6, <2>2, <2>3, Quiescent
<1> QED BY <1>7, <1>9

LEMMA FilesKeptInit == ContentAssumption /\ Init => FilesKept
BY DEF Init, FilesKept, OneBusy, SaveInv, QuietInv, StartInv, Busy, Errors, Wrong, Unused

\* Steps that leave alone what FilesKept speaks of.
LEMMA KeptAside ==
    ASSUME FilesKept, UNCHANGED <<files, rows, policy, up, saves, quiet, spoilt>>
    PROVE  FilesKept'
BY DEF FilesKept, OneBusy, SaveInv, QuietInv, StartInv, Busy, AtRest, Same, Errors, Wrong,
       NewVersion, Bumped

LEMMA KeptBySync ==
    ASSUME ContentAssumption, TypeInv, FilesKept, Busy = {}, Sync, up',
           UNCHANGED <<files, policy, saves, spoilt>>,
           up \/ Errors = {}
    PROVE  FilesKept'
<1>1. Busy' = {}
  BY DEF Busy
<1>2. \A r \in Savers : saves'[r].stage \in {"unused", "open"} => saves'[r].alone /\ saves'[r].whole
  BY DEF FilesKept, SaveInv
<1>3. ASSUME ~spoilt PROVE Errors = {}
  <2>1. CASE up
    <3>1. \A t \in Tasks : Same(t)
      BY <1>3, <2>1 DEF FilesKept, StartInv, AtRest
    <3> QED BY <3>1 DEF Errors, Wrong
  <2> QED BY <2>1
<1>4. quiet' = (Errors = {})
  BY DEF Sync
<1>5. ASSUME Errors = {}, NEW t \in Tasks
      PROVE  Same(t)' /\ (policy = "declare" => rows'[t] = Publication(files[t]))
  BY <1>5, SyncedSame
<1> QED BY <1>1, <1>2, <1>3, <1>4, <1>5, Quiescent

LEMMA KeptByEdit ==
    ASSUME TypeInv, FilesKept, Edit
    PROVE  FilesKept'
<1>1. PICK t \in Tasks, c \in Contents :
        /\ files' = [files EXCEPT ![t] = c]
        /\ saves' = [s \in Savers |->
               IF s \in Busy /\ saves[s].task = t THEN [saves[s] EXCEPT !.alone = FALSE] ELSE saves[s]]
  BY DEF Edit
<1>2. quiet' = FALSE /\ spoilt' = TRUE /\ UNCHANGED <<rows, policy>>
  BY DEF Edit, dbVars
<1>3. ASSUME NEW s \in Savers, s \in Busy, saves[s].task = t
      PROVE  /\ saves'[s] = [saves[s] EXCEPT !.alone = FALSE]
             /\ saves'[s].stage = saves[s].stage /\ saves'[s].task = saves[s].task
             /\ saves'[s].expected = saves[s].expected
  BY <1>1, <1>3 DEF TypeInv, RequestsInv, SaveRow
<1>4. ASSUME NEW s \in Savers, s \notin Busy \/ saves[s].task # t
      PROVE  saves'[s] = saves[s]
  BY <1>1, <1>4
<1>5. Busy' = Busy
  BY <1>3, <1>4 DEF Busy
<1>6. ASSUME NEW s \in Busy
      PROVE  /\ Well(saves'[s], files'[saves'[s].task])
             /\ rows'[saves'[s].task].version = saves'[s].expected
  <2>1. s \in Savers /\ Knows(saves[s]) /\ Well(saves[s], files[saves[s].task])
        /\ rows[saves[s].task].version = saves[s].expected /\ saves[s].task \in Tasks
    BY DEF Busy, FilesKept, SaveInv, TypeInv, RequestsInv, Knows
  <2>2. CASE saves[s].task = t
    BY <1>2, <1>3, <2>1, <2>2, WellEdited
  <2>3. CASE saves[s].task # t
    <3>1. saves'[s] = saves[s] /\ files'[saves[s].task] = files[saves[s].task]
      BY <1>1, <1>4, <2>1, <2>3 DEF TypeInv, FilesInv
    <3> QED BY <1>2, <2>1, <3>1
  <2> QED BY <2>2, <2>3
<1>7. \A s \in Savers : saves'[s].stage \in {"unused", "open"} => saves'[s].alone /\ saves'[s].whole
  <2> TAKE s \in Savers
  <2>1. CASE s \in Busy
    <3>1. saves'[s].stage = saves[s].stage
      BY <1>3, <1>4, <2>1
    <3> QED BY <2>1, <3>1 DEF Busy
  <2>2. CASE s \notin Busy
    BY <1>4, <2>2 DEF FilesKept, SaveInv
  <2> QED BY <2>1, <2>2
<1> QED BY <1>2, <1>5, <1>6, <1>7 DEF FilesKept, OneBusy, SaveInv, QuietInv, StartInv

LEMMA KeptBySetPolicy ==
    ASSUME FilesKept, SetPolicy
    PROVE  FilesKept'
<1>1. quiet' = FALSE /\ spoilt' = TRUE /\ UNCHANGED <<rows, files, saves>>
  BY DEF SetPolicy, dbVars
<1> QED BY <1>1 DEF FilesKept, OneBusy, SaveInv, QuietInv, StartInv, Busy

LEMMA KeptByOpen ==
    ASSUME ContentAssumption, TypeInv, FilesKept, NEW s \in Savers, Open(s)
    PROVE  FilesKept'
<1>1. PICK t \in Tasks :
        saves' = [saves EXCEPT ![s] = [Unused EXCEPT !.stage = "open", !.task = t,
                                       !.base = files[t], !.expected = rows[t].version]]
  BY OpenEffect DEF Becomes
<1>2. UNCHANGED <<files, rows, policy, up, quiet, spoilt>> /\ saves[s].stage = "unused"
  BY DEF Open, At, dbVars, histVars
<1>3. \A r \in Savers \ {s} : saves'[r] = saves[r]
  BY <1>1 DEF TypeInv, RequestsInv
<1>4. saves'[s].stage = "open" /\ saves'[s].alone /\ saves'[s].whole
  BY <1>1 DEF TypeInv, RequestsInv, Unused
<1>5. Busy' = Busy /\ s \notin Busy
  BY <1>2, <1>3, <1>4 DEF Busy
<1>6. \A r \in Busy : saves'[r] = saves[r]
  BY <1>3, <1>5 DEF Busy
<1>7. SaveInv'
  BY <1>2, <1>3, <1>4, <1>5, <1>6 DEF FilesKept, SaveInv
<1>8. QuietInv'
  BY <1>2, <1>5, <1>6 DEF FilesKept, QuietInv, AtRest
<1>9. StartInv'
  BY <1>2, <1>5, <1>6 DEF FilesKept, StartInv, AtRest, Same, Errors, Wrong, NewVersion, Bumped
<1> QED BY <1>5, <1>7, <1>8, <1>9 DEF FilesKept, OneBusy

LEMMA KeptByCrash ==
    ASSUME ContentAssumption, TypeInv, BasedInv, FilesKept, Crash
    PROVE  FilesKept'
<1>1. /\ saves' = [s \in Savers |-> IF s \in Busy THEN Ended("crashed") ELSE saves[s]]
      /\ quiet' = (quiet /\ \A s \in Busy : saves[s].done = 0)
      /\ spoilt' = (spoilt \/ \E s \in Busy : At(s, "restoring"))
      /\ UNCHANGED <<files, policy, rows>> /\ up /\ up' = FALSE
  BY DEF Crash, dbVars
<1>2. \A s \in Savers : /\ saves'[s].stage \notin {"validated", "writing", "restoring"}
                        /\ saves'[s].stage \in {"unused", "open"} => saves'[s] = saves[s]
  BY <1>1, EndedRow DEF Busy
<1>3. Busy' = {}
  BY <1>2 DEF Busy
<1>4. \A s \in Savers : saves'[s].stage \in {"unused", "open"} => saves'[s].alone /\ saves'[s].whole
  BY <1>2 DEF FilesKept, SaveInv
<1>5. \A s \in Busy : /\ Knows(saves[s]) /\ Well(saves[s], files[saves[s].task])
                      /\ rows[saves[s].task].version = saves[s].expected
                      /\ saves[s].stage \in {"validated", "writing", "restoring"}
  BY DEF Busy, FilesKept, SaveInv, TypeInv, RequestsInv
<1>6. ASSUME quiet', policy' = "declare", NEW t \in Tasks
      PROVE  rows'[t] = Publication(files'[t])
  <2>1. CASE AtRest(t)
    BY <1>1, <1>6, <2>1 DEF FilesKept, QuietInv
  <2>2. ASSUME NEW s \in Busy, saves[s].task = t PROVE rows'[t] = Publication(files'[t])
    <3>1. /\ saves[s].alone /\ saves[s].whole /\ saves[s].done = 0
          /\ rows[t] = Publication(saves[s].base)
      BY <1>1, <1>6, <2>2 DEF FilesKept, QuietInv
    <3>2. files[t] = saves[s].base
      BY <1>5, <2>2, <3>1, NothingLeft
    <3> QED BY <1>1, <3>1, <3>2
  <2> QED BY <2>1, <2>2 DEF AtRest
<1>7. ASSUME ~spoilt', NEW t \in Tasks PROVE ~Wrong(t)
  <2>1. CASE AtRest(t)
    BY <1>1, <1>7, <2>1 DEF FilesKept, StartInv, Wrong
  <2>2. ASSUME NEW s \in Busy, saves[s].task = t PROVE ~Wrong(t)
    <3>1. /\ saves[s].alone /\ saves[s].whole /\ policy = "declare"
          /\ rows[t] = Publication(saves[s].base) /\ rows[t].version = saves[s].expected
      BY <1>1, <1>5, <1>7, <2>2 DEF FilesKept, StartInv
    <3>2. saves[s].stage \in {"validated", "writing"}
      BY <1>1, <1>5, <1>7 DEF At
    <3>3. files[t] = saves[s].base \/ Raised(VersionOf(files[t]), rows[t].version)
      BY <1>5, <2>2, <3>1, <3>2, CrashLeaves
    <3>4. CASE files[t] = saves[s].base
      BY <3>1, <3>4, SameIsPublished DEF Wrong
    <3>5. CASE Raised(VersionOf(files[t]), rows[t].version)
      BY <3>1, <3>5 DEF Wrong, NewVersion
    <3> QED BY <3>3, <3>4, <3>5
  <2> QED BY <2>1, <2>2 DEF AtRest
<1>8. ~spoilt' => Errors' = {}
  BY <1>1, <1>7 DEF Errors, Wrong, Same, NewVersion, Bumped
<1> QED BY <1>1, <1>3, <1>4, <1>6, <1>8, Quiescent

LEMMA FilesKeptStep ==
    ASSUME ContentAssumption, OneWorker, TypeInv, BasedInv, FilesKept, [Next]_vars
    PROVE  FilesKept'
<1>1. CASE UNCHANGED vars
  BY <1>1, KeptAside DEF vars
<1>2. ASSUME NEW s \in Savers, Open(s) PROVE FilesKept'
  BY <1>2, KeptByOpen
<1>3. ASSUME NEW s \in Savers, SaveProceeds(s) PROVE FilesKept'
  BY <1>3, KeptAtWork, KeptAtEnd
<1>4. ASSUME NEW k \in Checkers, CheckBegins(k) \/ CheckStores(k) PROVE FilesKept'
  BY <1>4, KeptAside DEF CheckBegins, CheckStores, dbVars, histVars
<1>5. CASE SyncTasks
  BY <1>5, FreeAlone, KeptBySync DEF SyncTasks, Free
<1>6. CASE Push
  BY <1>6, KeptAside DEF Push, histVars
<1>7. CASE Edit
  BY <1>7, KeptByEdit
<1>8. CASE SetPolicy
  BY <1>8, KeptBySetPolicy
<1>9. CASE Crash
  BY <1>9, KeptByCrash
<1>10. CASE Start
  <2>1. Busy = {}
    BY <1>10 DEF Start, TypeInv, RequestsInv
  <2> QED BY <1>10, <2>1, KeptBySync DEF Start
<1> QED BY <1>1, <1>2, <1>3, <1>4, <1>5, <1>6, <1>7, <1>8, <1>9, <1>10 DEF Next

\* An answer that files are restored is given when all have been put back.
LEMMA RestoresStep ==
    ASSUME ContentAssumption, TypeInv, FilesKept, [Next]_vars
    PROVE  RestoresAll
<1> SUFFICES ASSUME NEW s \in Savers, At(s, "restoring"), saves'[s].stage = "restored",
                    saves[s].alone
             PROVE  files[saves[s].task] = saves[s].base
  BY DEF RestoresAll
<1>1. saves'[s] # saves[s] /\ saves[s].stage = "restoring" /\ saves[s] \in SaveRow /\ s \in Busy
  BY DEF At, Busy, TypeInv, RequestsInv
<1>2. Restored(s)
  <2>1. ASSUME NEW r \in Savers, r # s, Open(r) \/ SaveProceeds(r) PROVE FALSE
    BY <1>1, <2>1, SaveSteps DEF Becomes, TypeInv, RequestsInv
  <2>2. ~Open(s) /\ ~Validate(s) /\ ~Lock(s) /\ ~LockRefused(s) /\ ~Replace(s) /\ ~Commit(s)
        /\ ~Abort(s)
    BY <1>1 DEF Open, Validate, Lock, LockRefused, Replace, Commit, Abort, At
  <2>3. ASSUME NEW x, Becomes(s, x), x.stage = "restoring" PROVE FALSE
    BY <2>3 DEF Becomes, TypeInv, RequestsInv
  <2>4. ASSUME NEW n PROVE /\ [saves[s] EXCEPT !.next = n].stage = "restoring"
                           /\ [saves[s] EXCEPT !.next = n, !.whole = FALSE].stage = "restoring"
    BY <1>1 DEF SaveRow
  <2>5. ~Restore(s) /\ ~RestoreFails(s)
    BY <2>3, <2>4, RestoreEffect, RestoreFailsEffect
  <2>6. ~Edit
    <3>1. [saves[s] EXCEPT !.alone = FALSE].stage = "restoring"
      BY <1>1 DEF SaveRow
    <3> QED BY <1>1, <3>1 DEF Edit
  <2>7. ~Crash
    BY <1>1, EndedRow DEF Crash
  <2>8. UNCHANGED saves => FALSE
    BY <1>1
  <2> QED BY <2>1, <2>2, <2>5, <2>6, <2>7, <2>8
          DEF Next, vars, SaveProceeds, CheckBegins, CheckStores, SyncTasks, Push, SetPolicy, Start
<1>3. saves[s].next > saves[s].done /\ saves[s].whole
  <2>1. saves[s].next > saves[s].done /\ Ends(s, IF saves[s].whole THEN "restored" ELSE "incomplete")
    BY <1>2 DEF Restored
  <2>2. saves[s].next \in Int /\ saves[s].done \in Int
    BY <1>1 DEF SaveRow
  <2>3. saves'[s] = Ended(IF saves[s].whole THEN "restored" ELSE "incomplete")
    BY <2>1 DEF Ends, TypeInv, RequestsInv
  <2>4. ASSUME ~saves[s].whole PROVE FALSE
    <3>1. saves'[s].stage = "incomplete"
      BY <2>3, <2>4, EndedRow
    <3> QED BY <3>1
  <2> QED BY <2>1, <2>4
<1> QED BY <1>1, <1>3, NothingLeft DEF FilesKept, SaveInv, TypeInv, RequestsInv

\* What MCPlatform checks of the parts of its runs, of every instance.
SavesAreWhole ==
    /\ [](PublishedIsOnDisk /\ StartsAfterCrash /\ CurrentIsNotStale)
    /\ [][RestoresAll /\ SavesBuild]_vars

\* With one worker, catalogue and files agree after a sync without errors, also
\* when saves were aborted and put back in between (admin.py:1387-1437); a crash
\* in the middle of a save leaves files that the startup's sync takes
\* (entrypoint.py:24); progress on the current version is never stale; an answer
\* that says canonical files restored is true (admin.py:1309); and a save commits
\* only upon the version it was based on.
THEOREM SavesWhole ==
    ASSUME ContentAssumption, OneWorker
    PROVE  Spec => SavesAreWhole
<1>1. Init => FilesKept /\ BasedInv
  BY FilesKeptInit DEF Init, BasedInv, At, Unused
<1>2. TypeInv /\ BasedInv /\ [Next]_vars => BasedInv'
  BY BasedStep
<1>3. TypeInv /\ BasedInv /\ FilesKept /\ [Next]_vars => FilesKept'
  BY FilesKeptStep
<1>4. TypeInv /\ FilesKept /\ [Next]_vars => RestoresAll
  BY RestoresStep
<1>5. BasedInv => SavesBuild
  BY DEF BasedInv, SavesBuild
<1>6. HistoryInv => CurrentIsNotStale
  BY DEF HistoryInv
<1>7. FilesKept => PublishedIsOnDisk
  BY DEF FilesKept, QuietInv, PublishedIsOnDisk, AtRest, Publication
<1>8. FilesKept => StartsAfterCrash
  BY DEF FilesKept, StartInv, StartsAfterCrash
<1>9. Spec => [](TypeInv /\ HistoryInv)
  BY HistoryHolds
<1>10. RestoresAll /\ SavesBuild => [RestoresAll /\ SavesBuild]_vars
  OBVIOUS
<1>11. Spec => [](TypeInv /\ HistoryInv /\ BasedInv /\ FilesKept)
  BY <1>1, <1>2, <1>3, <1>9, PTL DEF Spec
<1>12. Spec => [](PublishedIsOnDisk /\ StartsAfterCrash /\ CurrentIsNotStale)
  BY <1>6, <1>7, <1>8, <1>11, PTL
<1>13. Spec => [][RestoresAll /\ SavesBuild]_vars
  BY <1>4, <1>5, <1>11, PTL DEF Spec
<1> QED BY <1>12, <1>13 DEF SavesAreWhole
=============================================================================
