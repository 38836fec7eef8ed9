----------------------------- MODULE MCPlatform -----------------------------
(***************************************************************************)
(* Small instances of what the server and its student page do besides the   *)
(* tutoring, checked side by side: the administration of users (Users), the *)
(* content repository with the Task Studio's saves (Content) and the page   *)
(* of a student (StudentPage).  The modules share no state; in a behaviour  *)
(* only the part drawn at the start moves.                                  *)
(***************************************************************************)
EXTENDS Users, TLC

CONSTANTS root, tom, ann, new, t1, t2, a, b, e1, e2, c1, s1, s2, k1, k2, u1, n1, f1

VARIABLES
    part,
    files, policy, rows, versions, marks, lock, up, saves, checks, quiet, spoilt,
    owner, expired, checked, confirmed, required, token, stored, user, selected, shown,
    screen, panel, providers, unknown, forgejo, pc, own, fresh, got, opening

contentVars == <<files, policy, rows, versions, marks, lock, up, saves, checks, quiet, spoilt>>
studentVars == <<owner, expired, checked, confirmed, required, token, stored, user, selected,
                 shown, screen, panel, providers, unknown, forgejo, pc, own, fresh, got, opening>>
platformVars == <<part, vars, contentVars, studentVars>>

\* An administrator, a mentor, a student and one who is yet to come; or two
\* administrators.
Four == {root, tom, ann, new}
OpenPages == {root, tom}
Begin == (root :> "admin") @@ (tom :> "mentor") @@ (ann :> "student") @@ (new :> "none")
TwoAdmins == INSTANCE Users WITH Founders <- [Begin EXCEPT ![tom] = "admin"]
\* The same, with two requests of a page under way.
Overlapping == INSTANCE Users WITH Founders <- [Begin EXCEPT ![tom] = "admin"], MaxAsks <- 2

\* Two saves on one processor, with one text and with two; two saves on two
\* processors: all with versions that are SemVer.
Ordered(n) == [v \in 1..n |-> v]
TwoSaves == INSTANCE Content WITH Tasks <- {t1}, Statements <- {a}, Texts <- {a}, Savers <- {e1, e2},
                Checkers <- {}, Workers <- 1, MaxVersion <- 2, MaxSemver <- 2, Text <- Ordered(2),
                First <- 1, progress <- marks
Crashes == INSTANCE Content WITH Tasks <- {t1}, Statements <- {a}, Texts <- {a, b},
               Savers <- {e1, e2}, Checkers <- {}, Workers <- 1, MaxVersion <- 3, MaxSemver <- 3,
               Text <- Ordered(3), First <- 1, progress <- marks
Threads == INSTANCE Content WITH Tasks <- {t1}, Statements <- {a}, Texts <- {a}, Savers <- {e1, e2},
               Checkers <- {}, Workers <- 2, MaxVersion <- 3, MaxSemver <- 3, Text <- Ordered(3),
               First <- 1, progress <- marks
\* Syncs and a check, of the versions 1.0.0, 1.9.0, 1.10.0 and 1.2, which as strings
\* stand in another order.
Syncs == INSTANCE Content WITH Tasks <- {t1}, Statements <- {a, b}, Texts <- {a}, Savers <- {},
             Checkers <- {c1}, Workers <- 1, MaxVersion <- 4, MaxSemver <- 3, Text <- <<1, 4, 2, 3>>,
             First <- 1, progress <- marks

\* Two students at one browser; one who opens tasks; one whose solutions are
\* checked and defended.
Browser == INSTANCE StudentPage WITH Students <- {s1, s2}, Tokens <- {k1, k2}, Attempts <- {f1},
               Tasks <- {}, MaxChecks <- 0
Details == INSTANCE StudentPage WITH Students <- {u1}, Tokens <- {n1}, Attempts <- {},
               Tasks <- {t1, t2}, MaxChecks <- 0
Results == INSTANCE StudentPage WITH Students <- {u1}, Tokens <- {n1}, Attempts <- {},
               Tasks <- {t1}, MaxChecks <- 2

ASSUME PlatformAssumption ==
    /\ Overlapping!UsersAssumption
    /\ TwoSaves!ContentAssumption /\ Crashes!ContentAssumption
    /\ Threads!ContentAssumption /\ Syncs!ContentAssumption
    /\ Browser!PageAssumption /\ Details!PageAssumption /\ Results!PageAssumption

-----------------------------------------------------------------------------
ContentInit ==
    CASE part = "saves" -> TwoSaves!Init
      [] part = "crash" -> Crashes!Init
      [] part = "syncs" -> Syncs!Init
      [] OTHER -> Threads!Init /\ policy = "declare" /\ (part = "threads" \/ files[t1].md = <<1, FALSE, a>>)

StudentInit ==
    CASE part = "browser" -> Browser!Init
      [] part = "results" -> Results!Init
      [] OTHER -> Details!Init /\ required[u1] = 0

PlatformInit ==
    /\ part \in {"roles", "deletions", "checks", "saves", "crash", "threads", "syncs", "browser", "details", "results"}
    /\ IF part \in {"deletions", "checks"} THEN TwoAdmins!Init ELSE Init
    /\ ContentInit /\ StudentInit

OnlyUsers == UNCHANGED <<part, contentVars, studentVars>>
OnlyContent == UNCHANGED <<part, vars, studentVars>>
OnlyPage == UNCHANGED <<part, vars, contentVars>>

PlatformNext ==
    \/ part \in {"roles", "checks"} /\ Next /\ OnlyUsers
    \/ part = "deletions" /\ Overlapping!Next /\ OnlyUsers
    \/ part = "saves" /\ TwoSaves!Next /\ OnlyContent
    \/ part = "crash" /\ Crashes!Next /\ OnlyContent
    \/ part = "threads" /\ Threads!Next /\ OnlyContent
    \/ part = "syncs" /\ Syncs!Next /\ OnlyContent
    \/ part = "browser" /\ Browser!Next /\ OnlyPage
    \/ part = "details" /\ Details!Next /\ OnlyPage
    \/ part = "results" /\ Results!Next /\ OnlyPage

PlatformSpec == PlatformInit /\ [][PlatformNext]_platformVars

\* Bound: three users, whose pages keep the list they opened with; no check is
\* running and nobody is made a mentor by hand.
OnlyRoles ==
    part = "roles" =>
        /\ running = {} /\ progress = {} /\ byHand = {tom} /\ role[new] = "none"
        /\ \A q \in asks : q.op # "list"
\* Bound: users come and go, nobody's role is changed and nothing is checked; the
\* second administrator's page deletes one at a time from the list it opened with.
OnlyDeletions ==
    part = "deletions" =>
        /\ running = {} /\ progress = {} /\ \A p \in Pages : role[p] = "admin"
        /\ \A u \in Users \ Pages : role[u] \in {"student", "none", "gone"}
        /\ \A q \in asks : q.op # "role" /\ (q.by = tom => q.op = "delete" /\ q.slot = 1)
\* Bound: one administrator, who deletes and creates, and no mentors.
OnlyChecks ==
    part = "checks" =>
        /\ byHand = {} /\ role[root] = "admin" /\ role[tom] = "admin"
        /\ \A q \in asks : q.by = root /\ q.op \in {"delete", "create"}

\* Bound: no solved tasks and no version declared breaking, but in the syncs.
Plain ==
    part \in {"saves", "crash", "threads"} =>
        /\ ~files[t1].md[2]
        /\ \A v \in DOMAIN marks[t1] : marks[t1][v] = "none"
        /\ \A s \in DOMAIN saves : saves[s].cand # None => ~saves[s].cand.md[2]
\* Bound: where the syncs are, solutions of one version are solved or stale.
OneMarked == part = "syncs" => Cardinality({v \in DOMAIN marks[t1] : marks[t1][v] # "none"}) <= 1
\* Bound: nobody edits the repository, or changes its policy, by hand.
Untouched == part \in {"crash", "threads"} => policy = "declare" /\ ~spoilt

\* Bounds: what the other parts vary stays as it is.
NoAccess == part \in {"browser", "details"} => \A s \in DOMAIN required : required[s] = 0
NothingOpened == part = "results" => expired = {} /\ opening = {}
\* Bound: where solutions are checked, one load is under way at a time; where there
\* are none the answers to one load come in their order.
OneLoad == part = "results" => Cardinality({c \in DOMAIN pc : pc[c] = "loading"}) <= 1
InOrder ==
    part = "browser" =>
        LET none == Browser!NoAnswer IN
        \A c \in DOMAIN got :
            /\ got[c].understanding # none.understanding => got[c].progress # none.progress
            /\ got[c].account # none.account => got[c].understanding # none.understanding

Symmetry == Permutations({s1, s2}) \cup Permutations({k1, k2})

-----------------------------------------------------------------------------
(* Properties: EveryMentorIsAppointed and DeletedIsNotListed are those of    *)
(* Users; each of the others says of one component what its parts say here.  *)

\* A row shows a version of the history, with its content, through saves that
\* fail in any place, and the latest one unless the history mixes SemVer with
\* other strings (sync.py:377-402).
RowIsLatest ==
    /\ part = "saves" => TwoSaves!TypeOK /\ TwoSaves!RowIsLatest
    /\ part = "syncs" => Syncs!TypeOK /\ Syncs!RowIsLatest

\* sync.py:399 writes with INSERT OR REPLACE: the catalogue implements a history
\* that is only ever extended, whatever policies, files and crashes do, as long as
\* its versions are all SemVer or all other strings.
ImplementsVersions ==
    /\ part = "syncs" => Syncs!Catalogue!Init
    /\ [][(part = "syncs" => Syncs!Catalogue!Publish \/ versions' = versions)]_platformVars

\* Catalogue and files agree after a sync without errors, with saves, aborted
\* ones too, and their restorations in between (admin.py:1387-1437); a crash in
\* the middle of a save leaves files that the startup's sync takes
\* (entrypoint.py:24); breaking versions make stale what was solved before, never
\* what is current (check.py:69).  When the answer says that canonical files are
\* restored, they are as they were before the save, unless others have edited
\* them meanwhile (admin.py:1309), and of two saves on two processors neither
\* commits upon a version the other has replaced (admin.py:1331-1358).
SavesAreWhole ==
    /\ [](/\ part = "saves" => TwoSaves!PublishedIsOnDisk
          /\ part = "crash" => Crashes!TypeOK /\ Crashes!StartsAfterCrash
          /\ part = "syncs" => Syncs!CurrentIsNotStale)
    /\ [][/\ part = "saves" => TwoSaves!RestoresAll
          /\ part = "crash" => Crashes!RestoresAll
          /\ part = "threads" => Threads!SavesBuild]_platformVars

\* What the page holds and draws belongs together: the student and the progress
\* of a visible dashboard are those of the token it holds, or nobody's yet; the
\* browser keeps that token and no other, so that after signing out a reload
\* signs nobody in; a task's text is drawn only while the task is selected.
PageIsOfItsStudent ==
    /\ part = "browser" => Browser!PageIsOfItsStudent
    /\ part = "details" => Details!PageIsOfItsStudent
    /\ part = "results" => Results!PageIsOfItsStudent

\* The late failure of another sign-in drops no token (student-page.js, enter); a
\* Forgejo attempt that was cancelled, or left by signing out, signs nobody in;
\* and a task shown as solved, with the defence required, is one whose latest
\* shown solution was defended (docs/AI_TUTORING.md:126).
PageTellsTruth ==
    /\ [](part = "results" => Results!SolvedIsDefended)
    /\ [][(part = "browser" => Browser!DropsForCause /\ Browser!KeepsAbandonedOut)]_platformVars
=============================================================================
