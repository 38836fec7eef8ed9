------------------------------- MODULE Content -------------------------------
(***************************************************************************)
(* The content repository's files, their synchronization into the           *)
(* catalogue's rows and version history, the Task Studio's save of a task's *)
(* three files, and the progress that breaking versions make stale.         *)
(* A version is any string: the first MaxSemver of the model are SemVer, in  *)
(* their order and each written in one way, the others are not, and Text is *)
(* the order of all of them as strings.  A bump goes to the next SemVer; a  *)
(* version that raises the major part is one declared breaking.  The        *)
(* content hash of a task covers its statement, which is in the markdown,   *)
(* and its solution, from which the stub is generated; tests and version    *)
(* are not in it.  The write lock of SQLite is held by one save at a time;  *)
(* a transaction's writes are seen when it commits, so a sync is one step.  *)
(***************************************************************************)
EXTENDS Naturals, FiniteSets

CONSTANTS Tasks,
          Statements,  \* what a markdown says besides version and breaking
          Texts,       \* contents of a solution or of the tests
          Savers,      \* editors' saves, each used once
          Checkers,    \* checks of a student's solutions, each used once
          Workers,     \* how many requests the server serves at a time
          MaxVersion,  \* bound: versions of a task
          MaxSemver,   \* how many of them are SemVer
          Text,        \* the place of each version in the order of strings
          First,       \* the version 1.0.0
          None

Version == 1..MaxVersion
Semvers == 1..MaxSemver
Hashes == Statements \X Texts

ContentAssumption ==
    /\ None \notin Tasks \cup Hashes \cup Savers
    /\ None \notin [version : Version, hash : Hashes] \cup [task : Tasks, version : Version]
    /\ Workers \in Nat \ {0} /\ MaxVersion \in Nat \ {0}
    /\ MaxSemver \in Version /\ First \in Semvers /\ Text \in [Version -> Nat]

\* The files of a task in the order a save replaces them.
Parts == <<"md", "solution", "tests">>
Contents == [md : Version \X BOOLEAN \X Statements, solution : Texts, tests : Texts]
Marks == {"none", "solved", "stale"}

VARIABLES
    files,      \* the content of each task's files
    policy,     \* version_policy of the project
    rows,       \* tasks: version and content_hash, or None
    versions,   \* task_versions: the content_hash of each version, or None
    progress,   \* a student's status for each version
    lock,       \* the save that holds the write lock, or None
    up,         \* the server runs
    saves,      \* save_task_studio
    checks,     \* POST /check: the task and the version it has read
    quiet,      \* history: the files are as the last sync without errors has read them
    spoilt      \* history: files were changed by others, or a restoration was broken off

dbVars == <<rows, versions, progress>>
histVars == <<quiet, spoilt>>
vars == <<files, policy, rows, versions, progress, lock, up, saves, checks, quiet, spoilt>>

VersionOf(c) == c.md[1]
Breaking(c) == c.md[2]
\* content_hash
Hash(c) == <<c.md[3], c.solution>>

-----------------------------------------------------------------------------
(* Synchronization *)

\* _bump_minor, of what is no SemVer to 1.0.0
Bumped(t) == IF rows[t].version \in Semvers THEN rows[t].version + 1 ELSE First
\* _semver_gt, with strings compared as strings
Raised(a, b) == IF a \in Semvers /\ b \in Semvers THEN a > b ELSE Text[a] > Text[b]

Same(t) ==
    /\ rows[t] # None /\ rows[t].hash = Hash(files[t])
    /\ policy = "auto_minor" \/ rows[t].version = VersionOf(files[t])
\* The version a sync gives to the content it finds.
NewVersion(t) == IF rows[t] # None /\ policy = "auto_minor" THEN Bumped(t) ELSE VersionOf(files[t])
\* Mutant: a lower version is taken too.
WrongBump(t) ==
    ~Same(t) /\ rows[t] # None /\ policy = "auto_minor" /\ Bumped(t) \notin Semvers
\* Bound: a bump past MaxSemver is an error.
Wrong(t) ==
    /\ ~Same(t) /\ rows[t] # None
    /\ IF policy = "auto_minor" THEN Bumped(t) \notin Semvers ELSE ~Raised(NewVersion(t), rows[t].version)
\* Tasks that _upsert_task_row imports or updates.
Synced == {t \in Tasks : ~Same(t) /\ ~Wrong(t)}
Errors == {t \in Tasks : Wrong(t)}

\* _mark_progress_stale
Staled(t) == [v \in Version |-> IF progress[t][v] = "none" THEN "none" ELSE "stale"]

\* Mutant: progress is marked before the version is looked at.
SyncMarksFirst ==
    /\ rows' = [t \in Tasks |->
           IF t \in Synced THEN [version |-> NewVersion(t), hash |-> Hash(files[t])] ELSE rows[t]]
    /\ versions' = [t \in Tasks |->
           IF t \in Synced THEN [versions[t] EXCEPT ![NewVersion(t)] = Hash(files[t])] ELSE versions[t]]
    /\ progress' = [t \in Tasks |->
           IF rows[t] # None /\ ~Same(t) /\ Breaking(files[t]) THEN Staled(t) ELSE progress[t]]
    /\ quiet' = (Errors = {})
\* Mutant: a task's new version takes the place of its history.
SyncForgets ==
    /\ rows' = [t \in Tasks |->
           IF t \in Synced THEN [version |-> NewVersion(t), hash |-> Hash(files[t])] ELSE rows[t]]
    /\ versions' = [t \in Tasks |->
           IF t \in Synced THEN [v \in Version |-> IF v = NewVersion(t) THEN Hash(files[t]) ELSE None]
           ELSE versions[t]]
    /\ progress' = [t \in Tasks |->
           IF t \in Synced /\ rows[t] # None /\ Breaking(files[t]) THEN Staled(t) ELSE progress[t]]
    /\ quiet' = (Errors = {})
\* sync_from_path: errors of one task do not keep the others back.
Sync ==
    /\ rows' = [t \in Tasks |->
           IF t \in Synced THEN [version |-> NewVersion(t), hash |-> Hash(files[t])] ELSE rows[t]]
    /\ versions' = [t \in Tasks |->
           IF t \in Synced THEN [versions[t] EXCEPT ![NewVersion(t)] = Hash(files[t])] ELSE versions[t]]
    /\ progress' = [t \in Tasks |->
           IF t \in Synced /\ rows[t] # None /\ Breaking(files[t]) THEN Staled(t) ELSE progress[t]]
    /\ quiet' = (Errors = {})

-----------------------------------------------------------------------------
(* The Task Studio's save *)

Unused == [stage |-> "unused", task |-> None, base |-> None, expected |-> 0,
           cand |-> None, back |-> None, done |-> 0, next |-> 0,
           whole |-> TRUE, alone |-> TRUE]
At(s, stage) == saves[s].stage = stage
\* The request is answered, or gone with the server.
Ended(stage) == [Unused EXCEPT !.stage = stage]
Ends(s, stage) == saves' = [saves EXCEPT ![s] = Ended(stage)]
Busy == {s \in Savers : saves[s].stage \in {"validated", "writing", "restoring"}}
Free == up /\ Cardinality(Busy) < Workers

\* get_task_studio
Open(s) ==
    /\ At(s, "unused") /\ Free
    /\ \E t \in Tasks :
        /\ rows[t] # None
        /\ saves' = [saves EXCEPT ![s] = [Unused EXCEPT !.stage = "open", !.task = t,
                                          !.base = files[t], !.expected = rows[t].version]]
    /\ UNCHANGED <<files, policy, dbVars, lock, up, checks, histVars>>

\* The version and the etag are those the candidate is based on.
Current(s) ==
    LET t == saves[s].task IN rows[t].version = saves[s].expected /\ files[t] = saves[s].base

\* _validate_studio_candidate
Validate(s) ==
    /\ At(s, "open") /\ Free
    /\ \/ /\ Current(s) /\ policy = "declare"
          /\ \E c \in Contents :
              /\ c # saves[s].base => Raised(VersionOf(c), saves[s].expected)
              /\ saves' = [saves EXCEPT ![s].stage = "validated", ![s].cand = c]
       \/ Ends(s, "refused")    \* not current, not writable, or not a valid candidate
    /\ UNCHANGED <<files, policy, dbVars, lock, up, checks, histVars>>

\* Mutant: what was validated is not read again under the lock.
LockBlindly(s) ==
    /\ At(s, "validated") /\ lock = None
    /\ lock' = s /\ saves' = [saves EXCEPT ![s].stage = "writing", ![s].back = files[saves[s].task]]
    /\ UNCHANGED <<files, policy, dbVars, up, checks, histVars>>
\* BEGIN IMMEDIATE, and version and files are read again.
Lock(s) ==
    /\ At(s, "validated") /\ lock = None
    /\ IF Current(s)
       THEN /\ lock' = s
            /\ saves' = [saves EXCEPT ![s].stage = "writing", ![s].back = files[saves[s].task]]
       ELSE Ends(s, "refused") /\ UNCHANGED lock
    /\ UNCHANGED <<files, policy, dbVars, up, checks, histVars>>

\* The lock could not be had.
LockRefused(s) ==
    /\ At(s, "validated") /\ lock # None
    /\ Ends(s, "refused")
    /\ UNCHANGED <<files, policy, dbVars, lock, up, checks, histVars>>

\* Mutant: the markdown is replaced last.
ReplaceBackwards(s) ==
    /\ At(s, "writing") /\ saves[s].done < 3
    /\ LET t == saves[s].task
           p == Parts[3 - saves[s].done]
       IN /\ files' = [files EXCEPT ![t][p] = saves[s].cand[p]]
          /\ saves' = [saves EXCEPT ![s].done = @ + 1, ![s].back[p] = files[t][p]]
    /\ UNCHANGED <<policy, dbVars, lock, up, checks, quiet, spoilt>>
\* _atomic_replace of the next file
Replace(s) ==
    /\ At(s, "writing") /\ saves[s].done < 3
    /\ LET t == saves[s].task
           p == Parts[saves[s].done + 1]
       IN /\ files' = [files EXCEPT ![t][p] = saves[s].cand[p]]
          /\ saves' = [saves EXCEPT ![s].done = @ + 1, ![s].back[p] = files[t][p]]
    /\ UNCHANGED <<policy, dbVars, lock, up, checks, quiet, spoilt>>

\* What the sync of this save makes of its task.
Published(s) ==
    LET t == saves[s].task IN
    IF t \in Synced THEN [version |-> NewVersion(t), hash |-> Hash(files[t])] ELSE rows[t]
\* Sync and rows are as the candidate says.
Verified(s) ==
    /\ Errors = {}
    /\ saves[s].cand # saves[s].base =>
           Published(s) = [version |-> VersionOf(saves[s].cand), hash |-> Hash(saves[s].cand)]

\* The sync, its verification and COMMIT
Commit(s) ==
    /\ At(s, "writing") /\ saves[s].done = 3 /\ Verified(s)
    /\ Sync
    /\ lock' = None /\ Ends(s, "saved")
    /\ UNCHANGED <<files, policy, up, checks, spoilt>>

\* Mutant: the transaction is not rolled back.
AbortHolding(s) ==
    /\ At(s, "writing")
    /\ saves' = [saves EXCEPT ![s].stage = "restoring", ![s].next = 1]
    /\ UNCHANGED <<files, policy, dbVars, lock, up, checks, histVars>>
\* ROLLBACK, after a failed verification or an exception at any point
Abort(s) ==
    /\ At(s, "writing")
    /\ lock' = None
    /\ saves' = [saves EXCEPT ![s].stage = "restoring", ![s].next = 1]
    /\ UNCHANGED <<files, policy, dbVars, up, checks, histVars>>

\* Mutant: the tests are not restored.
RestoreVisible(s) ==
    /\ At(s, "restoring") /\ saves[s].next <= saves[s].done
    /\ LET t == saves[s].task
           p == Parts[saves[s].next]
       IN files' = IF p = "tests" THEN files ELSE [files EXCEPT ![t][p] = saves[s].back[p]]
    /\ saves' = [saves EXCEPT ![s].next = @ + 1]
    /\ UNCHANGED <<policy, dbVars, lock, up, checks, histVars>>
\* _restore_files: the next of the replaced files
Restore(s) ==
    /\ At(s, "restoring") /\ saves[s].next <= saves[s].done
    /\ LET t == saves[s].task
           p == Parts[saves[s].next]
       IN files' = [files EXCEPT ![t][p] = saves[s].back[p]]
    /\ saves' = [saves EXCEPT ![s].next = @ + 1]
    /\ UNCHANGED <<policy, dbVars, lock, up, checks, histVars>>

\* One file cannot be restored; the others still are.
RestoreFails(s) ==
    /\ At(s, "restoring") /\ saves[s].next <= saves[s].done
    /\ saves' = [saves EXCEPT ![s].next = @ + 1, ![s].whole = FALSE]
    /\ quiet' = FALSE /\ spoilt' = TRUE
    /\ UNCHANGED <<files, policy, dbVars, lock, up, checks>>

\* Mutant: the answer does not wait for all the files.
RestoredInPart(s) ==
    /\ At(s, "restoring")
    /\ Ends(s, IF saves[s].whole THEN "restored" ELSE "incomplete")
    /\ UNCHANGED <<files, policy, dbVars, lock, up, checks, histVars>>
\* «canonical files restored», or «rollback incomplete»
Restored(s) ==
    /\ At(s, "restoring") /\ saves[s].next > saves[s].done
    /\ Ends(s, IF saves[s].whole THEN "restored" ELSE "incomplete")
    /\ UNCHANGED <<files, policy, dbVars, lock, up, checks, histVars>>

-----------------------------------------------------------------------------
(* Checks, pushes, syncs, and the world *)

\* POST /admin/sync-tasks
SyncTasks ==
    /\ Free /\ lock = None
    /\ Sync
    /\ UNCHANGED <<files, policy, lock, up, saves, checks, spoilt>>

\* check_solution reads the task's version, then awaits the checker's thread.
CheckBegins(k) ==
    /\ checks[k] = None /\ Free
    /\ \E t \in Tasks :
        /\ rows[t] # None
        /\ checks' = [checks EXCEPT ![k] = [task |-> t, version |-> rows[t].version]]
    /\ UNCHANGED <<files, policy, dbVars, lock, up, saves, histVars>>

\* _store_progress under the version read before
CheckStores(k) ==
    /\ checks[k] # None /\ Free /\ lock = None
    /\ progress' = [progress EXCEPT ![checks[k].task][checks[k].version] = "solved"]
    /\ checks' = [checks EXCEPT ![k] = None]
    /\ UNCHANGED <<files, policy, rows, versions, lock, up, saves, histVars>>

\* push_progress takes the version the student's files have.
Push ==
    /\ Free /\ lock = None
    /\ \E t \in Tasks, v \in Version :
        /\ versions[t][v] # None
        /\ progress' = [progress EXCEPT ![t][v] = "solved"]
    /\ UNCHANGED <<files, policy, rows, versions, lock, up, saves, checks, histVars>>

\* Authors change files outside of the server.
Edit ==
    /\ \E t \in Tasks, c \in Contents :
        /\ c # files[t] /\ files' = [files EXCEPT ![t] = c]
        /\ saves' = [s \in Savers |->
               IF s \in Busy /\ saves[s].task = t THEN [saves[s] EXCEPT !.alone = FALSE] ELSE saves[s]]
    /\ quiet' = FALSE /\ spoilt' = TRUE
    /\ UNCHANGED <<policy, dbVars, lock, up, checks>>

SetPolicy ==
    /\ policy' = IF policy = "declare" THEN "auto_minor" ELSE "declare"
    /\ quiet' = FALSE /\ spoilt' = TRUE
    /\ UNCHANGED <<files, dbVars, lock, up, saves, checks>>

\* The server dies: requests are gone, an open transaction is rolled back.
Crash ==
    /\ up /\ up' = FALSE
    /\ lock' = None
    /\ saves' = [s \in Savers |-> IF s \in Busy THEN Ended("crashed") ELSE saves[s]]
    /\ checks' = [k \in Checkers |-> None]
    /\ quiet' = (quiet /\ \A s \in Busy : saves[s].done = 0)
    /\ spoilt' = (spoilt \/ \E s \in Busy : At(s, "restoring"))
    /\ UNCHANGED <<files, policy, dbVars>>

\* prepare_startup: a sync with errors keeps the server from starting.
Start ==
    /\ ~up /\ Errors = {}
    /\ up' = TRUE
    /\ Sync
    /\ UNCHANGED <<files, policy, lock, saves, checks, spoilt>>

-----------------------------------------------------------------------------

Init ==
    /\ files \in [Tasks -> Contents] /\ policy \in {"declare", "auto_minor"}
    /\ rows = [t \in Tasks |-> None]
    /\ versions = [t \in Tasks |-> [v \in Version |-> None]]
    /\ progress = [t \in Tasks |-> [v \in Version |-> "none"]]
    /\ lock = None /\ up = FALSE
    /\ saves = [s \in Savers |-> Unused] /\ checks = [k \in Checkers |-> None]
    /\ quiet = FALSE /\ spoilt = FALSE

SaveProceeds(s) ==
    \/ Validate(s) \/ Lock(s) \/ LockRefused(s) \/ Replace(s) \/ Commit(s)
    \/ Abort(s) \/ Restore(s) \/ RestoreFails(s) \/ Restored(s)

Next ==
    \/ \E s \in Savers : Open(s) \/ SaveProceeds(s)
    \/ \E k \in Checkers : CheckBegins(k) \/ CheckStores(k)
    \/ SyncTasks \/ Push \/ Edit \/ SetPolicy \/ Crash \/ Start

Spec == Init /\ [][Next]_vars

-----------------------------------------------------------------------------
(* Properties *)

\* Every variable keeps to its values, and a row's version is in its history.
TypeOK ==
    /\ files \in [Tasks -> Contents] /\ policy \in {"declare", "auto_minor"}
    /\ \A t \in Tasks :
        /\ rows[t] = None => versions[t] = [v \in Version |-> None]
        /\ rows[t] # None => rows[t].version \in Version /\ rows[t].hash \in Hashes
    /\ versions \in [Tasks -> [Version -> Hashes \cup {None}]]
    /\ progress \in [Tasks -> [Version -> Marks]]
    /\ lock \in Savers \cup {None}
    /\ \A s \in Savers : At(s, "writing") <=> lock = s

\* The catalogue as a history of versions.
Catalogue == INSTANCE ContentVersions WITH published <- versions

\* sync.py:377-402: a row shows a version of the history, with its content, and the latest one
\* unless the history mixes SemVer with other strings.
RowIsLatest ==
    \A t \in Tasks : rows[t] # None =>
        /\ versions[t][rows[t].version] = rows[t].hash
        /\ \/ Catalogue!Mixed(versions[t])
           \/ \A v \in Version \ {rows[t].version} :
                  versions[t][v] # None => Raised(rows[t].version, v)

\* sync.py:399 writes with INSERT OR REPLACE: a history whose versions are all SemVer, or all
\* other strings, is only ever extended all the same, whatever policies, files and crashes do.
ImplementsVersions == Catalogue!Spec

\* check.py:69: breaking versions make stale what was solved before, never
\* what is current, although checks and pushes may write to older versions late.
CurrentIsNotStale ==
    \A t \in Tasks : rows[t] # None /\ ~Catalogue!Mixed(versions[t])
        => progress[t][rows[t].version] # "stale"

\* admin.py:1331-1358: a save commits only upon the version it was based on: no other save of the
\* task was committed in between.
SavesBuild ==
    \A s \in Savers : At(s, "writing") /\ saves'[s].stage = "saved"
        => rows[saves[s].task].version = saves[s].expected

\* admin.py:1309: when the answer says that canonical files are restored, they
\* are as they were before the save, unless others have edited them meanwhile.
RestoresAll ==
    \A s \in Savers : At(s, "restoring") /\ saves'[s].stage = "restored" /\ saves[s].alone
        => files[saves[s].task] = saves[s].base

\* admin.py:1387-1437: catalogue and files agree after a sync without errors, with saves, aborted
\* ones too, and their restorations in between.
PublishedIsOnDisk ==
    quiet /\ policy = "declare" /\ Busy = {}
        => \A t \in Tasks : rows[t] = [version |-> VersionOf(files[t]), hash |-> Hash(files[t])]

\* entrypoint.py:24: a crash in the middle of a save leaves files that the startup's sync takes:
\* the markdown with the new version is the first to be replaced.
StartsAfterCrash == ~up /\ ~spoilt => Errors = {}
=============================================================================
