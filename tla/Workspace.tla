----------------------------- MODULE Workspace -----------------------------
(***************************************************************************)
(* The student's folder and the commands of the extension that write into   *)
(* it: pulling tasks, opening a task that is not there yet, creating .ego/  *)
(* and offline initialization.  The student edits the same files.           *)
(*                                                                          *)
(* Commands wait for the server between tasks; what happens between two     *)
(* waits is one step, except that a pull and an opening write the statement *)
(* and the code in two steps, either of which may fail, and that an         *)
(* initialization may stop at each of its files.  A write happens whole or  *)
(* not at all.  Reload cuts everything off.                                 *)
(*                                                                          *)
(* A file's content is a number: 0 no file, 1..MaxVersion the server's text *)
(* of that version, MaxVersion + 1 a stub generated here from a solution,   *)
(* negative a text of the student's own.                                    *)
(***************************************************************************)
EXTENDS Integers, FiniteSets

CONSTANTS Task, Pull, Opener,   \* tasks; pulls and openings at a time
          Importable,           \* tasks in a folder the student can import
          MaxVersion,           \* bound: versions the server publishes
          MaxEdit,              \* bound: different texts of the student
          None

WorkspaceAssumption ==
    /\ MaxVersion \in Nat \ {0}
    /\ MaxEdit \in Nat
    /\ None \notin Task
    /\ Importable \subseteq Task

VARIABLES
    server,         \* version of every task on the server
    py, md,         \* tasks/<slug>/task_x.py and .md
    sidecar,        \* task_x.server.py
    backups,        \* the statements kept as *.student-backup-*.md
    docs,           \* tasks with statement and solution under docs/tasks
    manifestState,  \* .ego/manifest.yaml: "none", "invalid" or "ok"
    manifest,       \* its entries
    progress,       \* .ego/progress.json: "none", "empty" or "rows"
    pulling,        \* the pulls that are running
    left,           \* tasks a pull has still to fetch
    listed,         \* the versions in the list a pull was given
    base,           \* the manifest a pull has read
    got,            \* the task a pull is writing
    entries,        \* the manifest entries a pull has collected
    opening,        \* the task whose files an opening has asked for
    written         \* the version whose statement it has written, 0 before

\* History, read by the properties only: the tasks whose last opening wrote the
\* statement and not the code.
VARIABLE torn

files == <<py, md, sidecar, backups, docs>>
ego == <<manifestState, manifest, progress>>
pulls == <<pulling, left, listed, base, got, entries>>
opens == <<opening, written, torn>>
vars == <<server, files, ego, pulls, opens>>

Absent == 0
LocalStub == MaxVersion + 1
Edited == (-MaxEdit) .. -1
Texts == (-MaxEdit) .. (MaxVersion + 1)

NoEntry == [v |-> -1, md |-> FALSE, py |-> FALSE]
Entry == [v : -1 .. MaxVersion, md : BOOLEAN, py : BOOLEAN]
NoManifest == [t \in Task |-> NoEntry]
Nothing == [task |-> None, v |-> 0, md |-> FALSE, file |-> "md"]

\* The entries made of the statements found under docs/tasks.
Scanned(found) ==
    [t \in Task |-> IF t \in found THEN [v |-> 0, md |-> FALSE, py |-> FALSE] ELSE NoEntry]

\* readManifest: the file is missing or parses.
Readable == manifestState # "invalid"

\* decideTextFile
Decide(existing, incoming) ==
    IF existing = Absent THEN "create"
    ELSE IF existing = incoming THEN "unchanged" ELSE "conflict"

\* Mutant: flags of the newest pull only.
MergeForgetful(old, new) ==
    [t \in Task |-> IF new[t] = NoEntry THEN old[t] ELSE new[t]]

\* mergeManifestEntries: a task that was not pulled keeps its entry, one that
\* was pulled keeps the flags that say the student's files differ.
Merge(old, new) ==
    [t \in Task |->
        IF new[t] = NoEntry THEN old[t]
        ELSE [v |-> new[t].v, md |-> new[t].md \/ old[t].md,
              py |-> new[t].py \/ old[t].py]]

-----------------------------------------------------------------------------
(* The student and the server *)

EditCode(t) ==
    /\ py[t] # Absent
    /\ \E e \in Edited : py' = [py EXCEPT ![t] = e]
    /\ UNCHANGED <<server, md, sidecar, backups, docs, ego, pulls, opens>>

EditStatement(t) ==
    /\ md[t] # Absent
    /\ \E e \in Edited : md' = [md EXCEPT ![t] = e]
    /\ UNCHANGED <<server, py, sidecar, backups, docs, ego, pulls, opens>>

\* An offline check writes its result through the ego command line.
Solve ==
    /\ progress = "empty"
    /\ progress' = "rows"
    /\ UNCHANGED <<server, files, manifestState, manifest, pulls, opens>>

Publish(t) ==
    /\ server[t] < MaxVersion
    /\ server' = [server EXCEPT ![t] = @ + 1]
    /\ UNCHANGED <<files, ego, pulls, opens>>

-----------------------------------------------------------------------------
(* pullTasksToWorkspace *)

\* The tasks were listed, the manifest is read; one that does not parse stops
\* the pull.
StartPull(p, ts) ==
    /\ p \notin pulling
    /\ ts # {}
    /\ Readable
    /\ pulling' = pulling \union {p}
    /\ left' = [left EXCEPT ![p] = ts]
    /\ listed' = [listed EXCEPT ![p] = server]
    /\ base' = [base EXCEPT ![p] = manifest]
    /\ entries' = [entries EXCEPT ![p] = NoManifest]
    /\ UNCHANGED <<server, files, ego, got, opens>>

Fetched(p, t) ==
    /\ p \in pulling /\ got[p] = Nothing /\ t \in left[p]
    /\ left' = [left EXCEPT ![p] = @ \ {t}]
    /\ got' = [got EXCEPT ![p] = [task |-> t, v |-> server[t], md |-> FALSE, file |-> "md"]]
    /\ UNCHANGED <<server, files, ego, pulling, listed, base, entries, opens>>

FetchFailed(p, t) ==
    /\ p \in pulling /\ got[p] = Nothing /\ t \in left[p]
    /\ left' = [left EXCEPT ![p] = @ \ {t}]
    /\ UNCHANGED <<server, files, ego, pulling, listed, base, got, entries, opens>>

\* uniqueBackupUri never takes the name of an earlier backup.
\* Mutant: it does.
KeepOneCopy(t) == backups' = [backups EXCEPT ![t] = {md[t]}]
KeepCopy(t) == backups' = [backups EXCEPT ![t] = @ \union {md[t]}]

WriteStatement(p) ==
    LET t == got[p].task
        decision == Decide(md[t], got[p].v)
    IN  /\ p \in pulling /\ got[p] # Nothing /\ got[p].file = "md"
        /\ IF decision = "conflict" THEN KeepCopy(t) ELSE UNCHANGED backups
        /\ md' = [md EXCEPT ![t] = got[p].v]
        /\ got' = [got EXCEPT ![p].file = "py", ![p].md = decision = "conflict"]
        /\ UNCHANGED <<server, py, sidecar, docs, ego, pulling, left, listed,
                       base, entries, opens>>

\* Mutant: the server's stub replaces the code.
ReplaceCode(t, v, decision) ==
    /\ py' = [py EXCEPT ![t] = v]
    /\ UNCHANGED sidecar

\* Mutant: the conflict is recorded and no more.
LeaveCode(t, v, decision) ==
    /\ py' = IF decision = "create" THEN [py EXCEPT ![t] = v] ELSE py
    /\ UNCHANGED sidecar

\* The student's code stays; the server's stub goes beside it.
PlaceCode(t, v, decision) ==
    /\ py' = IF decision = "create" THEN [py EXCEPT ![t] = v] ELSE py
    /\ sidecar' = IF decision = "conflict" THEN [sidecar EXCEPT ![t] = v] ELSE sidecar

WriteCode(p) ==
    LET t == got[p].task
        decision == Decide(py[t], got[p].v)
    IN  /\ p \in pulling /\ got[p] # Nothing /\ got[p].file = "py"
        /\ PlaceCode(t, got[p].v, decision)
        /\ entries' = [entries EXCEPT ![p][t] =
               [v |-> listed[p][t], md |-> got[p].md, py |-> decision = "conflict"]]
        /\ got' = [got EXCEPT ![p] = Nothing]
        /\ UNCHANGED <<server, md, backups, docs, ego, pulling, left, listed,
                       base, opens>>

\* A file cannot be written: the task is counted as an error.  The backup of the
\* statement may be there already.
WriteFailed(p) ==
    LET t == got[p].task
    IN  /\ p \in pulling /\ got[p] # Nothing
        /\ \/ UNCHANGED backups
           \/ got[p].file = "md" /\ Decide(md[t], got[p].v) = "conflict" /\ KeepCopy(t)
        /\ got' = [got EXCEPT ![p] = Nothing]
        /\ UNCHANGED <<server, py, md, sidecar, docs, ego, pulling, left, listed, base,
                       entries, opens>>

\* The variables of a pull that has ended.
Forget(ps) ==
    /\ listed' = [p \in Pull |-> IF p \in ps THEN [t \in Task |-> 1] ELSE listed[p]]
    /\ base' = [p \in Pull |-> IF p \in ps THEN NoManifest ELSE base[p]]
    /\ entries' = [p \in Pull |-> IF p \in ps THEN NoManifest ELSE entries[p]]

FinishPull(p) ==
    /\ p \in pulling /\ got[p] = Nothing /\ left[p] = {}
    /\ pulling' = pulling \ {p}
    /\ \/ manifest' = Merge(base[p], entries[p]) /\ manifestState' = "ok"
       \/ UNCHANGED <<manifest, manifestState>>      \* writeManifest failed
    /\ Forget({p})
    /\ UNCHANGED <<server, files, progress, left, got, opens>>

-----------------------------------------------------------------------------
(* Ego: Open Task *)

\* Mutant: the task is fetched whether its code is there or not.
BeginOpenAlways(o, t) ==
    /\ opening[o] = None
    /\ opening' = [opening EXCEPT ![o] = t]
    /\ UNCHANGED <<server, files, ego, pulls, written, torn>>

BeginOpen(o, t) ==
    /\ opening[o] = None
    /\ py[t] = Absent
    /\ opening' = [opening EXCEPT ![o] = t]
    /\ UNCHANGED <<server, files, ego, pulls, written, torn>>

\* The server's answer is written as it came: the statement, then the code.
OpenStatement(o) ==
    LET t == opening[o]
    IN  /\ t # None /\ written[o] = 0
        /\ md' = [md EXCEPT ![t] = server[t]]
        /\ written' = [written EXCEPT ![o] = server[t]]
        /\ UNCHANGED <<server, py, sidecar, backups, docs, ego, pulls, opening, torn>>

OpenCode(o) ==
    LET t == opening[o]
    IN  /\ t # None /\ written[o] # 0
        /\ py' = [py EXCEPT ![t] = written[o]]
        /\ opening' = [opening EXCEPT ![o] = None]
        /\ written' = [written EXCEPT ![o] = 0]
        /\ torn' = torn \ {t}
        /\ UNCHANGED <<server, md, sidecar, backups, docs, ego, pulls>>

\* Nothing was answered, or a file cannot be written.
OpenFailed(o) ==
    /\ opening[o] # None
    /\ opening' = [opening EXCEPT ![o] = None]
    /\ written' = [written EXCEPT ![o] = 0]
    /\ torn' = IF written[o] = 0 THEN torn ELSE torn \union {opening[o]}
    /\ UNCHANGED <<server, files, ego, pulls>>

-----------------------------------------------------------------------------
(* Initialization *)

\* createEgoSkeleton, writing only what is missing.
Skeleton(found) ==
    /\ IF manifestState = "none"
       THEN /\ manifestState' = "ok"
            /\ manifest' = Scanned(found)
       ELSE UNCHANGED <<manifestState, manifest>>
    /\ progress' = IF progress = "none" THEN "empty" ELSE progress

ServerSkeleton ==
    /\ progress = "none" \/ manifestState = "none"
    /\ Skeleton({})
    /\ UNCHANGED <<server, files, pulls, opens>>

\* importTasksFolder copies what docs/tasks does not have, generateStudentStubs
\* writes the stubs that are missing, where the solution can be read.
OfflineInit(imported, stubs) ==
    /\ docs' = docs \union imported
    /\ stubs \subseteq {t \in docs' : py[t] = Absent}
    /\ py' = [t \in Task |-> IF t \in stubs THEN LocalStub ELSE py[t]]
    /\ Skeleton(docs')
    /\ UNCHANGED <<server, md, sidecar, backups, pulls, opens>>

\* An initialization stops at a file it cannot write.  Whatever it imported stays;
\* createEgoSkeleton writes a manifest without entries before progress.json, and
\* the entries of the tasks found come after both.
InitFails(imported) ==
    /\ docs' = docs \union imported
    /\ IF manifestState = "none"
       THEN /\ manifestState' \in {"none", "ok"}
            /\ manifest' = NoManifest
            /\ progress' \in {progress, IF manifestState' = "ok" /\ progress = "none"
                                        THEN "empty" ELSE progress}
       ELSE UNCHANGED ego
    /\ UNCHANGED <<server, py, md, sidecar, backups, pulls, opens>>

\* The window is reloaded, or the editor ends.
Reload ==
    /\ pulling' = {}
    /\ left' = [p \in Pull |-> {}]
    /\ got' = [p \in Pull |-> Nothing]
    /\ opening' = [o \in Opener |-> None]
    /\ written' = [o \in Opener |-> 0]
    /\ torn' = torn \union {opening[o] : o \in {q \in Opener : written[q] # 0}}
    /\ Forget(Pull)
    /\ UNCHANGED <<server, files, ego>>

-----------------------------------------------------------------------------
Init ==
    /\ server = [t \in Task |-> 1]
    /\ py = [t \in Task |-> Absent]
    /\ md = [t \in Task |-> Absent]
    /\ sidecar = [t \in Task |-> Absent]
    /\ backups = [t \in Task |-> {}]
    /\ docs = {}
    /\ manifestState \in {"none", "invalid"}
    /\ manifest = NoManifest
    /\ progress = "none"
    /\ pulling = {}
    /\ left = [p \in Pull |-> {}]
    /\ listed = [p \in Pull |-> [t \in Task |-> 1]]
    /\ base = [p \in Pull |-> NoManifest]
    /\ got = [p \in Pull |-> Nothing]
    /\ entries = [p \in Pull |-> NoManifest]
    /\ opening = [o \in Opener |-> None]
    /\ written = [o \in Opener |-> 0]
    /\ torn = {}

PullStep(p) ==
    \/ \E ts \in SUBSET Task : StartPull(p, ts)
    \/ \E t \in Task : Fetched(p, t) \/ FetchFailed(p, t)
    \/ WriteStatement(p) \/ WriteCode(p) \/ WriteFailed(p) \/ FinishPull(p)

OpenStep(o) ==
    \/ \E t \in Task : BeginOpen(o, t)
    \/ OpenStatement(o) \/ OpenCode(o) \/ OpenFailed(o)

Next ==
    \/ \E t \in Task : EditCode(t) \/ EditStatement(t) \/ Publish(t)
    \/ \E p \in Pull : PullStep(p)
    \/ \E o \in Opener : OpenStep(o)
    \/ \E imported \in SUBSET Importable, stubs \in SUBSET Task : OfflineInit(imported, stubs)
    \/ \E imported \in SUBSET Importable : InitFails(imported)
    \/ Solve \/ ServerSkeleton \/ Reload

Spec == Init /\ [][Next]_vars

-----------------------------------------------------------------------------
(* Properties *)

TypeOK ==
    /\ server \in [Task -> 1 .. MaxVersion]
    /\ py \in [Task -> Texts] /\ md \in [Task -> Texts]
    /\ sidecar \in [Task -> Texts]
    /\ backups \in [Task -> SUBSET Texts]
    /\ docs \subseteq Task
    /\ manifestState \in {"none", "invalid", "ok"}
    /\ manifest \in [Task -> Entry]
    /\ progress \in {"none", "empty", "rows"}
    /\ pulling \subseteq Pull
    /\ left \in [Pull -> SUBSET Task]
    /\ listed \in [Pull -> [Task -> 1 .. MaxVersion]]
    /\ base \in [Pull -> [Task -> Entry]]
    /\ got \in [Pull -> [task : Task \union {None}, v : 0 .. MaxVersion,
                         md : BOOLEAN, file : {"md", "py"}]]
    /\ entries \in [Pull -> [Task -> Entry]]
    /\ opening \in [Opener -> Task \union {None}]
    /\ written \in [Opener -> 0 .. MaxVersion]
    /\ torn \subseteq Task

\* No command replaces code the student has written, however pulls, failures,
\* reloads and edits follow each other.
KeepsCode == \A t \in Task : py[t] \in Edited => py'[t] \in Edited

\* A task is opened whose last opening left it without its code.
Reopened(t) == t \in torn /\ \E o \in Opener : opening[o] = t /\ written[o] = 0

\* A statement the student has annotated is on disk until the student changes
\* it: as the statement, or as one of its backups.  Only the statement of a task
\* whose last opening could write it and not the code is lost, when the task is
\* opened again.
KeepsAnnotations ==
    \A t \in Task, e \in Edited :
        e \in backups[t] \union {md[t]}
          => \/ e \in backups'[t] \union {md'[t]}
             \/ md[t] = e /\ (md'[t] \in Edited \/ Reopened(t))

\* What the manifest says of a pulled task can be found on disk: its files, the
\* server's stub beside code that differs, a backup of a replaced statement.
ManifestTellsTruth ==
    \A t \in Task :
        /\ manifest[t].v > 0 => py[t] # Absent /\ md[t] # Absent
        /\ manifest[t].py => sidecar[t] # Absent
        /\ manifest[t].md => backups[t] # {}

\* Nothing .ego/ knows is forgotten: a manifest that does not parse is left
\* for repair, entries and their flags stay, progress stays.
KeepsEgoData ==
    /\ manifestState = "invalid" => manifestState' = "invalid"
    /\ progress = "rows" => progress' = "rows"
    /\ \A t \in Task :
         /\ manifest[t] # NoEntry => manifest'[t] # NoEntry
         /\ manifest[t].md => manifest'[t].md
         /\ manifest[t].py => manifest'[t].py
=============================================================================
