----------------------------- MODULE LocalChecks -----------------------------
(***************************************************************************)
(* Checks begun in the editor, offline through the ego command line and     *)
(* online through the server, the local progress and run logs they leave,   *)
(* and the push of the local progress.  A solution is one of a few texts,   *)
(* some of them right; a task has one version.  Files of the workspace are  *)
(* read and written in one step each; the command line is a process of its  *)
(* own, and of the server one worker process is modelled, the default.      *)
(***************************************************************************)
EXTENDS Naturals, Sequences, FiniteSets

CONSTANTS Tasks,
          Texts,      \* contents of a task's file
          Right,      \* those that pass every test
          Commands,   \* ways to call the command line that detectPythonCmd tries
          MaxChecks,  \* bound: checks
          MaxPushes,  \* bound: pushes
          None

Statuses == {"passed", "new"}
Rows == [status : Statuses, attempts : Nat \ {0}]
Entries == [task : Tasks, text : Texts, status : Statuses, attempts : Nat \ {0}]

LocalAssumption ==
    /\ None \notin Tasks \cup Texts \cup Commands \cup Rows /\ IsFiniteSet(Tasks)
    /\ Right \subseteq Texts
    /\ MaxChecks \in Nat \ {0} /\ MaxPushes \in Nat

Check == 1..MaxChecks
Push == 1..MaxPushes

VARIABLES
    disk,       \* the task_*.py files
    mode,       \* of .ego/config.yaml
    working,    \* commands that would work here
    cached,     \* pythonCmdCache of this folder
    local,      \* .ego/progress.json
    logs,       \* the text of the latest log in .ego/runs, by task
    checks,     \* runCheckOnCode, each used once
    pushes,     \* cmdPush, each used once
    progress,   \* the student's rows on the server
    runs,       \* the student's runs on the server: their statuses
    ran,        \* history: what was executed
    received    \* history: entries the server has stored

fileVars == <<disk, local, logs>>
toolVars == <<mode, working, cached>>
serverVars == <<progress, runs>>
histVars == <<ran, received>>
vars == <<disk, mode, working, cached, local, logs, checks, pushes, progress, runs, ran, received>>

\* Mutant: whatever ran is called passed.
verdictAny(x) == "passed"
\* run_check, and the mapping to a progress status; "new" stands for all that
\* are not passed.
verdict(x) == IF x \in Right THEN "passed" ELSE "new"

-----------------------------------------------------------------------------
(* A check *)

NoCopy == [t \in Tasks |-> None]
Unused == [stage |-> "unused", task |-> None, text |-> None, cmd |-> None, seen |-> None,
           copy |-> NoCopy, before |-> 0]
At(i, stage) == checks[i].stage = stage
Goes(i, stage) == checks' = [checks EXCEPT ![i].stage = stage]
AttemptsOf(t) == IF progress[t] = None THEN 0 ELSE progress[t].attempts

\* runCheckOnCode: offline the text is first written to the task's file.
RunCheckOnCode(i, t, x) ==
    /\ At(i, "unused")
    /\ checks' = [checks EXCEPT ![i] =
           [stage |-> IF mode = "offline" THEN "detecting" ELSE "server", task |-> t, text |-> x,
            cmd |-> None, seen |-> None, copy |-> NoCopy, before |-> AttemptsOf(t)]]
    /\ disk' = IF mode = "offline" THEN [disk EXCEPT ![t] = x] ELSE disk
    /\ UNCHANGED <<toolVars, local, logs, pushes, serverVars, histVars>>

\* cmdCheck takes the text of the editor, saved or not.
CmdCheck(i) == \E t \in Tasks, x \in Texts : RunCheckOnCode(i, t, x)
\* cmdCheckTask takes the file.
CmdCheckTask(i) == \E t \in Tasks : disk[t] # None /\ RunCheckOnCode(i, t, disk[t])

\* detectPythonCmd: the cached command, or one whose probes have succeeded.
Detected(i) ==
    /\ At(i, "detecting")
    /\ \E c \in IF cached # None THEN {cached} ELSE working :
        /\ cached' = c
        /\ checks' = [checks EXCEPT ![i].stage = "spawning", ![i].cmd = c]
    /\ UNCHANGED <<mode, working, fileVars, pushes, serverVars, histVars>>

NotDetected(i) ==
    /\ At(i, "detecting") /\ cached = None /\ working = {}
    /\ Goes(i, "ended")
    /\ UNCHANGED <<toolVars, fileVars, pushes, serverVars, histVars>>

Spawned(i) ==
    /\ At(i, "spawning") /\ checks[i].cmd \in working
    /\ Goes(i, "running")
    /\ UNCHANGED <<toolVars, fileVars, pushes, serverVars, histVars>>

\* The child's error event, or its close without output.
SpawnFails(i) ==
    /\ At(i, "spawning") /\ checks[i].cmd \notin working
    /\ Goes(i, "ended")
    /\ UNCHANGED <<toolVars, fileVars, pushes, serverVars, histVars>>

\* The process reads the file that is there by now, and runs it.
CliRuns(i) ==
    /\ At(i, "running")
    /\ LET t == checks[i].task IN
       /\ checks' = [checks EXCEPT ![i].stage = "loading", ![i].seen = disk[t]]
       /\ ran' = ran \cup {<<t, disk[t]>>}
    /\ UNCHANGED <<toolVars, fileVars, pushes, serverVars, received>>

\* _update_progress begins with a copy of progress.json.
CliLoads(i) ==
    /\ At(i, "loading")
    /\ checks' = [checks EXCEPT ![i].stage = "saving", ![i].copy = local]
    /\ UNCHANGED <<toolVars, fileVars, pushes, serverVars, histVars>>

\* progress.json becomes the copy, with an entry of n attempts for the task.
Saves(i, n) ==
    LET t == checks[i].task IN
    /\ At(i, "saving")
    /\ local' = [checks[i].copy EXCEPT ![t] = [task |-> t, text |-> checks[i].seen,
                                              status |-> verdict(checks[i].seen), attempts |-> n]]
    /\ checks' = [checks EXCEPT ![i].stage = "logging", ![i].copy = NoCopy]
    /\ UNCHANGED <<toolVars, disk, logs, pushes, serverVars, histVars>>

CopyAttempts(i) ==
    LET e == checks[i].copy[checks[i].task] IN IF e = None THEN 0 ELSE e.attempts
\* Mutant: a new entry has made no attempt.
CliSavesUncounted(i) == Saves(i, IF CopyAttempts(i) = 0 THEN 0 ELSE CopyAttempts(i) + 1)
\* What another command line has saved since is overwritten.
CliSaves(i) == Saves(i, CopyAttempts(i) + 1)

\* _write_run_log.
CliLogs(i) ==
    /\ At(i, "logging")
    /\ logs' = [logs EXCEPT ![checks[i].task] = checks[i].seen]
    /\ Goes(i, "printed")
    /\ UNCHANGED <<toolVars, disk, local, pushes, serverVars, histVars>>

\* The process dies, or fails; its result is printed before it is saved.
CliDies(i) ==
    /\ checks[i].stage \in {"running", "loading", "saving", "logging"}
    /\ Goes(i, "ended")
    /\ UNCHANGED <<toolVars, fileVars, pushes, serverVars, histVars>>

\* A row of progress for a run of status s; before is the attempts it has had.
Upsert(t, s, before) ==
    /\ progress' = [progress EXCEPT ![t] = [status |-> s, attempts |-> before + 1]]
    /\ runs' = [runs EXCEPT ![t] = Append(@, s)]

\* Mutant: attempts are read before the checker's thread is awaited.
ServerStoresStale(i) ==
    /\ At(i, "server")
    /\ Upsert(checks[i].task, verdict(checks[i].text), checks[i].before)
    /\ ran' = ran \cup {<<checks[i].task, checks[i].text>>}
    /\ Goes(i, "answered")
    /\ UNCHANGED <<toolVars, fileVars, pushes, received>>
\* POST /check: the checker's thread has ended, row and run are stored.
ServerStores(i) ==
    /\ At(i, "server")
    /\ Upsert(checks[i].task, verdict(checks[i].text), AttemptsOf(checks[i].task))
    /\ ran' = ran \cup {<<checks[i].task, checks[i].text>>}
    /\ Goes(i, "answered")
    /\ UNCHANGED <<toolVars, fileVars, pushes, received>>

\* The result is shown, or the request has failed.
CheckEnds(i) ==
    /\ checks[i].stage \in {"printed", "server", "answered"}
    /\ Goes(i, "ended")
    /\ UNCHANGED <<toolVars, fileVars, pushes, serverVars, histVars>>

-----------------------------------------------------------------------------
(* A push *)

NoPush == [stage |-> "unused", all |-> {}, left |-> {}, now |-> None, stored |-> FALSE,
           pushed |-> 0, errors |-> 0]

\* cmdPush reads progress.json.
CmdPush(p) ==
    /\ pushes[p].stage = "unused" /\ mode = "server"
    /\ LET entries == {local[t] : t \in Tasks} \ {None} IN
       /\ entries # {}
       /\ pushes' = [pushes EXCEPT ![p] = [stage |-> "pushing", all |-> entries, left |-> entries,
                                           now |-> None, stored |-> FALSE, pushed |-> 0, errors |-> 0]]
    /\ UNCHANGED <<toolVars, fileVars, checks, serverVars, histVars>>

\* The next entry, with the latest log of its task, is sent.
PushNext(p) ==
    /\ pushes[p].now = None
    /\ \E e \in pushes[p].left :
        pushes' = [pushes EXCEPT ![p].now = e, ![p].left = pushes[p].left \ {e}, ![p].stored = FALSE]
    /\ UNCHANGED <<toolVars, fileVars, checks, serverVars, histVars>>

\* push_progress.
PushStored(p) ==
    /\ pushes[p].now # None /\ ~pushes[p].stored
    /\ LET e == pushes[p].now IN
       /\ Upsert(e.task, e.status, AttemptsOf(e.task))
       /\ received' = received \cup {e}
    /\ pushes' = [pushes EXCEPT ![p].stored = TRUE]
    /\ UNCHANGED <<toolVars, fileVars, checks, ran>>

PushAnswered(p) ==
    /\ pushes[p].now # None /\ pushes[p].stored
    /\ pushes' = [pushes EXCEPT ![p].now = None, ![p].pushed = pushes[p].pushed + 1]
    /\ UNCHANGED <<toolVars, fileVars, checks, serverVars, histVars>>

\* Mutant: a failed entry is skipped in silence.
PushFailsSilently(p) ==
    /\ pushes[p].now # None
    /\ pushes' = [pushes EXCEPT ![p].now = None]
    /\ UNCHANGED <<toolVars, fileVars, checks, serverVars, histVars>>
\* 404, or no answer although the entry may have been stored.
PushFails(p) ==
    /\ pushes[p].now # None
    /\ pushes' = [pushes EXCEPT ![p].now = None, ![p].errors = pushes[p].errors + 1]
    /\ UNCHANGED <<toolVars, fileVars, checks, serverVars, histVars>>

PushEnds(p) ==
    /\ pushes[p].stage = "pushing" /\ pushes[p].now = None /\ pushes[p].left = {}
    /\ pushes' = [pushes EXCEPT ![p].stage = "ended"]
    /\ UNCHANGED <<toolVars, fileVars, checks, serverVars, histVars>>

-----------------------------------------------------------------------------
(* The workspace *)

\* A save; with autoCheckOnSave a check of the same text comes before it.
Save ==
    /\ \E t \in Tasks, x \in Texts : disk' = [disk EXCEPT ![t] = x]
    /\ UNCHANGED <<toolVars, local, logs, checks, pushes, serverVars, histVars>>

SwitchMode ==
    /\ mode' = IF mode = "offline" THEN "server" ELSE "offline"
    /\ UNCHANGED <<working, cached, fileVars, checks, pushes, serverVars, histVars>>

\* cmdSetupPython, or tools installed by hand.
SetupPython ==
    /\ \E c \in Commands \ working : working' = working \cup {c}
    /\ UNCHANGED <<mode, cached, fileVars, checks, pushes, serverVars, histVars>>

ToolRemoved ==
    /\ \E c \in working : working' = working \ {c}
    /\ UNCHANGED <<mode, cached, fileVars, checks, pushes, serverVars, histVars>>

-----------------------------------------------------------------------------

Init ==
    /\ disk = [t \in Tasks |-> None] /\ mode \in {"offline", "server"}
    /\ working \in SUBSET Commands /\ cached = None
    /\ local = [t \in Tasks |-> None] /\ logs = [t \in Tasks |-> None]
    /\ checks = [i \in Check |-> Unused] /\ pushes = [p \in Push |-> NoPush]
    /\ progress = [t \in Tasks |-> None] /\ runs = [t \in Tasks |-> <<>>]
    /\ ran = {} /\ received = {}

Proceeds(i) ==
    \/ Detected(i) \/ NotDetected(i) \/ Spawned(i) \/ SpawnFails(i)
    \/ CliRuns(i) \/ CliLoads(i) \/ CliSaves(i) \/ CliLogs(i) \/ ServerStores(i) \/ CheckEnds(i)

PushProceeds(p) == PushNext(p) \/ PushStored(p) \/ PushAnswered(p) \/ PushFails(p) \/ PushEnds(p)

Next ==
    \/ \E i \in Check : CmdCheck(i) \/ CmdCheckTask(i) \/ Proceeds(i) \/ CliDies(i)
    \/ \E p \in Push : CmdPush(p) \/ PushProceeds(p)
    \/ Save \/ SwitchMode \/ SetupPython \/ ToolRemoved

Spec == Init /\ [][Next]_vars

-----------------------------------------------------------------------------
(* Properties *)

\* Every variable keeps to its values.
TypeOK ==
    /\ disk \in [Tasks -> Texts \cup {None}] /\ mode \in {"offline", "server"}
    /\ working \subseteq Commands /\ cached \in Commands \cup {None}
    /\ local \in [Tasks -> Entries \cup {None}] /\ logs \in [Tasks -> Texts \cup {None}]
    /\ \A i \in Check :
        /\ checks[i].task \in Tasks \cup {None} /\ checks[i].seen \in Texts \cup {None}
        /\ At(i, "spawning") => checks[i].cmd \in Commands
    /\ \A p \in Push :
        /\ pushes[p].left \subseteq pushes[p].all /\ pushes[p].all \subseteq Entries
        /\ pushes[p].now \in pushes[p].all \cup {None}
    /\ progress \in [Tasks -> Rows \cup {None}]
    /\ \A t \in Tasks : runs[t] \in Seq(Statuses)

\* A task is solved on the server only when a right solution of it has been
\* executed, by the server or by a command line whose result was pushed.
SolvedIsEarned ==
    \A t \in Tasks : progress[t] # None /\ progress[t].status = "passed"
                     => \E x \in Right : <<t, x>> \in ran

\* check.py:144 and progress.py:81: attempts count the runs, although checks of
\* one task overlap with each other and with pushes.
AttemptsCountRuns == \A t \in Tasks : AttemptsOf(t) = Len(runs[t])

\* «Pushed n progress entries to server.» means that every entry read is stored.
PushedIsStored ==
    \A p \in Push : pushes[p].stage = "ended" /\ pushes[p].errors = 0
                    => /\ pushes[p].all \subseteq received
                       /\ pushes[p].pushed = Cardinality(pushes[p].all)
=============================================================================
