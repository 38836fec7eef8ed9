---------------------------- MODULE MCCommands ----------------------------
(***************************************************************************)
(* Small instances of the extension's commands, checked side by side: the   *)
(* sign-in (ForgejoLogin, extended), the session, the workspace under three *)
(* casts of pulls and openings, and the checks.  The modules share no       *)
(* state; in a behaviour only the part drawn at the start moves, so each    *)
(* property holds here exactly when it holds of its own module.             *)
(***************************************************************************)
EXTENDS ForgejoLogin, Integers, Sequences, TLC

CONSTANTS a1, a2, s1, t1, t2, u1, u2, c1, a, b, p1, p2, o1, good, bad, cli

VARIABLES
    part,
    secret, accepted, config, urlSetting, apiUrl, apiToken, context, barMode, phase, step, after,
    lag,
    server, py, md, sidecar, backups, docs, manifestState, manifest, progress,
    pulling, left, listed, base, got, entries, opening,
    written, torn,
    disk, mode, working, cached, local, logs, checks, pushes, rows, runs, ran, received

signInVars == vars
sessionVars == <<secret, accepted, config, urlSetting, apiUrl, apiToken, context, barMode, phase,
                 step, after, lag>>
folderVars == <<server, py, md, sidecar, backups, docs, manifestState, manifest, progress,
                pulling, left, listed, base, got, entries, opening, written, torn>>
checkVars == <<disk, mode, working, cached, local, logs, checks, pushes, rows, runs, ran, received>>
commandVars == <<part, signInVars, sessionVars, folderVars, checkVars>>

MCAttempt == {a1, a2}
MCStudent == {s1}

Session == INSTANCE EditorSession WITH Token <- {t1, t2}, Url <- {u1, u2}, Command <- {c1}

\* One task pulled twice at once.
Pulls == INSTANCE Workspace WITH Task <- {a}, Pull <- {p1, p2}, Opener <- {}, Importable <- {},
                                 MaxVersion <- 2, MaxEdit <- 1
\* One task pulled again and again; two texts of the student.
Repulls == INSTANCE Workspace WITH Task <- {a}, Pull <- {p1}, Opener <- {}, Importable <- {},
                                   MaxVersion <- 2, MaxEdit <- 2
\* Two tasks, one pull.
TwoTasks == INSTANCE Workspace WITH Task <- {a, b}, Pull <- {p1}, Opener <- {}, Importable <- {},
                                    MaxVersion <- 1, MaxEdit <- 1
\* Two tasks opened and imported, no pull.
Opens == INSTANCE Workspace WITH Task <- {a, b}, Pull <- {}, Opener <- {o1},
                                 Importable <- {a, b}, MaxVersion <- 2, MaxEdit <- 1

\* Checks of a right and a wrong text of one task.
Checks == INSTANCE LocalChecks WITH Tasks <- {t1}, Texts <- {good, bad}, Right <- {good},
              Commands <- {cli}, MaxChecks <- 2, MaxPushes <- 1, progress <- rows
\* Two tasks to push.
Pushes == INSTANCE LocalChecks WITH Tasks <- {t1, t2}, Texts <- {good}, Right <- {good},
              Commands <- {cli}, MaxChecks <- 2, MaxPushes <- 1, progress <- rows

ASSUME CommandsAssumption ==
    /\ Session!SessionAssumption
    /\ Pulls!WorkspaceAssumption /\ Repulls!WorkspaceAssumption
    /\ TwoTasks!WorkspaceAssumption /\ Opens!WorkspaceAssumption
    /\ Checks!LocalAssumption /\ Pushes!LocalAssumption

-----------------------------------------------------------------------------
FolderInit ==
    CASE part = "pulls" -> Pulls!Init
      [] part = "repulls" -> Repulls!Init
      [] part = "twoTasks" -> TwoTasks!Init
      [] part = "opens" -> Opens!Init
      [] OTHER -> Pulls!Init /\ manifestState = "none"

ChecksInit ==
    CASE part = "checks" -> Checks!Init
      [] part = "pushes" -> Pushes!Init /\ working = {cli}
      [] OTHER -> Checks!Init /\ mode = "server" /\ working = {}

CommandsInit ==
    /\ part \in {"signIn", "session", "pulls", "repulls", "twoTasks", "opens", "checks", "pushes"}
    /\ Init
    /\ Session!Init /\ (part # "session" => secret = None /\ config = "none" /\ urlSetting = u1)
    /\ FolderInit
    /\ ChecksInit

OnlySession == UNCHANGED <<part, signInVars, folderVars, checkVars>>
OnlyFolder == UNCHANGED <<part, signInVars, sessionVars, checkVars>>
OnlyChecks == UNCHANGED <<part, signInVars, sessionVars, folderVars>>

CommandsNext ==
    \/ part = "signIn" /\ Next /\ UNCHANGED <<part, sessionVars, folderVars, checkVars>>
    \/ part = "session" /\ Session!Next /\ OnlySession
    \/ part = "pulls" /\ Pulls!Next /\ OnlyFolder
    \/ part = "repulls" /\ Repulls!Next /\ OnlyFolder
    \/ part = "twoTasks" /\ TwoTasks!Next /\ OnlyFolder
    \/ part = "opens" /\ Opens!Next /\ OnlyFolder
    \/ part = "checks" /\ Checks!Next /\ OnlyChecks
    \/ part = "pushes" /\ Pushes!Next /\ OnlyChecks

CommandsSpec == CommandsInit /\ [][CommandsNext]_commandVars

\* Bound: while pushes are looked at, the command line stays installed.
ToolStays == part = "pushes" => working = {cli}

\* Bound: with two pulls the student edits the code; the statements are edited
\* in the part with one pull.
StatementStays == part = "pulls" => md[a] >= 0

Symmetry == Permutations({p1, p2}) \union Permutations({a, b})

-----------------------------------------------------------------------------
(* Properties: each says of one component what its parts say of it here; the *)
(* sign-in's are those of ForgejoLogin.                                      *)

\* Once nothing runs, the context keys agree with config.yaml, a server
\* workspace's requests carry the stored token and go to the URL of the setting
\* (recreateApi); the window never offers the signed-in menus without a stored
\* token, whatever commands ran one after another (extension.ts, modeSwitch.ts).
SessionAgrees ==
    part = "session" => /\ Session!TypeOK
                        /\ Session!ContextFollowsConfig
                        /\ Session!ApiFollowsSession
                        /\ Session!SignedInMeansToken

\* The student's work survives.  No pull replaces code the student has written
\* (decideTextFile), however two pulls of a task overlap, fail and are cut off;
\* an annotated statement is on disk, as it is or as a backup, until the student
\* changes it, however often new versions are pulled or tasks opened; nothing
\* .ego/ knows is forgotten by a pull or by a second initialization; and what the
\* manifest says of a pulled task can be found on disk (pullTasks.ts).
WorkKept ==
    /\ [](/\ part = "pulls" => Pulls!TypeOK /\ Pulls!ManifestTellsTruth
          /\ part = "repulls" => Repulls!TypeOK /\ Repulls!ManifestTellsTruth
          /\ part = "twoTasks" => TwoTasks!TypeOK
          /\ part = "opens" => Opens!TypeOK)
    /\ [][/\ part = "pulls" => Pulls!KeepsCode
          /\ part = "repulls" => Repulls!KeepsCode /\ Repulls!KeepsAnnotations
          /\ part = "opens" => Opens!KeepsAnnotations /\ Opens!KeepsEgoData
          /\ part = "twoTasks" => TwoTasks!KeepsEgoData]_commandVars

\* A task is solved on the server only when a right solution was executed; its
\* attempts count the runs, although checks of one task overlap with each other
\* and with pushes (check.py:144, progress.py:81); and "Pushed n progress entries
\* to server." means that every entry read is stored, though answers get lost and
\* checks change what there is to push.
ProgressIsEarned ==
    /\ part = "checks" => /\ Checks!TypeOK /\ Checks!SolvedIsEarned
                          /\ Checks!AttemptsCountRuns /\ Checks!PushedIsStored
    /\ part = "pushes" => /\ Pushes!TypeOK /\ Pushes!SolvedIsEarned
                          /\ Pushes!AttemptsCountRuns /\ Pushes!PushedIsStored
=============================================================================
