--------------------------- MODULE EditorSession ---------------------------
(***************************************************************************)
(* What the VS Code extension believes about its session.  Four copies of   *)
(* "who am I and where do I work" are kept in step by hand: the token in    *)
(* SecretStorage, the mode in .ego/config.yaml, the EgoApi object in        *)
(* memory, and what the window shows (context keys, status bar).            *)
(*                                                                          *)
(* A command runs until it waits for the student or for the server; other   *)
(* commands run in those waits.  Accesses to local files, settings and      *)
(* SecretStorage are one step with the code around them, except that a      *)
(* write to .ego/ may fail and what came before it stays done.  Reload is   *)
(* the window being reloaded at any moment: commands are lost, files stay.  *)
(***************************************************************************)
EXTENDS FiniteSets

CONSTANTS Token,    \* tokens the server can issue
          Url,      \* values of the setting ego.serverUrl
          Command,  \* the student's commands that can be running at once
          None      \* no token

SessionAssumption ==
    /\ None \notin Token
    /\ Url # {}
    /\ IsFiniteSet(Command)

VARIABLES
    secret,      \* SecretStorage "ego.token"
    accepted,    \* the tokens the server accepts
    config,      \* mode in .ego/config.yaml, "none" when there is no file
    urlSetting,  \* ego.serverUrl
    apiUrl,      \* EgoApi.serverUrl of the api in use
    apiToken,    \* EgoApi.token of the api in use
    context,     \* the context keys ego.offline, ego.loggedIn, ego.ready
    barMode,     \* the mode the status bar shows
    phase,       \* "starting" while activate() waits for api.me()
    step,        \* where each command waits
    after        \* what the caller of an init wizard sets the bar to

\* History, read by the properties only: which copies a failed write has left
\* behind, "window" (the context keys) and "api" (the token of the api).
VARIABLE lag

serverVars == <<secret, accepted>>
apiVars == <<apiUrl, apiToken>>
vars == <<secret, accepted, config, urlSetting, apiUrl, apiToken, context,
          barMode, phase, step, after, lag>>

Steps == {"idle", "signIn", "askUrl", "initUrl", "initSignIn", "initPull",
          "offlineSetup", "switchPick", "switchNoToken", "switchProbe"}

Running == phase = "running"

\* decideSession: the workspace's mode decides whether the token is used.
SessionMode(cfg) == IF cfg = "offline" THEN "offline" ELSE "server"
SessionToken(cfg, s) == IF SessionMode(cfg) = "server" THEN s ELSE None

\* recreateApi, with the config, token and URL it reads.
RecreateApi(cfg, s, url) ==
    /\ apiUrl' = url
    /\ apiToken' = SessionToken(cfg, s)

\* withReady: .ego/config.yaml exists and parses.
EnvironmentReady == config # "none"

Goto(c, s) == step' = [step EXCEPT ![c] = s]

\* The end of a wizard: its caller sets the status bar, whatever came of it.
Leave(c) ==
    /\ Goto(c, "idle")
    /\ barMode' = IF after[c] = "none" THEN barMode ELSE after[c]

\* A wizard that throws takes its caller along: nobody sets the bar.
Throw(c) == Goto(c, "idle") /\ UNCHANGED barMode

-----------------------------------------------------------------------------
(* Window start *)

\* activate() up to its first wait for the server.
Activate(cfg, s) ==
    /\ apiUrl' = urlSetting
    /\ apiToken' = SessionToken(cfg, s)
    /\ context' = [offline |-> SessionMode(cfg) = "offline",
                   loggedIn |-> FALSE,
                   ready |-> cfg # "none"]
    /\ IF SessionToken(cfg, s) # None
       THEN phase' = "starting" /\ barMode' = "server"
       ELSE phase' = "running" /\ barMode' = SessionMode(cfg)

Reload ==
    /\ Running
    /\ Activate(config, secret)
    /\ step' = [c \in Command |-> "idle"]
    /\ lag' = {}
    /\ UNCHANGED <<secret, accepted, config, urlSetting, after>>

StartAccepted ==
    /\ phase = "starting"
    /\ apiToken \in accepted
    /\ context' = [context EXCEPT !.loggedIn = TRUE]
    /\ barMode' = SessionMode(config)
    /\ phase' = "running"
    /\ UNCHANGED <<secret, accepted, config, urlSetting, apiUrl, apiToken, step, after, lag>>

\* api.me() failed, because the token is refused or because nothing answered.
StartFailed ==
    /\ phase = "starting"
    /\ secret' = None
    /\ barMode' = SessionMode(config)
    /\ phase' = "running"
    /\ UNCHANGED <<accepted, config, urlSetting, apiUrl, apiToken, context, step, after, lag>>

\* The server stops accepting a token.
Expire(t) ==
    /\ t \in accepted
    /\ accepted' = accepted \ {t}
    /\ UNCHANGED <<secret, config, urlSetting, apiUrl, apiToken, context,
                   barMode, phase, step, after, lag>>

-----------------------------------------------------------------------------
(* Ego: Login *)

BeginLogin(c) ==
    /\ Running /\ step[c] = "idle"
    /\ Goto(c, "signIn")
    /\ UNCHANGED <<secret, accepted, config, urlSetting, apiUrl, apiToken,
                   context, barMode, phase, after, lag>>

\* The token goes to SecretStorage and to the api in use; the mode in
\* config.yaml stays, the status bar turns to Server.
SignedIn(c, t) ==
    /\ Running /\ step[c] = "signIn"
    /\ secret' = t
    /\ accepted' = accepted \union {t}
    /\ apiToken' = t
    /\ context' = [context EXCEPT !.loggedIn = TRUE]
    /\ barMode' = "server"
    /\ Goto(c, "idle")
    /\ lag' = lag \ {"api"}
    /\ UNCHANGED <<config, urlSetting, apiUrl, phase, after>>

\* The account's name cannot be written to config.yaml.  "Login failed" is
\* shown, but the token is stored and in use.
LoginNotWritten(c, t) ==
    /\ Running /\ step[c] = "signIn"
    /\ EnvironmentReady
    /\ secret' = t
    /\ accepted' = accepted \union {t}
    /\ apiToken' = t
    /\ Goto(c, "idle")
    /\ lag' = lag \ {"api"}
    /\ UNCHANGED <<config, urlSetting, apiUrl, context, barMode, phase, after>>

\* The student cancels a prompt, or the server refuses.
GiveUp(c) ==
    /\ Running /\ step[c] \in {"signIn", "askUrl", "switchPick", "switchNoToken"}
    /\ Goto(c, "idle")
    /\ UNCHANGED <<secret, accepted, config, urlSetting, apiUrl, apiToken,
                   context, barMode, phase, after, lag>>

-----------------------------------------------------------------------------
(* Ego: Set Server, and the same setting edited in the Settings page *)

BeginSetServer(c) ==
    /\ Running /\ step[c] = "idle"
    /\ Goto(c, "askUrl")
    /\ UNCHANGED <<secret, accepted, config, urlSetting, apiUrl, apiToken,
                   context, barMode, phase, after, lag>>

SetServer(c, url) ==
    /\ Running /\ step[c] = "askUrl"
    /\ urlSetting' = url
    /\ RecreateApi(config, secret, url)
    /\ Goto(c, "idle")
    /\ lag' = lag \ {"api"}
    /\ UNCHANGED <<secret, accepted, config, context, barMode, phase, after>>

-----------------------------------------------------------------------------
(* Ego: Init *)

\* From the command (the bar is set afterwards) or from the Welcome page.
BeginServerInit(c, bar) ==
    /\ Running /\ step[c] = "idle"
    /\ bar \in {"server", "none"}
    /\ Goto(c, "initUrl")
    /\ after' = [after EXCEPT ![c] = bar]
    /\ UNCHANGED <<secret, accepted, config, urlSetting, apiUrl, apiToken,
                   context, barMode, phase, lag>>

BeginOfflineInit(c, bar) ==
    /\ Running /\ step[c] = "idle"
    /\ bar \in {"offline", "none"}
    /\ Goto(c, "offlineSetup")
    /\ after' = [after EXCEPT ![c] = bar]
    /\ UNCHANGED <<secret, accepted, config, urlSetting, apiUrl, apiToken,
                   context, barMode, phase, lag>>

\* The server answers health(); saving the setting fires the handler that
\* recreates the api.
InitReachable(c, url) ==
    /\ Running /\ step[c] = "initUrl"
    /\ urlSetting' = url
    /\ IF url # urlSetting
       THEN RecreateApi(config, secret, url) /\ lag' = lag \ {"api"}
       ELSE UNCHANGED <<apiVars, lag>>
    /\ Goto(c, "initSignIn")
    /\ UNCHANGED <<secret, accepted, config, context, barMode, phase, after>>

\* It does not, and the student takes "Use Offline".
InitUseOffline(c) ==
    /\ Running /\ step[c] = "initUrl"
    /\ Goto(c, "offlineSetup")
    /\ UNCHANGED <<secret, accepted, config, urlSetting, apiUrl, apiToken,
                   context, barMode, phase, after, lag>>

\* A cancelled prompt, a refused sign-in, a missing tasks folder; or the URL,
\* the token or the tasks folder cannot be written, which throws.
InitAbandoned(c) ==
    /\ Running /\ step[c] \in {"initUrl", "initSignIn", "offlineSetup"}
    /\ Leave(c) \/ Throw(c)
    /\ UNCHANGED <<secret, accepted, config, urlSetting, apiUrl, apiToken,
                   context, phase, after, lag>>

\* The token is stored and .ego/ is created, then the tasks are downloaded.
InitSignedIn(c, t) ==
    /\ Running /\ step[c] = "initSignIn"
    /\ secret' = t
    /\ accepted' = accepted \union {t}
    /\ config' = "server"
    /\ Goto(c, "initPull")
    /\ UNCHANGED <<urlSetting, apiUrl, apiToken, context, barMode, phase, after, lag>>

\* The token is stored, .ego/ cannot be created: config.yaml, its first file, may
\* or may not have been written.  The api and the window stay as they were.
InitNotWritten(c, t) ==
    /\ Running /\ step[c] = "initSignIn"
    /\ secret' = t
    /\ accepted' = accepted \union {t}
    /\ config' \in {config, "server"}
    /\ Leave(c)
    /\ lag' = lag \union {"api"} \union (IF config' = config THEN {} ELSE {"window"})
    /\ UNCHANGED <<urlSetting, apiUrl, apiToken, context, phase, after>>

\* The download ended, well or not.
InitPulled(c) ==
    /\ Running /\ step[c] = "initPull"
    /\ context' = [offline |-> FALSE, loggedIn |-> TRUE, ready |-> TRUE]
    /\ RecreateApi(config, secret, urlSetting)
    /\ Leave(c)
    /\ lag' = {}
    /\ UNCHANGED <<secret, accepted, config, urlSetting, phase, after>>

OfflineReady(c) ==
    /\ Running /\ step[c] = "offlineSetup"
    /\ config' = "offline"
    /\ context' = [offline |-> TRUE, loggedIn |-> FALSE, ready |-> TRUE]
    /\ RecreateApi("offline", secret, urlSetting)
    /\ Leave(c)
    /\ lag' = {}
    /\ UNCHANGED <<secret, accepted, urlSetting, phase, after>>

\* .ego/ cannot be created, or its manifest or the tasks' files, written after
\* config.yaml and outside of any try, fail.
OfflineNotReady(c) ==
    /\ Running /\ step[c] = "offlineSetup"
    /\ config' \in {config, "offline"}
    /\ Leave(c) \/ (config' = "offline" /\ Throw(c))
    /\ lag' = IF config' = config THEN lag ELSE lag \union {"window"}
    /\ UNCHANGED <<secret, accepted, urlSetting, apiUrl, apiToken, context, phase, after>>

-----------------------------------------------------------------------------
(* Ego: Switch Mode, in an initialized workspace only (withReady) *)

BeginSwitch(c) ==
    /\ Running /\ step[c] = "idle"
    /\ EnvironmentReady
    /\ Goto(c, "switchPick")
    /\ UNCHANGED <<secret, accepted, config, urlSetting, apiUrl, apiToken,
                   context, barMode, phase, after, lag>>

\* Mutant: the context keys are left to the next reload.
PickOfflineQuietly(c) ==
    /\ Running /\ step[c] = "switchPick"
    /\ config # "offline"
    /\ apiToken' = None
    /\ config' = "offline"
    /\ barMode' = "offline"
    /\ Goto(c, "idle")
    /\ UNCHANGED <<secret, accepted, urlSetting, apiUrl, context, phase, after, lag>>

PickOffline(c) ==
    /\ Running /\ step[c] = "switchPick"
    /\ config # "offline"
    /\ apiToken' = None
    /\ config' = "offline"
    /\ context' = [context EXCEPT !.offline = TRUE, !.ready = TRUE]
    /\ barMode' = "offline"
    /\ Goto(c, "idle")
    /\ lag' = {}
    /\ UNCHANGED <<secret, accepted, urlSetting, apiUrl, phase, after>>

\* The api has dropped its token when config.yaml cannot be written.
OfflineNotWritten(c) ==
    /\ Running /\ step[c] = "switchPick"
    /\ config # "offline"
    /\ apiToken' = None
    /\ Throw(c)
    /\ lag' = lag \union {"api"}
    /\ UNCHANGED <<secret, accepted, config, urlSetting, apiUrl, context, phase, after>>

\* Mutant: the stored token is only read.
PickServerOnly(c) ==
    /\ Running /\ step[c] = "switchPick"
    /\ config # "server"
    /\ Goto(c, IF secret = None THEN "switchNoToken" ELSE "switchProbe")
    /\ UNCHANGED <<secret, accepted, config, urlSetting, apiUrl, apiToken,
                   context, barMode, phase, after, lag>>

\* Mutant: the switch goes on without a token.
PickServerAnonymous(c) ==
    /\ Running /\ step[c] = "switchPick"
    /\ config # "server"
    /\ Goto(c, "switchProbe")
    /\ apiToken' = secret
    /\ UNCHANGED <<secret, accepted, config, urlSetting, apiUrl, context,
                   barMode, phase, after, lag>>

\* With a stored token the api is given it at once, then the server is asked.
PickServer(c) ==
    /\ Running /\ step[c] = "switchPick"
    /\ config # "server"
    /\ IF secret = None
       THEN Goto(c, "switchNoToken") /\ UNCHANGED <<apiToken, lag>>
       ELSE Goto(c, "switchProbe") /\ apiToken' = secret /\ lag' = lag \ {"api"}
    /\ UNCHANGED <<secret, accepted, config, urlSetting, apiUrl, context,
                   barMode, phase, after>>

SwitchInit(c) ==
    /\ Running /\ step[c] = "switchNoToken"
    /\ Goto(c, "initUrl")
    /\ after' = [after EXCEPT ![c] = "server"]
    /\ UNCHANGED <<secret, accepted, config, urlSetting, apiUrl, apiToken,
                   context, barMode, phase, lag>>

\* The server answered, or it did not and the student did not take
\* "Stay Offline".
SwitchedToServer(c) ==
    /\ Running /\ step[c] = "switchProbe"
    /\ config' = "server"
    /\ context' = [offline |-> FALSE, loggedIn |-> TRUE, ready |-> TRUE]
    /\ barMode' = "server"
    /\ Goto(c, "idle")
    /\ lag' = lag \ {"window"}
    /\ UNCHANGED <<secret, accepted, urlSetting, apiUrl, apiToken, phase, after>>

\* The student stays offline, or config.yaml cannot be written.
StayOffline(c) ==
    /\ Running /\ step[c] = "switchProbe"
    /\ Goto(c, "idle")
    /\ UNCHANGED <<secret, accepted, config, urlSetting, apiUrl, apiToken,
                   context, barMode, phase, after, lag>>

-----------------------------------------------------------------------------
\* A window opened on any workspace, with or without a token from before.
Init ==
    /\ secret \in Token \union {None}
    /\ accepted = {secret} \ {None}
    /\ config \in {"none", "server", "offline"}
    /\ urlSetting \in Url
    /\ apiUrl = urlSetting
    /\ apiToken = SessionToken(config, secret)
    /\ context = [offline |-> config = "offline", loggedIn |-> FALSE,
                  ready |-> config # "none"]
    /\ phase = IF apiToken # None THEN "starting" ELSE "running"
    /\ barMode = IF apiToken # None THEN "server" ELSE SessionMode(config)
    /\ step = [c \in Command |-> "idle"]
    /\ after = [c \in Command |-> "none"]
    /\ lag = {}

CommandStep(c) ==
    \/ BeginLogin(c) \/ BeginSetServer(c) \/ BeginSwitch(c)
    \/ \E bar \in {"server", "none"} : BeginServerInit(c, bar)
    \/ \E bar \in {"offline", "none"} : BeginOfflineInit(c, bar)
    \/ \E t \in Token : \/ SignedIn(c, t) \/ LoginNotWritten(c, t)
                        \/ InitSignedIn(c, t) \/ InitNotWritten(c, t)
    \/ \E url \in Url : SetServer(c, url) \/ InitReachable(c, url)
    \/ GiveUp(c) \/ InitUseOffline(c) \/ InitAbandoned(c) \/ InitPulled(c)
    \/ OfflineReady(c) \/ OfflineNotReady(c) \/ PickOffline(c) \/ OfflineNotWritten(c)
    \/ PickServer(c) \/ SwitchInit(c)
    \/ SwitchedToServer(c) \/ StayOffline(c)

Next ==
    \/ Reload \/ StartAccepted \/ StartFailed
    \/ \E t \in Token : Expire(t)
    \/ \E c \in Command : CommandStep(c)

Spec == Init /\ [][Next]_vars

-----------------------------------------------------------------------------
(* Properties *)

TypeOK ==
    /\ secret \in Token \union {None}
    /\ accepted \subseteq Token
    /\ config \in {"none", "server", "offline"}
    /\ urlSetting \in Url /\ apiUrl \in Url
    /\ apiToken \in Token \union {None}
    /\ context \in [offline : BOOLEAN, loggedIn : BOOLEAN, ready : BOOLEAN]
    /\ barMode \in {"server", "offline"}
    /\ phase \in {"starting", "running"}
    /\ step \in [Command -> Steps]
    /\ after \in [Command -> {"none", "server", "offline"}]
    /\ lag \subseteq {"window", "api"}

\* Nothing of the extension is waiting for the student or for the server.
AtRest == Running /\ \A c \in Command : step[c] = "idle"

\* Whatever commands ran one after another, and wherever a reload cut one
\* off, the context keys that decide which menus and views are offered agree
\* with the workspace's config.yaml once nothing runs.  An initialization that
\* failed after config.yaml was written leaves them behind, until a reload, a
\* switch of the mode or another initialization.
ContextFollowsConfig ==
    AtRest /\ "window" \notin lag =>
        /\ context.offline = (config = "offline")
        /\ context.ready = (config # "none")

\* Once nothing runs, every request goes to the URL of the setting, and a
\* workspace that works with the server sends the stored token.  An
\* initialization or a switch that failed after the token was stored or dropped
\* leaves the api behind, until a reload or until it is recreated or given the
\* token by the next command that does.
ApiFollowsSession ==
    AtRest => /\ apiUrl = urlSetting
              /\ "api" \notin lag /\ config # "offline" /\ secret # None => apiToken = secret

\* The window never offers the signed-in menus without a stored token.
SignedInMeansToken == Running /\ context.loggedIn => secret # None
=============================================================================
