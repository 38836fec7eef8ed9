--------------------------- MODULE CommandsProofs ---------------------------
(***************************************************************************)
(* Proofs about the extension's commands, for the components that the run   *)
(* "commands" checks side by side: the session, the student's folder, the   *)
(* offline and online checks with the push of progress, and the sign-in.    *)
(***************************************************************************)
EXTENDS ForgejoLogin, Integers, Sequences, FiniteSets, FiniteSetTheorems, TLAPS

CONSTANTS Token, Url, Command

VARIABLES secret, accepted, config, urlSetting, apiUrl, apiToken, context, barMode, phase, step, after, lag

S == INSTANCE EditorSession

-----------------------------------------------------------------------------
(* The session *)

\* The student runs one command of the session at a time.
OneCommand == \A c, d \in Command : c = d

\* No initialization waits for its download, the one time when config.yaml is
\* ahead of the window.
NoPull == \A c \in Command : step[c] # "initPull"

\* While the window starts no command runs, and the token asked about is the
\* stored one.
StartInv ==
    phase = "starting" => /\ \A c \in Command : step[c] = "idle"
                          /\ ~context.loggedIn /\ secret # None /\ apiToken = secret

\* What a command relies on when it comes back from its wait.
WaitInv ==
    \A c \in Command :
        /\ step[c] = "initPull" => secret # None /\ config = "server"
        /\ step[c] = "switchProbe" => secret # None /\ apiToken = secret

\* What SessionAgrees says of a window at rest holds in every wait but the
\* download's, of each copy that no failed write has left behind.
WindowAgrees ==
    context.offline = (config = "offline") /\ context.ready = (config # "none")
ApiAgrees == config # "offline" /\ secret # None => apiToken = secret

AgreeInv ==
    NoPull => ("window" \notin lag => WindowAgrees) /\ ("api" \notin lag => ApiAgrees)

SessionInv ==
    /\ S!TypeOK /\ apiUrl = urlSetting /\ S!SignedInMeansToken
    /\ StartInv /\ WaitInv /\ AgreeInv

SessionAgrees ==
    S!TypeOK /\ S!ContextFollowsConfig /\ S!ApiFollowsSession /\ S!SignedInMeansToken

\* The token the api is given is a token, and the stored one for a workspace that
\* works with the server.
LEMMA TokenGiven ==
    ASSUME NEW cfg, NEW s \in Token \cup {None}
    PROVE  /\ S!SessionToken(cfg, s) \in Token \cup {None}
           /\ cfg # "offline" => S!SessionToken(cfg, s) = s
           /\ S!SessionToken(cfg, s) # None => S!SessionToken(cfg, s) = s
BY DEF S!SessionToken, S!SessionMode

\* A window that starts.
LEMMA ActivateKeeps ==
    ASSUME SessionInv, S!Activate(config, secret), config' = config, secret' = secret,
           accepted' = accepted, urlSetting' = urlSetting, after' = after,
           step' = [c \in Command |-> "idle"], lag' = {}
    PROVE  SessionInv'
<1>1. secret \in Token \cup {None} /\ urlSetting \in Url /\ config \in {"none", "server", "offline"}
  BY DEF SessionInv, S!TypeOK
<1>2. /\ apiUrl' = urlSetting /\ apiToken' = S!SessionToken(config, secret)
      /\ context' = [offline |-> S!SessionMode(config) = "offline", loggedIn |-> FALSE,
                     ready |-> config # "none"]
      /\ phase' = IF apiToken' # None THEN "starting" ELSE "running"
      /\ barMode' \in {"server", "offline"}
  BY DEF S!Activate, S!SessionMode
<1>3. /\ context'.offline = (config = "offline") /\ context'.loggedIn = FALSE
      /\ context'.ready = (config # "none")
      /\ context' \in [offline : BOOLEAN, loggedIn : BOOLEAN, ready : BOOLEAN]
  BY <1>1, <1>2 DEF S!SessionMode
<1>4. S!TypeOK'
  BY <1>1, <1>2, <1>3, TokenGiven DEF SessionInv, S!TypeOK, S!Steps
<1>5. StartInv' /\ WaitInv' /\ AgreeInv'
  BY <1>1, <1>2, <1>3, TokenGiven DEF StartInv, WaitInv, AgreeInv, WindowAgrees, ApiAgrees, NoPull
<1>6. S!SignedInMeansToken'
  BY <1>3 DEF S!SignedInMeansToken
<1> QED
  BY <1>2, <1>4, <1>5, <1>6 DEF SessionInv

\* A command takes a step: with one command its wait is the only one.
LEMMA CommandKeeps ==
    ASSUME S!SessionAssumption, OneCommand, SessionInv, NEW c \in Command, S!CommandStep(c)
    PROVE  SessionInv'
<1> USE DEF S!Running
<1>1. /\ secret \in Token \cup {None} /\ accepted \subseteq Token
      /\ config \in {"none", "server", "offline"} /\ urlSetting \in Url /\ apiUrl \in Url
      /\ apiToken \in Token \cup {None} /\ barMode \in {"server", "offline"}
      /\ context \in [offline : BOOLEAN, loggedIn : BOOLEAN, ready : BOOLEAN]
      /\ phase \in {"starting", "running"} /\ step \in [Command -> S!Steps]
      /\ after \in [Command -> {"none", "server", "offline"}]
      /\ lag \subseteq {"window", "api"}
  BY DEF SessionInv, S!TypeOK
<1>2. phase = "running"
  BY DEF S!CommandStep, S!BeginLogin, S!BeginSetServer, S!BeginSwitch, S!BeginServerInit, S!BeginOfflineInit,
         S!SignedIn, S!InitSignedIn, S!SetServer, S!InitReachable, S!GiveUp, S!InitUseOffline, S!InitAbandoned,
         S!LoginNotWritten, S!InitNotWritten, S!OfflineNotReady, S!OfflineNotWritten,
         S!InitPulled, S!OfflineReady, S!PickOffline, S!PickServer, S!SwitchInit, S!SwitchedToServer, S!StayOffline
<1>3. \A x \in S!Steps : S!Goto(c, x) => /\ step' \in [Command -> S!Steps]
                                         /\ \A d \in Command : step'[d] = x
  BY <1>1 DEF S!Goto, OneCommand
<1>4. S!Leave(c) => /\ step' \in [Command -> S!Steps] /\ \A d \in Command : step'[d] = "idle"
                    /\ barMode' \in {"server", "offline"}
  <2>1. "idle" \in S!Steps
    BY DEF S!Steps
  <2> QED
    BY <1>1, <1>3, <2>1 DEF S!Leave
<1>5. \A u \in Url : S!RecreateApi(config, secret, u) =>
        /\ apiUrl' = u /\ apiToken' \in Token \cup {None}
        /\ config # "offline" => apiToken' = secret
  BY <1>1, TokenGiven DEF S!RecreateApi
\* Only the wait changes, and no download or probe begins or goes on.
<1>6. ASSUME NEW x \in S!Steps \ {"initPull", "switchProbe"}, S!Goto(c, x), step[c] # "initPull",
             UNCHANGED <<secret, accepted, config, urlSetting, apiUrl, apiToken, context, barMode, phase, lag>>,
             after' \in [Command -> {"none", "server", "offline"}]
      PROVE  SessionInv'
  <2>1. step' \in [Command -> S!Steps] /\ \A d \in Command : step'[d] = x
    BY <1>3, <1>6
  <2>2. S!TypeOK'
    BY <1>1, <1>6, <2>1 DEF S!TypeOK, S!Steps
  <2>3. NoPull
    BY <1>6 DEF NoPull, OneCommand
  <2> QED
    BY <1>2, <1>6, <2>1, <2>2, <2>3 DEF SessionInv, StartInv, WaitInv, AgreeInv, WindowAgrees, ApiAgrees, S!SignedInMeansToken
<1>7. CASE \/ S!BeginLogin(c) \/ S!BeginSetServer(c) \/ S!BeginSwitch(c) \/ S!GiveUp(c)
           \/ S!InitUseOffline(c) \/ S!SwitchInit(c) \/ S!StayOffline(c)
           \/ \E bar \in {"server", "none"} : S!BeginServerInit(c, bar)
           \/ \E bar \in {"offline", "none"} : S!BeginOfflineInit(c, bar)
  <2>1. \E x \in S!Steps \ {"initPull", "switchProbe"} : S!Goto(c, x)
    BY <1>7 DEF S!Steps, S!BeginLogin, S!BeginSetServer, S!BeginSwitch, S!GiveUp, S!InitUseOffline,
                S!SwitchInit, S!StayOffline, S!BeginServerInit, S!BeginOfflineInit
  <2>2. /\ step[c] # "initPull" /\ after' \in [Command -> {"none", "server", "offline"}]
        /\ UNCHANGED <<secret, accepted, config, urlSetting, apiUrl, apiToken, context, barMode, phase, lag>>
    BY <1>1, <1>7 DEF S!BeginLogin, S!BeginSetServer, S!BeginSwitch, S!GiveUp, S!InitUseOffline,
                S!SwitchInit, S!StayOffline, S!BeginServerInit, S!BeginOfflineInit
  <2> QED
    BY <1>6, <2>1, <2>2
<1>8. ASSUME NEW t \in Token, S!SignedIn(c, t)
      PROVE  SessionInv'
  <2>1. /\ secret' = t /\ accepted' = accepted \cup {t} /\ apiToken' = t /\ barMode' = "server"
        /\ config' = config /\ urlSetting' = urlSetting /\ apiUrl' = apiUrl /\ phase' = phase /\ after' = after
        /\ context' = [context EXCEPT !.loggedIn = TRUE] /\ step[c] = "signIn" /\ S!Goto(c, "idle")
        /\ lag' = lag \ {"api"}
    BY <1>8 DEF S!SignedIn
  <2>2. step' \in [Command -> S!Steps] /\ \A d \in Command : step'[d] = "idle"
    BY <1>3, <2>1 DEF S!Steps
  <2>3. /\ context'.offline = context.offline /\ context'.ready = context.ready
        /\ context' \in [offline : BOOLEAN, loggedIn : BOOLEAN, ready : BOOLEAN]
    BY <1>1, <2>1
  <2>4. NoPull
    BY <2>1 DEF NoPull, OneCommand
  <2>5. S!TypeOK'
    BY <1>1, <2>1, <2>2, <2>3 DEF S!TypeOK
  <2>6. secret' # None
    BY <2>1 DEF S!SessionAssumption
  <2> QED
    BY <1>1, <1>2, <2>1, <2>2, <2>3, <2>4, <2>5, <2>6 DEF SessionInv, StartInv, WaitInv, AgreeInv, WindowAgrees, ApiAgrees, S!SignedInMeansToken
<1>9. ASSUME NEW u \in Url, S!SetServer(c, u) \/ S!InitReachable(c, u)
       PROVE  SessionInv'
  <2>1. /\ UNCHANGED <<secret, accepted, config, context, barMode, phase, after>>
        /\ urlSetting' = u /\ step[c] \in {"askUrl", "initUrl"}
        /\ \/ S!RecreateApi(config, secret, u) /\ lag' = lag \ {"api"}
           \/ u = urlSetting /\ apiUrl' = apiUrl /\ apiToken' = apiToken /\ lag' = lag
    BY <1>9 DEF S!SetServer, S!InitReachable, S!apiVars
  <2>2. step' \in [Command -> S!Steps] /\ \A d \in Command : step'[d] \in {"idle", "initSignIn"}
    BY <1>3, <1>9 DEF S!Steps, S!SetServer, S!InitReachable
  <2>3. NoPull
    BY <2>1 DEF NoPull, OneCommand
  <2>4. /\ apiUrl' = u /\ apiToken' \in Token \cup {None} /\ lag' \subseteq lag
        /\ "api" \notin lag' /\ config # "offline" /\ secret # None => apiToken' = secret
        /\ "window" \in lag' <=> "window" \in lag
    <3>1. CASE S!RecreateApi(config, secret, u) /\ lag' = lag \ {"api"}
      BY <1>5, <3>1
    <3>2. CASE u = urlSetting /\ apiUrl' = apiUrl /\ apiToken' = apiToken /\ lag' = lag
      BY <1>1, <2>3, <3>2 DEF SessionInv, AgreeInv, ApiAgrees
    <3> QED
      BY <2>1, <3>1, <3>2
  <2>5. S!TypeOK'
    BY <1>1, <2>1, <2>2, <2>4 DEF S!TypeOK
  <2> QED
    BY <1>2, <2>1, <2>2, <2>3, <2>4, <2>5 DEF SessionInv, StartInv, WaitInv, AgreeInv, WindowAgrees, ApiAgrees, S!SignedInMeansToken
<1>10. ASSUME S!InitAbandoned(c)
       PROVE  SessionInv'
  <2>1. /\ UNCHANGED <<secret, accepted, config, urlSetting, apiUrl, apiToken, context, phase, after>>
        /\ step[c] # "initPull" /\ lag' = lag
        /\ step' \in [Command -> S!Steps] /\ \A d \in Command : step'[d] = "idle"
        /\ barMode' \in {"server", "offline"}
    BY <1>1, <1>3, <1>4, <1>10 DEF S!InitAbandoned, S!Throw, S!Steps
  <2>2. NoPull
    BY <2>1 DEF NoPull, OneCommand
  <2>3. S!TypeOK'
    BY <1>1, <1>4, <2>1 DEF S!TypeOK
  <2> QED
    BY <1>2, <1>4, <2>1, <2>2, <2>3 DEF SessionInv, StartInv, WaitInv, AgreeInv, WindowAgrees, ApiAgrees, S!SignedInMeansToken
\* The download begins: only now is the window behind config.yaml.
<1>11. ASSUME NEW t \in Token, S!InitSignedIn(c, t)
       PROVE  SessionInv'
  <2>1. /\ secret' = t /\ accepted' = accepted \cup {t} /\ config' = "server"
        /\ UNCHANGED <<urlSetting, apiUrl, apiToken, context, barMode, phase, after, lag>>
        /\ step' \in [Command -> S!Steps] /\ \A d \in Command : step'[d] = "initPull"
    BY <1>3, <1>11 DEF S!InitSignedIn, S!Steps
  <2>2. secret' # None
    BY <2>1 DEF S!SessionAssumption
  <2>3. S!TypeOK'
    BY <1>1, <2>1 DEF S!TypeOK
  <2>4. ~NoPull'
    BY <2>1 DEF NoPull
  <2> QED
    BY <1>2, <2>1, <2>2, <2>3, <2>4 DEF SessionInv, StartInv, WaitInv, AgreeInv, WindowAgrees, ApiAgrees, S!SignedInMeansToken
<1>12. ASSUME S!InitPulled(c)
       PROVE  SessionInv'
  <2>1. /\ UNCHANGED <<secret, accepted, config, urlSetting, phase, after>>
        /\ step[c] = "initPull" /\ S!Leave(c) /\ S!RecreateApi(config, secret, urlSetting) /\ lag' = {}
        /\ context' = [offline |-> FALSE, loggedIn |-> TRUE, ready |-> TRUE]
    BY <1>12 DEF S!InitPulled
  <2>2. secret # None /\ config = "server"
    BY <2>1 DEF SessionInv, WaitInv
  <2>3. S!TypeOK'
    BY <1>1, <1>4, <1>5, <2>1 DEF S!TypeOK
  <2> QED
    BY <1>1, <1>2, <1>4, <1>5, <2>1, <2>2, <2>3 DEF SessionInv, StartInv, WaitInv, AgreeInv, WindowAgrees, ApiAgrees, S!SignedInMeansToken
<1>13. ASSUME S!OfflineReady(c)
       PROVE  SessionInv'
  <2>1. /\ UNCHANGED <<secret, accepted, urlSetting, phase, after>>
        /\ config' = "offline" /\ S!Leave(c) /\ S!RecreateApi("offline", secret, urlSetting) /\ lag' = {}
        /\ context' = [offline |-> TRUE, loggedIn |-> FALSE, ready |-> TRUE]
    BY <1>13 DEF S!OfflineReady
  <2>2. apiUrl' = urlSetting /\ apiToken' \in Token \cup {None}
    BY <1>1, <2>1, TokenGiven DEF S!RecreateApi
  <2>3. S!TypeOK'
    BY <1>1, <1>4, <2>1, <2>2 DEF S!TypeOK
  <2> QED
    BY <1>2, <1>4, <2>1, <2>2, <2>3 DEF SessionInv, StartInv, WaitInv, AgreeInv, WindowAgrees, ApiAgrees, S!SignedInMeansToken
<1>14. ASSUME S!PickOffline(c)
       PROVE  SessionInv'
  <2>1. /\ UNCHANGED <<secret, accepted, urlSetting, apiUrl, phase, after>>
        /\ apiToken' = None /\ config' = "offline" /\ barMode' = "offline" /\ lag' = {}
        /\ context' = [context EXCEPT !.offline = TRUE, !.ready = TRUE]
    BY <1>14 DEF S!PickOffline
  <2>2. step' \in [Command -> S!Steps] /\ \A d \in Command : step'[d] = "idle"
    BY <1>3, <1>14 DEF S!PickOffline, S!Steps
  <2>3. /\ context'.offline = TRUE /\ context'.ready = TRUE /\ context'.loggedIn = context.loggedIn
        /\ context' \in [offline : BOOLEAN, loggedIn : BOOLEAN, ready : BOOLEAN]
    BY <1>1, <2>1
  <2>4. S!TypeOK'
    BY <1>1, <2>1, <2>2, <2>3 DEF S!TypeOK
  <2> QED
    BY <1>2, <2>1, <2>2, <2>3, <2>4 DEF SessionInv, StartInv, WaitInv, AgreeInv, WindowAgrees, ApiAgrees, S!SignedInMeansToken
<1>15. ASSUME S!PickServer(c)
       PROVE  SessionInv'
  <2>1. /\ UNCHANGED <<secret, accepted, config, urlSetting, apiUrl, context, barMode, phase, after>>
        /\ step[c] = "switchPick"
    BY <1>15 DEF S!PickServer
  <2>2. \/ S!Goto(c, "switchNoToken") /\ apiToken' = apiToken /\ lag' = lag
        \/ S!Goto(c, "switchProbe") /\ apiToken' = secret /\ secret # None /\ lag' = lag \ {"api"}
    BY <1>15 DEF S!PickServer
  <2>3. step' \in [Command -> S!Steps]
    BY <1>3, <2>2 DEF S!Steps
  <2>4. \A d \in Command :
            \/ step'[d] = "switchNoToken" /\ apiToken' = apiToken /\ lag' = lag
            \/ step'[d] = "switchProbe" /\ apiToken' = secret /\ secret # None /\ lag' = lag \ {"api"}
    BY <1>3, <2>2 DEF S!Steps
  <2>5. NoPull
    BY <2>1 DEF NoPull, OneCommand
  <2>6. S!TypeOK'
    BY <1>1, <2>1, <2>2, <2>3 DEF S!TypeOK
  <2> QED
    BY <1>2, <2>1, <2>2, <2>3, <2>4, <2>5, <2>6 DEF SessionInv, StartInv, WaitInv, AgreeInv, WindowAgrees, ApiAgrees, S!SignedInMeansToken
<1>16. ASSUME S!SwitchedToServer(c)
       PROVE  SessionInv'
  <2>1. /\ UNCHANGED <<secret, accepted, urlSetting, apiUrl, apiToken, phase, after>>
        /\ step[c] = "switchProbe" /\ config' = "server" /\ barMode' = "server" /\ lag' = lag \ {"window"}
        /\ context' = [offline |-> FALSE, loggedIn |-> TRUE, ready |-> TRUE]
    BY <1>16 DEF S!SwitchedToServer
  <2>2. secret # None /\ apiToken = secret
    BY <2>1 DEF SessionInv, WaitInv
  <2>3. step' \in [Command -> S!Steps] /\ \A d \in Command : step'[d] = "idle"
    BY <1>3, <1>16 DEF S!SwitchedToServer, S!Steps
  <2>4. S!TypeOK'
    BY <1>1, <2>1, <2>3 DEF S!TypeOK
  <2> QED
    BY <1>2, <2>1, <2>2, <2>3, <2>4 DEF SessionInv, StartInv, WaitInv, AgreeInv, WindowAgrees, ApiAgrees, S!SignedInMeansToken
\* The commands whose write fails: the copies left behind are in lag.
<1>17. ASSUME NEW t \in Token, S!LoginNotWritten(c, t)
       PROVE  SessionInv'
  <2>1. /\ secret' = t /\ accepted' = accepted \cup {t} /\ apiToken' = t /\ lag' = lag \ {"api"}
        /\ UNCHANGED <<config, urlSetting, apiUrl, context, barMode, phase, after>>
        /\ step[c] = "signIn" /\ S!Goto(c, "idle")
    BY <1>17 DEF S!LoginNotWritten
  <2>2. step' \in [Command -> S!Steps] /\ \A d \in Command : step'[d] = "idle"
    BY <1>3, <2>1 DEF S!Steps
  <2>3. NoPull
    BY <2>1 DEF NoPull, OneCommand
  <2>4. S!TypeOK'
    BY <1>1, <2>1, <2>2 DEF S!TypeOK
  <2>5. secret' # None
    BY <2>1 DEF S!SessionAssumption
  <2> QED
    BY <1>1, <1>2, <2>1, <2>2, <2>3, <2>4, <2>5
       DEF SessionInv, StartInv, WaitInv, AgreeInv, WindowAgrees, ApiAgrees, S!SignedInMeansToken
<1>18. ASSUME NEW t \in Token, S!InitNotWritten(c, t)
       PROVE  SessionInv'
  <2>1. /\ secret' = t /\ accepted' = accepted \cup {t} /\ config' \in {config, "server"}
        /\ lag' = lag \cup {"api"} \cup (IF config' = config THEN {} ELSE {"window"})
        /\ UNCHANGED <<urlSetting, apiUrl, apiToken, context, phase, after>>
        /\ step[c] = "initSignIn" /\ S!Leave(c)
    BY <1>18 DEF S!InitNotWritten
  <2>2. NoPull
    BY <2>1 DEF NoPull, OneCommand
  <2>3. S!TypeOK'
    BY <1>1, <1>4, <2>1 DEF S!TypeOK
  <2>4. secret' # None
    BY <2>1 DEF S!SessionAssumption
  <2> QED
    BY <1>1, <1>2, <1>4, <2>1, <2>2, <2>3, <2>4
       DEF SessionInv, StartInv, WaitInv, AgreeInv, WindowAgrees, ApiAgrees, S!SignedInMeansToken
<1>19. ASSUME S!OfflineNotReady(c)
       PROVE  SessionInv'
  <2>1. /\ config' \in {config, "offline"}
        /\ lag' = IF config' = config THEN lag ELSE lag \cup {"window"}
        /\ UNCHANGED <<secret, accepted, urlSetting, apiUrl, apiToken, context, phase, after>>
        /\ step[c] = "offlineSetup"
    BY <1>19 DEF S!OfflineNotReady
  <2>2. /\ step' \in [Command -> S!Steps] /\ \A d \in Command : step'[d] = "idle"
        /\ barMode' \in {"server", "offline"}
    BY <1>1, <1>3, <1>4, <1>19 DEF S!OfflineNotReady, S!Throw, S!Steps
  <2>3. NoPull
    BY <2>1 DEF NoPull, OneCommand
  <2>4. S!TypeOK'
    BY <1>1, <2>1, <2>2 DEF S!TypeOK
  <2> QED
    BY <1>1, <1>2, <2>1, <2>2, <2>3, <2>4
       DEF SessionInv, StartInv, WaitInv, AgreeInv, WindowAgrees, ApiAgrees, S!SignedInMeansToken
<1>20. ASSUME S!OfflineNotWritten(c)
       PROVE  SessionInv'
  <2>1. /\ apiToken' = None /\ lag' = lag \cup {"api"} /\ barMode' = barMode
        /\ UNCHANGED <<secret, accepted, config, urlSetting, apiUrl, context, phase, after>>
        /\ step[c] = "switchPick" /\ S!Goto(c, "idle")
    BY <1>20 DEF S!OfflineNotWritten, S!Throw
  <2>2. step' \in [Command -> S!Steps] /\ \A d \in Command : step'[d] = "idle"
    BY <1>3, <2>1 DEF S!Steps
  <2>3. NoPull
    BY <2>1 DEF NoPull, OneCommand
  <2>4. S!TypeOK'
    BY <1>1, <2>1, <2>2 DEF S!TypeOK
  <2> QED
    BY <1>1, <1>2, <2>1, <2>2, <2>3, <2>4
       DEF SessionInv, StartInv, WaitInv, AgreeInv, WindowAgrees, ApiAgrees, S!SignedInMeansToken
<1> QED
  BY <1>7, <1>8, <1>9, <1>10, <1>11, <1>12, <1>13, <1>14, <1>15, <1>16, <1>17, <1>18, <1>19, <1>20
     DEF S!CommandStep

\* Whatever commands ran one after another, wherever a reload cut one off and
\* whichever of their writes failed: at rest the context keys agree with
\* config.yaml and a server workspace's requests carry the stored token, except for
\* the copy a failed write has left behind and no later command has repaired;
\* requests go to the URL of the setting, and the signed-in menus are never offered
\* without a stored token (extension.ts, modeSwitch.ts, initWizard.ts).
THEOREM SessionInAgreement ==
    ASSUME S!SessionAssumption, OneCommand
    PROVE  S!Spec => []SessionAgrees
<1>1. ASSUME S!Init PROVE SessionInv
  <2>1. /\ secret \in Token \cup {None} /\ config \in {"none", "server", "offline"}
        /\ apiToken = S!SessionToken(config, secret) /\ apiToken \in Token \cup {None}
    BY <1>1, TokenGiven DEF S!Init
  <2>2. S!TypeOK
    <3>1. accepted \subseteq Token
      BY <1>1, <2>1 DEF S!Init
    <3>2. context \in [offline : BOOLEAN, loggedIn : BOOLEAN, ready : BOOLEAN]
      BY <1>1 DEF S!Init
    <3> QED
      BY <1>1, <2>1, <3>1, <3>2 DEF S!Init, S!TypeOK, S!Steps, S!SessionMode
  <2>3. context.loggedIn = FALSE /\ context.offline = (config = "offline") /\ context.ready = (config # "none")
    BY <1>1 DEF S!Init
  <2>4. apiUrl = urlSetting /\ phase = IF apiToken # None THEN "starting" ELSE "running"
    BY <1>1 DEF S!Init
  <2>5. \A c \in Command : step[c] = "idle"
    BY <1>1 DEF S!Init
  <2>6. /\ config # "offline" => apiToken = secret
        /\ apiToken # None => apiToken = secret
    BY <2>1, TokenGiven
  <2> QED
    BY <2>2, <2>3, <2>4, <2>5, <2>6 DEF SessionInv, StartInv, WaitInv, AgreeInv, WindowAgrees, ApiAgrees, S!SignedInMeansToken
<1>2. ASSUME SessionInv, [S!Next]_S!vars PROVE SessionInv'
  <2>1. CASE S!Reload
    BY <1>2, <2>1, ActivateKeeps DEF S!Reload
  <2>2. CASE S!StartAccepted
    <3>1. context'.loggedIn = TRUE /\ context'.offline = context.offline /\ context'.ready = context.ready
          /\ context' \in [offline : BOOLEAN, loggedIn : BOOLEAN, ready : BOOLEAN]
      BY <1>2, <2>2 DEF S!StartAccepted, SessionInv, S!TypeOK
    <3>2. S!TypeOK'
      BY <1>2, <2>2, <3>1 DEF S!StartAccepted, SessionInv, S!TypeOK, S!SessionMode
    <3> QED
      BY <1>2, <2>2, <3>1, <3>2 DEF S!StartAccepted, SessionInv, StartInv, WaitInv, AgreeInv, WindowAgrees, ApiAgrees, NoPull, S!SignedInMeansToken
  <2>3. CASE S!StartFailed
    <3>1. S!TypeOK'
      BY <1>2, <2>3 DEF S!StartFailed, SessionInv, S!TypeOK, S!SessionMode
    <3> QED
      BY <1>2, <2>3, <3>1 DEF S!StartFailed, SessionInv, StartInv, WaitInv, AgreeInv, WindowAgrees, ApiAgrees, NoPull, S!SignedInMeansToken
  <2>4. CASE \E t \in Token : S!Expire(t)
    BY <1>2, <2>4 DEF S!Expire, SessionInv, StartInv, WaitInv, AgreeInv, WindowAgrees, ApiAgrees, NoPull, S!SignedInMeansToken, S!TypeOK, S!Running
  <2>5. CASE \E c \in Command : S!CommandStep(c)
    BY <1>2, <2>5, CommandKeeps
  <2>6. CASE UNCHANGED S!vars
    BY <1>2, <2>6 DEF S!vars, SessionInv, StartInv, WaitInv, AgreeInv, WindowAgrees, ApiAgrees, NoPull, S!SignedInMeansToken, S!TypeOK, S!Running
  <2> QED
    BY <1>2, <2>1, <2>2, <2>3, <2>4, <2>5, <2>6 DEF S!Next
<1>3. SessionInv => SessionAgrees
  BY DEF SessionInv, SessionAgrees, AgreeInv, WindowAgrees, ApiAgrees, NoPull, S!ContextFollowsConfig, S!ApiFollowsSession, S!AtRest
<1> QED
  BY <1>1, <1>2, <1>3, PTL DEF S!Spec

-----------------------------------------------------------------------------
(* The student's folder *)

CONSTANTS Task, Pull, Opener, Importable, MaxVersion, MaxEdit

VARIABLES server, py, md, sidecar, backups, docs, manifestState, manifest, progress,
          pulling, left, listed, base, got, entries, opening, written, torn

W == INSTANCE Workspace

OnePull == \A p, q \in Pull : p = q
OneOpener == \A o, q \in Opener : o = q

\* What a manifest says can be found on disk.
Holds(m) ==
    \A t \in Task : /\ m[t].v > 0 => py[t] # W!Absent /\ md[t] # W!Absent
                    /\ m[t].py => sidecar[t] # W!Absent
                    /\ m[t].md => backups[t] # {}

\* A task that is being written has a version; between its two files, the
\* statement is there, with a backup where it was in conflict.
WritingInv ==
    \A p \in Pull : got[p] # W!Nothing =>
        /\ got[p].task \in Task /\ got[p].v \in 1 .. MaxVersion
        /\ got[p].file = "py" => /\ md[got[p].task] # W!Absent
                                 /\ got[p].md => backups[got[p].task] # {}

\* Only an opening that is on its way has written a statement.
OpeningInv == \A o \in Opener : written[o] # 0 => opening[o] # None

\* ManifestTellsTruth is not inductive: the manifest a pull has read, and the
\* entries it has collected, become the manifest later.
TruthInv ==
    /\ W!TypeOK /\ Holds(manifest) /\ OpeningInv
    /\ \A p \in Pull : Holds(base[p]) /\ Holds(entries[p])
    /\ WritingInv

\* The numbers that stand for texts.
LEMMA TextNumbers ==
    ASSUME W!WorkspaceAssumption
    PROVE  /\ \A v \in 1 .. MaxVersion : v \in W!Texts /\ v # W!Absent /\ v \notin W!Edited /\ v \in 0 .. MaxVersion
           /\ \A e \in W!Edited : e \in W!Texts /\ e # W!Absent
           /\ W!LocalStub \in W!Texts /\ W!LocalStub # W!Absent /\ W!LocalStub \notin W!Edited
           /\ W!Absent \in W!Texts /\ W!Absent \notin W!Edited
           /\ 0 \in 0 .. MaxVersion /\ 1 \in 1 .. MaxVersion
BY DEF W!WorkspaceAssumption, W!Texts, W!Edited, W!Absent, W!LocalStub

\* Entries and manifests.
LEMMA EntryTypes ==
    ASSUME W!WorkspaceAssumption
    PROVE  /\ W!NoEntry \in W!Entry /\ W!NoManifest \in [Task -> W!Entry]
           /\ \A found : W!Scanned(found) \in [Task -> W!Entry]
           /\ \A v \in 1 .. MaxVersion, a, b \in BOOLEAN : [v |-> v, md |-> a, py |-> b] \in W!Entry
           /\ \A old, new \in [Task -> W!Entry] : W!Merge(old, new) \in [Task -> W!Entry]
<1>1. W!NoEntry \in W!Entry /\ W!NoManifest \in [Task -> W!Entry]
  BY DEF W!WorkspaceAssumption, W!NoEntry, W!Entry, W!NoManifest
<1>2. \A found : W!Scanned(found) \in [Task -> W!Entry]
  <2>1. 0 \in -1 .. MaxVersion
    BY DEF W!WorkspaceAssumption
  <2>2. [v |-> 0, md |-> FALSE, py |-> FALSE] \in W!Entry
    BY <2>1 DEF W!Entry
  <2> QED
    BY <1>1, <2>2 DEF W!Scanned
<1>3. \A v \in 1 .. MaxVersion, a, b \in BOOLEAN : [v |-> v, md |-> a, py |-> b] \in W!Entry
  BY DEF W!WorkspaceAssumption, W!Entry
<1>4. \A old, new \in [Task -> W!Entry] : W!Merge(old, new) \in [Task -> W!Entry]
  BY DEF W!Merge, W!Entry
<1> QED
  BY <1>1, <1>2, <1>3, <1>4

\* A manifest made of what was found says nothing of pulled tasks; two manifests
\* that hold are merged into one that does.
LEMMA HoldsOf ==
    /\ Holds(W!NoManifest) /\ \A found : Holds(W!Scanned(found))
    /\ \A old, new \in [Task -> W!Entry] : Holds(old) /\ Holds(new) => Holds(W!Merge(old, new))
<1>1. Holds(W!NoManifest) /\ \A found : Holds(W!Scanned(found))
  BY DEF Holds, W!NoManifest, W!Scanned, W!NoEntry
<1>2. ASSUME NEW old \in [Task -> W!Entry], NEW new \in [Task -> W!Entry], Holds(old), Holds(new)
      PROVE  Holds(W!Merge(old, new))
  <2> SUFFICES ASSUME NEW t \in Task, NEW m, m = W!Merge(old, new)[t]
               PROVE  /\ m.v > 0 => py[t] # W!Absent /\ md[t] # W!Absent
                      /\ m.py => sidecar[t] # W!Absent
                      /\ m.md => backups[t] # {}
    BY DEF Holds
  <2>1. \/ m = old[t]
        \/ m = [v |-> new[t].v, md |-> new[t].md \/ old[t].md, py |-> new[t].py \/ old[t].py]
    BY DEF W!Merge
  <2>2. CASE m = old[t]
    BY <1>2, <2>2 DEF Holds
  <2>3. CASE m = [v |-> new[t].v, md |-> new[t].md \/ old[t].md, py |-> new[t].py \/ old[t].py]
    <3> DEFINE a == new[t].md \/ old[t].md
               b == new[t].py \/ old[t].py
    <3>1. a \in BOOLEAN /\ b \in BOOLEAN /\ m = [v |-> new[t].v, md |-> a, py |-> b]
      BY <2>3
    <3> HIDE DEF a, b
    <3>2. m.v = new[t].v /\ m.md = a /\ m.py = b
      BY <3>1
    <3>3. (a => backups[t] # {}) /\ (b => sidecar[t] # W!Absent)
      BY <1>2 DEF a, b, Holds
    <3> QED
      BY <1>2, <3>2, <3>3 DEF Holds
  <2> QED
    BY <2>1, <2>2, <2>3
<1> QED
  BY <1>1, <1>2

\* No file is taken away, and no backup.
LEMMA FilesStay ==
    ASSUME W!WorkspaceAssumption, TruthInv, [W!Next]_(W!vars), NEW t \in Task
    PROVE  /\ py[t] # W!Absent => py'[t] # W!Absent
           /\ md[t] # W!Absent => md'[t] # W!Absent
           /\ sidecar[t] # W!Absent => sidecar'[t] # W!Absent
           /\ backups[t] \subseteq backups'[t]
<1> DEFINE Goal == /\ py[t] # W!Absent => py'[t] # W!Absent
                   /\ md[t] # W!Absent => md'[t] # W!Absent
                   /\ sidecar[t] # W!Absent => sidecar'[t] # W!Absent
                   /\ backups[t] \subseteq backups'[t]
<1>1. /\ py \in [Task -> W!Texts] /\ md \in [Task -> W!Texts] /\ sidecar \in [Task -> W!Texts]
      /\ backups \in [Task -> SUBSET W!Texts] /\ server \in [Task -> 1 .. MaxVersion]
  BY DEF TruthInv, W!TypeOK
<1>2. CASE UNCHANGED W!files
  BY <1>2 DEF W!files
<1>3. ASSUME NEW u \in Task, W!EditCode(u) \/ W!EditStatement(u) \/ W!Publish(u) PROVE Goal
  BY <1>1, <1>3, TextNumbers DEF W!EditCode, W!EditStatement, W!Publish, W!files
<1>4. ASSUME NEW p \in Pull, W!WriteStatement(p) PROVE Goal
  <2>1. got[p].task \in Task /\ got[p].v # W!Absent
    BY <1>4, TextNumbers DEF W!WriteStatement, TruthInv, WritingInv
  <2>2. /\ md' = [md EXCEPT ![got[p].task] = got[p].v] /\ UNCHANGED <<py, sidecar>>
        /\ backups' = backups \/ backups' = [backups EXCEPT ![got[p].task] = @ \cup {md[got[p].task]}]
    BY <1>4 DEF W!WriteStatement, W!KeepCopy
  <2> QED
    BY <1>1, <2>1, <2>2
<1>5. ASSUME NEW p \in Pull, W!WriteCode(p) PROVE Goal
  <2>1. got[p].task \in Task /\ got[p].v # W!Absent
    BY <1>5, TextNumbers DEF W!WriteCode, TruthInv, WritingInv
  <2>2. /\ UNCHANGED <<md, backups>>
        /\ py' = py \/ py' = [py EXCEPT ![got[p].task] = got[p].v]
        /\ sidecar' = sidecar \/ sidecar' = [sidecar EXCEPT ![got[p].task] = got[p].v]
    BY <1>5 DEF W!WriteCode, W!PlaceCode
  <2> QED
    BY <1>1, <2>1, <2>2
<1>6. ASSUME NEW o \in Opener, W!OpenStatement(o) \/ W!OpenCode(o) PROVE Goal
  <2>1. /\ opening[o] \in Task /\ UNCHANGED <<sidecar, backups>>
        /\ written[o] \in 0 .. MaxVersion
    BY <1>6 DEF W!OpenStatement, W!OpenCode, TruthInv, W!TypeOK
  <2>2. server[opening[o]] # W!Absent
    BY <1>1, <2>1, TextNumbers
  <2>3. CASE W!OpenStatement(o)
    BY <1>1, <2>1, <2>2, <2>3 DEF W!OpenStatement
  <2>4. CASE W!OpenCode(o)
    BY <1>1, <2>1, <2>4 DEF W!OpenCode, W!Absent
  <2> QED
    BY <1>6, <2>3, <2>4
<1>7. ASSUME NEW imported, (\E stubs \in SUBSET Task : W!OfflineInit(imported, stubs)) \/ W!InitFails(imported)
      PROVE  Goal
  BY <1>1, <1>7, TextNumbers DEF W!OfflineInit, W!InitFails
<1>8. ASSUME NEW p \in Pull,
             \/ \E ts \in SUBSET Task : W!StartPull(p, ts)
             \/ \E u \in Task : W!Fetched(p, u) \/ W!FetchFailed(p, u)
             \/ W!FinishPull(p)
      PROVE  UNCHANGED W!files
  BY <1>8 DEF W!StartPull, W!Fetched, W!FetchFailed, W!FinishPull
<1>9. ASSUME NEW o \in Opener, (\E u \in Task : W!BeginOpen(o, u)) \/ W!OpenFailed(o)
      PROVE  UNCHANGED W!files
  BY <1>9 DEF W!BeginOpen, W!OpenFailed
<1>10. ASSUME W!Solve \/ W!ServerSkeleton \/ W!Reload
       PROVE  UNCHANGED W!files
  BY <1>10 DEF W!Solve, W!ServerSkeleton, W!Reload
<1>13. ASSUME NEW p \in Pull, W!WriteFailed(p) PROVE Goal
  <2>1. got[p].task \in Task
    BY <1>13 DEF W!WriteFailed, TruthInv, WritingInv
  <2>2. /\ UNCHANGED <<py, md, sidecar>>
        /\ backups' = backups \/ backups' = [backups EXCEPT ![got[p].task] = @ \cup {md[got[p].task]}]
    BY <1>13 DEF W!WriteFailed, W!KeepCopy
  <2> QED
    BY <1>1, <2>1, <2>2
<1>11. CASE UNCHANGED W!vars
  BY <1>2, <1>11 DEF W!vars
<1>12. CASE W!Next
  <2>1. CASE \E u \in Task : W!EditCode(u) \/ W!EditStatement(u) \/ W!Publish(u)
    BY <1>3, <2>1
  <2>2. CASE \E p \in Pull : W!PullStep(p)
    BY <1>2, <1>4, <1>5, <1>8, <1>13, <2>2 DEF W!PullStep
  <2>3. CASE \E o \in Opener : W!OpenStep(o)
    BY <1>2, <1>6, <1>9, <2>3 DEF W!OpenStep
  <2>4. CASE \E imported \in SUBSET Importable :
                 (\E stubs \in SUBSET Task : W!OfflineInit(imported, stubs)) \/ W!InitFails(imported)
    BY <1>7, <2>4
  <2>5. CASE W!Solve \/ W!ServerSkeleton \/ W!Reload
    BY <1>2, <1>10, <2>5
  <2> QED
    BY <1>12, <2>1, <2>2, <2>3, <2>4, <2>5 DEF W!Next
<1> QED
  BY <1>11, <1>12

\* So whatever held of a manifest still holds.
LEMMA HoldsOn ==
    ASSUME W!WorkspaceAssumption, TruthInv, [W!Next]_(W!vars), NEW m, Holds(m)
    PROVE  Holds(m)'
<1> SUFFICES ASSUME NEW t \in Task
             PROVE  /\ m[t].v > 0 => py'[t] # W!Absent /\ md'[t] # W!Absent
                    /\ m[t].py => sidecar'[t] # W!Absent
                    /\ m[t].md => backups'[t] # {}
  BY DEF Holds, W!Absent
<1>1. /\ py[t] # W!Absent => py'[t] # W!Absent
      /\ md[t] # W!Absent => md'[t] # W!Absent
      /\ sidecar[t] # W!Absent => sidecar'[t] # W!Absent
      /\ backups[t] \subseteq backups'[t]
  BY FilesStay
<1>2. /\ m[t].v > 0 => py[t] # W!Absent /\ md[t] # W!Absent
      /\ m[t].py => sidecar[t] # W!Absent
      /\ m[t].md => backups[t] # {}
  BY DEF Holds
<1> QED
  BY <1>1, <1>2

\* The part of WritingInv about one pull stays while it waits, whatever others do.
LEMMA WritingOn ==
    ASSUME W!WorkspaceAssumption, TruthInv, [W!Next]_(W!vars), NEW p \in Pull, got'[p] = got[p]
    PROVE  got'[p] # W!Nothing =>
             /\ got'[p].task \in Task /\ got'[p].v \in 1 .. MaxVersion
             /\ got'[p].file = "py" => /\ md'[got'[p].task] # W!Absent
                                       /\ got'[p].md => backups'[got'[p].task] # {}
<1> SUFFICES ASSUME got[p] # W!Nothing
             PROVE  /\ got[p].task \in Task /\ got[p].v \in 1 .. MaxVersion
                    /\ got[p].file = "py" => /\ md'[got[p].task] # W!Absent
                                             /\ got[p].md => backups'[got[p].task] # {}
  OBVIOUS
<1>1. /\ got[p].task \in Task /\ got[p].v \in 1 .. MaxVersion
      /\ got[p].file = "py" => /\ md[got[p].task] # W!Absent
                               /\ got[p].md => backups[got[p].task] # {}
  BY DEF TruthInv, WritingInv
<1> DEFINE t == got[p].task
<1>2. /\ md[t] # W!Absent => md'[t] # W!Absent
      /\ backups[t] \subseteq backups'[t]
  BY <1>1, FilesStay
<1> QED
  BY <1>1, <1>2

\* What the pulls and openings that have ended leave behind.
LEMMA Forgotten ==
    ASSUME W!WorkspaceAssumption, TruthInv, NEW ps, W!Forget(ps)
    PROVE  /\ listed' \in [Pull -> [Task -> 1 .. MaxVersion]]
           /\ base' \in [Pull -> [Task -> W!Entry]] /\ entries' \in [Pull -> [Task -> W!Entry]]
           /\ \A p \in Pull : /\ base'[p] = base[p] \/ base'[p] = W!NoManifest
                              /\ entries'[p] = entries[p] \/ entries'[p] = W!NoManifest
<1>1. /\ listed \in [Pull -> [Task -> 1 .. MaxVersion]]
      /\ base \in [Pull -> [Task -> W!Entry]] /\ entries \in [Pull -> [Task -> W!Entry]]
  BY DEF TruthInv, W!TypeOK
<1>2. [t \in Task |-> 1] \in [Task -> 1 .. MaxVersion] /\ W!NoManifest \in [Task -> W!Entry]
  BY TextNumbers, EntryTypes
<1> QED
  BY <1>1, <1>2 DEF W!Forget

\* A manifest made by an initialization has types and holds.
LEMMA SkeletonHolds ==
    ASSUME W!WorkspaceAssumption, TruthInv, NEW found, W!Skeleton(found)
    PROVE  /\ manifest' \in [Task -> W!Entry] /\ manifestState' \in {"none", "invalid", "ok"}
           /\ progress' \in {"none", "empty", "rows"}
           /\ manifest' = manifest \/ manifest' = W!Scanned(found)
BY EntryTypes DEF W!Skeleton, TruthInv, W!TypeOK

\* So has what one leaves that fails.
LEMMA FailureHolds ==
    ASSUME W!WorkspaceAssumption, TruthInv, NEW imported, W!InitFails(imported)
    PROVE  /\ manifest' \in [Task -> W!Entry] /\ manifestState' \in {"none", "invalid", "ok"}
           /\ progress' \in {"none", "empty", "rows"}
           /\ manifest' = manifest \/ manifest' = W!NoManifest
BY EntryTypes DEF W!InitFails, W!ego, TruthInv, W!TypeOK

\* Writing keeps the types of a folder's files.
LEMMA FolderTypes ==
    ASSUME W!WorkspaceAssumption, TruthInv, [W!Next]_(W!vars)
    PROVE  W!TypeOK'
<1>1. /\ server \in [Task -> 1 .. MaxVersion]
      /\ py \in [Task -> W!Texts] /\ md \in [Task -> W!Texts] /\ sidecar \in [Task -> W!Texts]
      /\ backups \in [Task -> SUBSET W!Texts] /\ docs \subseteq Task
      /\ manifestState \in {"none", "invalid", "ok"} /\ manifest \in [Task -> W!Entry]
      /\ progress \in {"none", "empty", "rows"} /\ pulling \subseteq Pull
      /\ left \in [Pull -> SUBSET Task] /\ listed \in [Pull -> [Task -> 1 .. MaxVersion]]
      /\ base \in [Pull -> [Task -> W!Entry]] /\ entries \in [Pull -> [Task -> W!Entry]]
      /\ opening \in [Opener -> Task \union {None}] /\ written \in [Opener -> 0 .. MaxVersion]
      /\ torn \subseteq Task
  BY DEF TruthInv, W!TypeOK
<1>2. got \in [Pull -> [task : Task \union {None}, v : 0 .. MaxVersion, md : BOOLEAN, file : {"md", "py"}]]
  BY DEF TruthInv, W!TypeOK
<1>3. W!Nothing \in [task : Task \union {None}, v : 0 .. MaxVersion, md : BOOLEAN, file : {"md", "py"}]
  BY TextNumbers DEF W!Nothing
<1>4. ASSUME NEW t \in Task, W!EditCode(t) \/ W!EditStatement(t) PROVE W!TypeOK'
  BY <1>1, <1>2, <1>4, TextNumbers DEF W!TypeOK, W!EditCode, W!EditStatement, W!ego, W!pulls, W!opens
<1>5. ASSUME NEW t \in Task, W!Publish(t) PROVE W!TypeOK'
  <2>1. server' \in [Task -> 1 .. MaxVersion]
    BY <1>1, <1>5 DEF W!Publish, W!WorkspaceAssumption
  <2> QED
    BY <1>1, <1>2, <1>5, <2>1 DEF W!TypeOK, W!Publish, W!files, W!ego, W!pulls, W!opens
<1>6. ASSUME W!Solve PROVE W!TypeOK'
  BY <1>1, <1>2, <1>6 DEF W!TypeOK, W!Solve, W!files, W!pulls, W!opens
<1>7. ASSUME NEW p \in Pull, NEW ts \in SUBSET Task, W!StartPull(p, ts) PROVE W!TypeOK'
  BY <1>1, <1>2, <1>7, EntryTypes DEF W!TypeOK, W!StartPull, W!files, W!ego, W!opens
<1>8. ASSUME NEW p \in Pull, NEW t \in Task, W!Fetched(p, t) PROVE W!TypeOK'
  <2>1. [task |-> t, v |-> server[t], md |-> FALSE, file |-> "md"]
          \in [task : Task \union {None}, v : 0 .. MaxVersion, md : BOOLEAN, file : {"md", "py"}]
    BY <1>1, TextNumbers
  <2> QED
    BY <1>1, <1>2, <1>8, <2>1 DEF W!TypeOK, W!Fetched, W!files, W!ego, W!opens
<1>9. ASSUME NEW p \in Pull, NEW t \in Task, W!FetchFailed(p, t) PROVE W!TypeOK'
  BY <1>1, <1>2, <1>9 DEF W!TypeOK, W!FetchFailed, W!files, W!ego, W!opens
<1>10. ASSUME NEW p \in Pull, W!WriteStatement(p) PROVE W!TypeOK'
  <2>1. got[p].task \in Task /\ got[p].v \in W!Texts
    BY <1>10, TextNumbers DEF W!WriteStatement, TruthInv, WritingInv
  <2>2. backups' \in [Task -> SUBSET W!Texts] /\ md' \in [Task -> W!Texts]
    BY <1>1, <1>10, <2>1, SMTT(30) DEF W!WriteStatement, W!KeepCopy
  <2>3. got' \in [Pull -> [task : Task \union {None}, v : 0 .. MaxVersion, md : BOOLEAN, file : {"md", "py"}]]
    <3>1. PICK b \in BOOLEAN : got' = [got EXCEPT ![p].file = "py", ![p].md = b]
      BY <1>10 DEF W!WriteStatement
    <3> QED
      BY <1>2, <3>1, ZenonT(30)
  <2> QED
    BY <1>1, <1>10, <2>2, <2>3 DEF W!TypeOK, W!WriteStatement, W!ego, W!opens
<1>11. ASSUME NEW p \in Pull, W!WriteCode(p) PROVE W!TypeOK'
  <2>1. got[p].task \in Task /\ got[p].v \in W!Texts /\ got[p].md \in BOOLEAN
    BY <1>2, <1>11, TextNumbers DEF W!WriteCode, TruthInv, WritingInv
  <2>2. py' \in [Task -> W!Texts] /\ sidecar' \in [Task -> W!Texts]
    BY <1>1, <1>11, <2>1 DEF W!WriteCode, W!PlaceCode
  <2>3. PICK b \in BOOLEAN : entries' = [entries EXCEPT ![p][got[p].task] =
                               [v |-> listed[p][got[p].task], md |-> got[p].md, py |-> b]]
    BY <1>11 DEF W!WriteCode
  <2>4. listed[p][got[p].task] \in 1 .. MaxVersion
    BY <1>1, <2>1
  <2>5. [v |-> listed[p][got[p].task], md |-> got[p].md, py |-> b] \in W!Entry
    BY <2>1, <2>4, EntryTypes
  <2>6. entries' \in [Pull -> [Task -> W!Entry]]
    BY <1>1, <2>1, <2>3, <2>5
  <2> QED
    BY <1>1, <1>2, <1>3, <1>11, <2>2, <2>6 DEF W!TypeOK, W!WriteCode, W!ego, W!opens
<1>12. ASSUME NEW p \in Pull, W!WriteFailed(p) PROVE W!TypeOK'
  <2>1. got[p].task \in Task
    BY <1>12 DEF W!WriteFailed, TruthInv, WritingInv
  <2>2. backups' \in [Task -> SUBSET W!Texts]
    BY <1>1, <1>12, <2>1, SMTT(30) DEF W!WriteFailed, W!KeepCopy
  <2> QED
    BY <1>1, <1>2, <1>3, <1>12, <2>2 DEF W!TypeOK, W!WriteFailed, W!ego, W!opens
<1>13. ASSUME NEW p \in Pull, W!FinishPull(p) PROVE W!TypeOK'
  <2>1. W!Forget({p})
    BY <1>13 DEF W!FinishPull
  <2>2. manifest' \in [Task -> W!Entry] /\ manifestState' \in {"none", "invalid", "ok"}
    <3>1. W!Merge(base[p], entries[p]) \in [Task -> W!Entry]
      BY <1>1, EntryTypes
    <3> QED
      BY <1>1, <1>13, <3>1 DEF W!FinishPull
  <2> QED
    BY <1>1, <1>2, <1>13, <2>1, <2>2, Forgotten DEF W!TypeOK, W!FinishPull, W!files, W!opens
<1>14. ASSUME NEW o \in Opener, NEW t \in Task, W!BeginOpen(o, t) PROVE W!TypeOK'
  BY <1>1, <1>2, <1>14 DEF W!TypeOK, W!BeginOpen, W!files, W!ego, W!pulls
<1>15. ASSUME NEW o \in Opener, W!OpenStatement(o) \/ W!OpenCode(o) PROVE W!TypeOK'
  <2>1. opening[o] \in Task
    BY <1>1, <1>15 DEF W!OpenStatement, W!OpenCode
  <2>2. server[opening[o]] \in W!Texts /\ server[opening[o]] \in 0 .. MaxVersion
    BY <1>1, <2>1, TextNumbers
  <2>3. \A v \in 0 .. MaxVersion : v \in W!Texts
    BY DEF W!WorkspaceAssumption, W!Texts
  <2>4. 0 \in 0 .. MaxVersion
    BY TextNumbers
  <2>5. CASE W!OpenStatement(o)
    BY <1>1, <1>2, <2>1, <2>2, <2>5 DEF W!TypeOK, W!OpenStatement, W!ego, W!pulls
  <2>6. CASE W!OpenCode(o)
    BY <1>1, <1>2, <2>1, <2>3, <2>4, <2>6 DEF W!TypeOK, W!OpenCode, W!ego, W!pulls
  <2> QED
    BY <1>15, <2>5, <2>6
<1>16. ASSUME NEW o \in Opener, W!OpenFailed(o) PROVE W!TypeOK'
  BY <1>1, <1>2, <1>16, TextNumbers DEF W!TypeOK, W!OpenFailed, W!files, W!ego, W!pulls
<1>17. ASSUME NEW imported \in SUBSET Importable, NEW stubs \in SUBSET Task, W!OfflineInit(imported, stubs)
       PROVE  W!TypeOK'
  <2>1. docs' \subseteq Task /\ py' \in [Task -> W!Texts]
    BY <1>1, <1>17, TextNumbers DEF W!OfflineInit, W!WorkspaceAssumption
  <2>2. W!Skeleton(docs')
    BY <1>17 DEF W!OfflineInit
  <2>3. /\ manifest' \in [Task -> W!Entry] /\ manifestState' \in {"none", "invalid", "ok"}
        /\ progress' \in {"none", "empty", "rows"}
    BY <2>2, SkeletonHolds
  <2> QED
    BY <1>1, <1>2, <1>17, <2>1, <2>3 DEF W!TypeOK, W!OfflineInit, W!pulls, W!opens
<1>18. ASSUME W!ServerSkeleton PROVE W!TypeOK'
  <2>1. W!Skeleton({})
    BY <1>18 DEF W!ServerSkeleton
  <2>2. /\ manifest' \in [Task -> W!Entry] /\ manifestState' \in {"none", "invalid", "ok"}
        /\ progress' \in {"none", "empty", "rows"}
    BY <2>1, SkeletonHolds
  <2> QED
    BY <1>1, <1>2, <1>18, <2>2 DEF W!TypeOK, W!ServerSkeleton, W!files, W!pulls, W!opens
<1>19. ASSUME W!Reload PROVE W!TypeOK'
  <2>1. W!Forget(Pull)
    BY <1>19 DEF W!Reload
  <2>2. written' \in [Opener -> 0 .. MaxVersion]
    BY <1>19, TextNumbers DEF W!Reload
  <2>3. torn' \subseteq Task
    BY <1>1, <1>19 DEF W!Reload, TruthInv, OpeningInv
  <2> QED
    BY <1>1, <1>2, <1>3, <1>19, <2>1, <2>2, <2>3, Forgotten DEF W!TypeOK, W!Reload, W!files, W!ego
<1>21. ASSUME NEW imported \in SUBSET Importable, W!InitFails(imported) PROVE W!TypeOK'
  <2>1. docs' \subseteq Task
    BY <1>1, <1>21 DEF W!InitFails, W!WorkspaceAssumption
  <2>2. UNCHANGED <<server, py, md, sidecar, backups, W!pulls, W!opens>>
    BY <1>21 DEF W!InitFails
  <2> QED
    BY <1>1, <1>2, <1>21, <2>1, <2>2, FailureHolds DEF W!TypeOK, W!pulls, W!opens
<1>20. CASE UNCHANGED W!vars
  BY <1>1, <1>2, <1>20 DEF W!TypeOK, W!vars, W!files, W!ego, W!pulls, W!opens
<1> QED
  BY <1>4, <1>5, <1>6, <1>7, <1>8, <1>9, <1>10, <1>11, <1>12, <1>13, <1>14, <1>15, <1>16, <1>17, <1>18,
     <1>19, <1>20, <1>21 DEF W!Next, W!PullStep, W!OpenStep

\* The manifests of pulls that wait, or are forgotten, hold.
LEMMA PullsHold ==
    ASSUME W!WorkspaceAssumption, TruthInv, [W!Next]_(W!vars), NEW p \in Pull,
           base'[p] = base[p] \/ base'[p] = W!NoManifest,
           entries'[p] = entries[p] \/ entries'[p] = W!NoManifest
    PROVE  Holds(base[p])' /\ Holds(entries[p])'
<1>1. \A m : Holds(m) => Holds(m)'
  BY HoldsOn
<1>2. Holds(base[p]) /\ Holds(entries[p]) /\ Holds(W!NoManifest)
  BY HoldsOf DEF TruthInv
<1>3. \A m : (m = base'[p] => (Holds(m)' => Holds(base[p])')) /\ (m = entries'[p] => (Holds(m)' => Holds(entries[p])'))
  BY DEF Holds, W!Absent
<1> QED
  BY <1>1, <1>2, <1>3

\* An opening that writes is on its way.
LEMMA OpeningStep ==
    ASSUME W!WorkspaceAssumption, TruthInv, [W!Next]_(W!vars)
    PROVE  OpeningInv'
<1>1. OpeningInv /\ DOMAIN opening = Opener /\ DOMAIN written = Opener /\ None \notin Task
  BY DEF TruthInv, W!TypeOK, W!WorkspaceAssumption
<1>2. CASE UNCHANGED <<opening, written>>
  BY <1>1, <1>2 DEF OpeningInv
<1>3. ASSUME NEW t \in Task, W!EditCode(t) \/ W!EditStatement(t) \/ W!Publish(t) PROVE OpeningInv'
  BY <1>2, <1>3 DEF W!EditCode, W!EditStatement, W!Publish, W!opens
<1>4. ASSUME NEW p \in Pull, W!PullStep(p) PROVE OpeningInv'
  BY <1>2, <1>4 DEF W!PullStep, W!StartPull, W!Fetched, W!FetchFailed, W!WriteStatement, W!WriteCode,
                    W!WriteFailed, W!FinishPull, W!opens
<1>5. ASSUME NEW o \in Opener, NEW t \in Task, W!BeginOpen(o, t) PROVE OpeningInv'
  BY <1>1, <1>5 DEF W!BeginOpen, OpeningInv
<1>6. ASSUME NEW o \in Opener, W!OpenStatement(o) PROVE OpeningInv'
  BY <1>1, <1>6 DEF W!OpenStatement, OpeningInv
<1>7. ASSUME NEW o \in Opener, W!OpenCode(o) \/ W!OpenFailed(o) PROVE OpeningInv'
  BY <1>1, <1>7 DEF W!OpenCode, W!OpenFailed, OpeningInv
<1>8. ASSUME NEW imported, NEW stubs, W!OfflineInit(imported, stubs) \/ W!InitFails(imported) PROVE OpeningInv'
  BY <1>2, <1>8 DEF W!OfflineInit, W!InitFails, W!opens
<1>9. CASE W!Solve \/ W!ServerSkeleton
  BY <1>2, <1>9 DEF W!Solve, W!ServerSkeleton, W!opens
<1>10. CASE W!Reload
  BY <1>10 DEF W!Reload, OpeningInv
<1>11. CASE UNCHANGED W!vars
  BY <1>2, <1>11 DEF W!vars, W!opens
<1> QED
  BY <1>3, <1>4, <1>5, <1>6, <1>7, <1>8, <1>9, <1>10, <1>11 DEF W!Next, W!OpenStep

\* The manifest, and what pulls make of it, say what can be found on disk.
LEMMA TruthStep ==
    ASSUME W!WorkspaceAssumption, TruthInv, [W!Next]_(W!vars)
    PROVE  TruthInv'
<1>1. W!TypeOK'
  BY FolderTypes
<1>2. \A m : Holds(m) => Holds(m)'
  BY HoldsOn
<1>0. OpeningInv'
  BY OpeningStep
<1>3. \A m : /\ m = manifest' => (Holds(m)' => Holds(manifest)')
             /\ \A p \in Pull : m = base'[p] => (Holds(m)' => Holds(base[p])')
             /\ \A p \in Pull : m = entries'[p] => (Holds(m)' => Holds(entries[p])')
  BY DEF Holds, W!Absent
<1>4. ASSUME manifest' = manifest \/ \E found : manifest' = W!Scanned(found)
      PROVE  Holds(manifest)'
  BY <1>2, <1>3, <1>4, HoldsOf DEF TruthInv
<1>5. ASSUME \A p \in Pull : /\ base'[p] = base[p] \/ base'[p] = W!NoManifest
                             /\ entries'[p] = entries[p] \/ entries'[p] = W!NoManifest
      PROVE  \A p \in Pull : Holds(base[p])' /\ Holds(entries[p])'
  BY <1>5, PullsHold
<1>6. ASSUME \A p \in Pull : got'[p] = got[p] \/ got'[p] = W!Nothing
      PROVE  WritingInv'
  BY <1>6, WritingOn DEF WritingInv, W!Nothing, W!Absent
<1>7. ASSUME UNCHANGED <<manifest, base, entries>> PROVE Holds(manifest)' /\ \A p \in Pull : Holds(base[p])' /\ Holds(entries[p])'
  BY <1>4, <1>5, <1>7
<1>8. ASSUME UNCHANGED <<manifest, base, entries, got>> PROVE TruthInv'
  BY <1>0, <1>1, <1>6, <1>7, <1>8 DEF TruthInv
<1>9. ASSUME NEW t \in Task, W!EditCode(t) \/ W!EditStatement(t) \/ W!Publish(t) PROVE TruthInv'
  BY <1>8, <1>9 DEF W!EditCode, W!EditStatement, W!Publish, W!ego, W!pulls
<1>10. CASE W!Solve
  BY <1>8, <1>10 DEF W!Solve, W!pulls
<1>11. ASSUME NEW p \in Pull, NEW ts \in SUBSET Task, W!StartPull(p, ts) PROVE TruthInv'
  <2>1. /\ base' = [base EXCEPT ![p] = manifest] /\ entries' = [entries EXCEPT ![p] = W!NoManifest]
        /\ UNCHANGED <<manifest, got>>
    BY <1>11 DEF W!StartPull, W!ego
  <2>2. base \in [Pull -> [Task -> W!Entry]] /\ entries \in [Pull -> [Task -> W!Entry]]
    BY DEF TruthInv, W!TypeOK
  <2>3. ASSUME NEW q \in Pull PROVE Holds(base[q])' /\ Holds(entries[q])'
    <3>1. CASE q = p
      <4>1. base'[q] = manifest /\ entries'[q] = W!NoManifest
        BY <2>1, <2>2, <3>1
      <4>2. Holds(manifest) /\ Holds(W!NoManifest)
        BY HoldsOf DEF TruthInv
      <4> QED
        BY <1>2, <1>3, <4>1, <4>2
    <3>2. CASE q # p
      <4>1. base'[q] = base[q] /\ entries'[q] = entries[q]
        BY <2>1, <2>2, <3>2
      <4> QED
        BY <4>1, PullsHold
    <3> QED
      BY <3>1, <3>2
  <2> QED
    BY <1>0, <1>1, <1>4, <1>6, <2>1, <2>3 DEF TruthInv
<1>12. ASSUME NEW p \in Pull, NEW t \in Task, W!Fetched(p, t) PROVE TruthInv'
  <2>1. UNCHANGED <<manifest, base, entries, server>>
    BY <1>12 DEF W!Fetched, W!ego
  <2>2. got' = [got EXCEPT ![p] = [task |-> t, v |-> server[t], md |-> FALSE, file |-> "md"]]
    BY <1>12 DEF W!Fetched
  <2>3. server[t] \in 1 .. MaxVersion /\ DOMAIN got = Pull
    BY DEF TruthInv, W!TypeOK
  <2>4. WritingInv'
    <3> SUFFICES ASSUME NEW q \in Pull, got'[q] # W!Nothing
                 PROVE  /\ got'[q].task \in Task /\ got'[q].v \in 1 .. MaxVersion
                        /\ got'[q].file = "py" => /\ md'[got'[q].task] # W!Absent
                                                  /\ got'[q].md => backups'[got'[q].task] # {}
      BY DEF WritingInv, W!Nothing, W!Absent
    <3>1. CASE q = p
      BY <2>2, <2>3, <3>1
    <3>2. CASE q # p
      <4>1. got'[q] = got[q]
        BY <2>2, <2>3, <3>2
      <4> QED
        BY <4>1, WritingOn
    <3> QED
      BY <3>1, <3>2
  <2> QED
    BY <1>0, <1>1, <1>7, <2>1, <2>4 DEF TruthInv
<1>13. ASSUME NEW p \in Pull, NEW t \in Task, W!FetchFailed(p, t) PROVE TruthInv'
  BY <1>8, <1>13 DEF W!FetchFailed, W!ego
\* The statement is written, after its backup where it was in conflict.
<1>14. ASSUME NEW p \in Pull, W!WriteStatement(p) PROVE TruthInv'
  <2>1. PICK b \in BOOLEAN : /\ got' = [got EXCEPT ![p].file = "py", ![p].md = b]
                             /\ b => backups' = [backups EXCEPT ![got[p].task] = @ \cup {md[got[p].task]}]
    BY <1>14 DEF W!WriteStatement, W!KeepCopy
  <2>2. UNCHANGED <<manifest, base, entries>> /\ md' = [md EXCEPT ![got[p].task] = got[p].v]
    BY <1>14 DEF W!WriteStatement, W!ego
  <2>3. /\ DOMAIN got = Pull /\ DOMAIN md = Task /\ DOMAIN backups = Task
        /\ got[p] \in [task : Task \union {None}, v : 0 .. MaxVersion, md : BOOLEAN, file : {"md", "py"}]
    BY DEF TruthInv, W!TypeOK
  <2>4. got[p].task \in Task /\ got[p].v \in 1 .. MaxVersion
    BY <1>14 DEF W!WriteStatement, TruthInv, WritingInv
  <2>5. got'[p].task = got[p].task /\ got'[p].v = got[p].v /\ got'[p].md = b
    BY <2>1, <2>3
  <2>6. md'[got[p].task] # W!Absent /\ (b => backups'[got[p].task] # {})
    BY <2>1, <2>2, <2>3, <2>4, TextNumbers, SMTT(30)
  <2>7. WritingInv'
    <3> SUFFICES ASSUME NEW q \in Pull, got'[q] # W!Nothing
                 PROVE  /\ got'[q].task \in Task /\ got'[q].v \in 1 .. MaxVersion
                        /\ got'[q].file = "py" => /\ md'[got'[q].task] # W!Absent
                                                  /\ got'[q].md => backups'[got'[q].task] # {}
      BY DEF WritingInv, W!Nothing, W!Absent
    <3>1. CASE q = p
      BY <2>4, <2>5, <2>6, <3>1
    <3>2. CASE q # p
      <4>1. got'[q] = got[q]
        BY <2>1, <2>3, <3>2
      <4> QED
        BY <4>1, WritingOn
    <3> QED
      BY <3>1, <3>2
  <2> QED
    BY <1>0, <1>1, <1>7, <2>2, <2>7 DEF TruthInv
\* The code is written, or the server's stub beside it: the entry of both files.
<1>15. ASSUME NEW p \in Pull, W!WriteCode(p) PROVE TruthInv'
  <2> DEFINE t == got[p].task
  <2>1. PICK b \in BOOLEAN :
          /\ entries' = [entries EXCEPT ![p][t] = [v |-> listed[p][t], md |-> got[p].md, py |-> b]]
          /\ b <=> W!Decide(py[t], got[p].v) = "conflict"
    BY <1>15 DEF W!WriteCode
  <2>2. UNCHANGED <<manifest, base, md, backups>> /\ got' = [got EXCEPT ![p] = W!Nothing]
    BY <1>15 DEF W!WriteCode, W!ego
  <2>3. /\ t \in Task /\ got[p].v # W!Absent /\ md[t] # W!Absent
        /\ got[p].md => backups[t] # {}
    BY <1>15, TextNumbers DEF W!WriteCode, TruthInv, WritingInv
  <2>4. /\ DOMAIN got = Pull /\ DOMAIN py = Task /\ DOMAIN sidecar = Task
        /\ got[p].md \in BOOLEAN /\ entries \in [Pull -> [Task -> W!Entry]]
    BY DEF TruthInv, W!TypeOK
  <2>5. py'[t] # W!Absent
    BY <1>15, <2>3, <2>4 DEF W!WriteCode, W!PlaceCode, W!Decide
  <2>6. b => sidecar'[t] # W!Absent
    BY <1>15, <2>1, <2>3, <2>4 DEF W!WriteCode, W!PlaceCode
  <2> DEFINE e == [v |-> listed[p][t], md |-> got[p].md, py |-> b]
  <2>7. e.md = got[p].md /\ e.py = b
    BY <2>4
  <2>8. ASSUME NEW q \in Pull PROVE Holds(base[q])' /\ Holds(entries[q])'
    <3>1. CASE q # p
      <4>1. base'[q] = base[q] /\ entries'[q] = entries[q]
        BY <2>1, <2>2, <3>1
      <4> QED
        BY <4>1, PullsHold
    <3>2. CASE q = p
      <4>1. Holds(base[q])'
        BY <1>2, <1>3, <2>2 DEF TruthInv
      <4>2. \A u \in Task : entries'[q][u] = IF u = t THEN e ELSE entries[q][u]
        BY <2>1, <2>4, <3>2
      <4>3. Holds(entries[q])'
        <5>1. PICK m : m = entries'[q]
          OBVIOUS
        <5> HIDE DEF e
        <5>2. \A u \in Task : m[u] = IF u = t THEN e ELSE entries[q][u]
          BY <4>2, <5>1
        <5>3. PICK n : n = entries[q]
          OBVIOUS
        <5>4. Holds(n)'
          BY <1>2, <5>3 DEF TruthInv
        <5>5. ASSUME NEW u \in Task
              PROVE  /\ m[u].v > 0 => py'[u] # W!Absent /\ md'[u] # W!Absent
                     /\ m[u].py => sidecar'[u] # W!Absent
                     /\ m[u].md => backups'[u] # {}
          <6>1. CASE u = t
            BY <2>2, <2>3, <2>5, <2>6, <2>7, <5>2, <6>1
          <6>2. CASE u # t
            <7>1. m[u] = n[u]
              BY <5>2, <5>3, <6>2
            <7> QED
              BY <5>4, <7>1 DEF Holds, W!Absent
          <6> QED
            BY <6>1, <6>2
        <5>6. Holds(m)'
          BY <5>5 DEF Holds, W!Absent
        <5> QED
          BY <1>3, <5>1, <5>6
      <4> QED
        BY <4>1, <4>3
    <3> QED
      BY <3>1, <3>2
  <2>9. WritingInv'
    BY <1>6, <2>2, <2>4
  <2> QED
    BY <1>0, <1>1, <1>4, <2>2, <2>8, <2>9 DEF TruthInv
<1>16. ASSUME NEW p \in Pull, W!WriteFailed(p) PROVE TruthInv'
  <2>1. UNCHANGED <<manifest, base, entries>> /\ got' = [got EXCEPT ![p] = W!Nothing]
    BY <1>16 DEF W!WriteFailed, W!ego
  <2>2. DOMAIN got = Pull
    BY DEF TruthInv, W!TypeOK
  <2>3. WritingInv'
    BY <1>6, <2>1, <2>2
  <2> QED
    BY <1>0, <1>1, <1>7, <2>1, <2>3 DEF TruthInv
<1>17. ASSUME NEW p \in Pull, W!FinishPull(p) PROVE TruthInv'
  <2>1. W!Forget({p}) /\ got' = got
    BY <1>17 DEF W!FinishPull
  <2>2. \A q \in Pull : Holds(base[q])' /\ Holds(entries[q])'
    BY <1>5, <2>1, Forgotten
  <2>3. Holds(manifest)'
    <3>1. CASE manifest' = W!Merge(base[p], entries[p])
      <4>1. base[p] \in [Task -> W!Entry] /\ entries[p] \in [Task -> W!Entry]
        BY DEF TruthInv, W!TypeOK
      <4>2. Holds(W!Merge(base[p], entries[p]))
        BY <4>1, HoldsOf DEF TruthInv
      <4> QED
        BY <1>2, <1>3, <3>1, <4>2
    <3>2. CASE manifest' = manifest
      BY <1>4, <3>2
    <3> QED
      BY <1>17, <3>1, <3>2 DEF W!FinishPull
  <2> QED
    BY <1>0, <1>1, <1>6, <2>1, <2>2, <2>3 DEF TruthInv
<1>18. ASSUME NEW o \in Opener, (\E t \in Task : W!BeginOpen(o, t)) \/ W!OpenStatement(o) \/ W!OpenCode(o) \/ W!OpenFailed(o)
       PROVE  TruthInv'
  BY <1>8, <1>18 DEF W!BeginOpen, W!OpenStatement, W!OpenCode, W!OpenFailed, W!ego, W!pulls
<1>19. ASSUME (\E imported \in SUBSET Importable, stubs \in SUBSET Task : W!OfflineInit(imported, stubs)) \/ W!ServerSkeleton
       PROVE  TruthInv'
  <2>1. (\E found : W!Skeleton(found)) /\ UNCHANGED <<base, entries, got>>
    BY <1>19 DEF W!OfflineInit, W!ServerSkeleton, W!pulls
  <2>2. Holds(manifest)'
    BY <1>4, <2>1, SkeletonHolds
  <2> QED
    BY <1>0, <1>1, <1>5, <1>6, <2>1, <2>2 DEF TruthInv
<1>22. ASSUME NEW imported \in SUBSET Importable, W!InitFails(imported) PROVE TruthInv'
  <2>1. UNCHANGED <<base, entries, got>>
    BY <1>22 DEF W!InitFails, W!pulls
  <2>2. Holds(manifest)'
    BY <1>2, <1>3, <1>4, <1>22, FailureHolds, HoldsOf
  <2> QED
    BY <1>0, <1>1, <1>5, <1>6, <2>1, <2>2 DEF TruthInv
<1>20. CASE W!Reload
  <2>1. W!Forget(Pull) /\ got' = [p \in Pull |-> W!Nothing] /\ manifest' = manifest
    BY <1>20 DEF W!Reload, W!ego
  <2>2. \A q \in Pull : Holds(base[q])' /\ Holds(entries[q])'
    BY <1>5, <2>1, Forgotten
  <2> QED
    BY <1>0, <1>1, <1>4, <1>6, <2>1, <2>2 DEF TruthInv
<1>21. CASE UNCHANGED W!vars
  BY <1>8, <1>21 DEF W!vars, W!ego, W!pulls
<1> QED
  BY <1>9, <1>10, <1>11, <1>12, <1>13, <1>14, <1>15, <1>16, <1>17, <1>18, <1>19, <1>20, <1>21, <1>22
     DEF W!Next, W!PullStep, W!OpenStep

\* Without Open Task, nothing but the student changes code the student has written.
LEMMA CodeKept ==
    ASSUME W!WorkspaceAssumption, TruthInv, [W!Next]_(W!vars), Opener = {}
    PROVE  W!KeepsCode
<1> SUFFICES ASSUME NEW t \in Task, py[t] \in W!Edited PROVE py'[t] \in W!Edited
  BY DEF W!KeepsCode, W!Edited
<1>1. py \in [Task -> W!Texts] /\ py[t] # W!Absent
  BY TextNumbers DEF TruthInv, W!TypeOK
<1>2. ASSUME NEW u \in Task, W!EditCode(u) PROVE py'[t] \in W!Edited
  BY <1>1, <1>2 DEF W!EditCode
<1>3. ASSUME NEW p \in Pull, W!WriteCode(p) PROVE py'[t] \in W!Edited
  BY <1>1, <1>3 DEF W!WriteCode, W!PlaceCode, W!Decide
<1>4. ASSUME NEW imported, NEW stubs, W!OfflineInit(imported, stubs) \/ W!InitFails(imported)
      PROVE  py'[t] \in W!Edited
  BY <1>1, <1>4 DEF W!OfflineInit, W!InitFails
<1>5. ASSUME NEW u \in Task, W!EditStatement(u) \/ W!Publish(u) PROVE py' = py
  BY <1>5 DEF W!EditStatement, W!Publish, W!files
<1>6. ASSUME NEW p \in Pull,
             \/ \E ts \in SUBSET Task : W!StartPull(p, ts)
             \/ \E u \in Task : W!Fetched(p, u) \/ W!FetchFailed(p, u)
             \/ W!WriteStatement(p) \/ W!WriteFailed(p) \/ W!FinishPull(p)
      PROVE  py' = py
  BY <1>6 DEF W!StartPull, W!Fetched, W!FetchFailed, W!WriteStatement, W!WriteFailed, W!FinishPull, W!files
<1>7. ASSUME W!Solve \/ W!ServerSkeleton \/ W!Reload PROVE py' = py
  BY <1>7 DEF W!Solve, W!ServerSkeleton, W!Reload, W!files
<1>8. CASE UNCHANGED W!vars
  BY <1>8 DEF W!vars, W!files
<1> QED
  BY <1>2, <1>3, <1>4, <1>5, <1>6, <1>7, <1>8 DEF W!Next, W!PullStep

\* While a task's files are asked for there is no statement to lose, when nothing is
\* pulled meanwhile: a statement has come without its code only where an opening is
\* writing, or stopped between the two.
OpenInv ==
    /\ \A t \in Task : \/ md[t] = W!Absent \/ py[t] # W!Absent \/ t \in torn
                      \/ \E o \in Opener : opening[o] = t /\ written[o] # 0
    /\ \A o \in Opener : opening[o] # None /\ written[o] = 0 /\ opening[o] \notin torn
                          => md[opening[o]] = W!Absent

LEMMA OpenStep ==
    ASSUME W!WorkspaceAssumption, TruthInv, [W!Next]_(W!vars), Pull = {}, OneOpener, OpenInv
    PROVE  OpenInv'
<1>1. /\ py \in [Task -> W!Texts] /\ md \in [Task -> W!Texts] /\ server \in [Task -> 1 .. MaxVersion]
      /\ opening \in [Opener -> Task \cup {None}] /\ written \in [Opener -> 0 .. MaxVersion]
      /\ \A o \in Opener : opening[o] = None => written[o] = 0
      /\ None \notin Task
  BY DEF TruthInv, W!TypeOK, OpeningInv, W!WorkspaceAssumption
<1>2. \A t \in Task : (py[t] # W!Absent => py'[t] # W!Absent)
  BY FilesStay
<1>3. ASSUME md' = md, UNCHANGED <<opening, written, torn>> PROVE OpenInv'
  BY <1>2, <1>3 DEF OpenInv, W!Absent
<1>4. ASSUME NEW t \in Task, W!EditStatement(t) PROVE OpenInv'
  <2>1. UNCHANGED <<py, opening, written, torn>> /\ \A u \in Task : (md'[u] = W!Absent) = (md[u] = W!Absent)
    BY <1>1, <1>4, TextNumbers DEF W!EditStatement, W!opens
  <2> QED
    BY <1>1, <2>1 DEF OpenInv, W!Absent
<1>5. ASSUME NEW o \in Opener, NEW t \in Task, W!BeginOpen(o, t) PROVE OpenInv'
  <2>1. /\ py[t] = W!Absent /\ opening[o] = None /\ opening' = [opening EXCEPT ![o] = t]
        /\ UNCHANGED <<py, md, written, torn>>
    BY <1>5 DEF W!BeginOpen, W!files
  <2>2. \A q \in Opener : q = o /\ opening[q] = None /\ opening'[q] = t /\ written[q] = 0
    BY <1>1, <2>1 DEF OneOpener
  <2>3. md[t] = W!Absent \/ t \in torn
    BY <1>1, <2>1, <2>2 DEF OpenInv
  <2>4. \A u \in Task : md[u] = W!Absent \/ py[u] # W!Absent \/ u \in torn
    BY <1>1, <2>2 DEF OpenInv
  <2> QED
    BY <2>1, <2>2, <2>3, <2>4 DEF OpenInv, W!Absent
<1>6. ASSUME NEW o \in Opener, W!OpenStatement(o) PROVE OpenInv'
  <2>1. /\ opening[o] \in Task /\ md' = [md EXCEPT ![opening[o]] = server[opening[o]]]
        /\ UNCHANGED <<py, opening, torn>> /\ written[o] = 0
        /\ written' = [written EXCEPT ![o] = server[opening[o]]]
    BY <1>1, <1>6 DEF W!OpenStatement
  <2>2. \A q \in Opener : q = o /\ written[q] = 0 /\ written'[q] # 0
    BY <1>1, <2>1, TextNumbers DEF OneOpener, W!Absent
  <2>3. \A u \in Task : u # opening[o] => md'[u] = md[u]
    BY <1>1, <2>1
  <2>4. \A u \in Task : md[u] = W!Absent \/ py[u] # W!Absent \/ u \in torn
    BY <2>2 DEF OpenInv
  <2> QED
    BY <2>1, <2>2, <2>3, <2>4 DEF OpenInv, W!Absent
<1>7. ASSUME NEW o \in Opener, W!OpenCode(o) PROVE OpenInv'
  <2>1. /\ opening[o] \in Task /\ py' = [py EXCEPT ![opening[o]] = written[o]] /\ written[o] # 0
        /\ opening' = [opening EXCEPT ![o] = None] /\ torn' = torn \ {opening[o]} /\ md' = md
    BY <1>1, <1>7 DEF W!OpenCode
  <2>2. \A q \in Opener : q = o /\ opening'[q] = None
    BY <1>1, <2>1 DEF OneOpener
  <2>3. py'[opening[o]] # W!Absent
    BY <1>1, <2>1 DEF W!Absent
  <2>4. \A u \in Task : u # opening[o] => (md'[u] = W!Absent \/ py'[u] # W!Absent \/ u \in torn')
    BY <1>1, <1>2, <2>1, <2>2 DEF OpenInv
  <2> QED
    BY <2>2, <2>3, <2>4 DEF OpenInv, W!Absent
\* The openings end; those that have written the statement leave their task torn.
<1>8. ASSUME md' = md, \A q \in Opener : opening'[q] = None,
             \A q \in Opener : written[q] # 0 => opening[q] \in torn', torn \subseteq torn'
      PROVE  OpenInv'
  BY <1>2, <1>8 DEF OpenInv, W!Absent
<1>9. ASSUME NEW o \in Opener, W!OpenFailed(o) PROVE OpenInv'
  <2>1. /\ md' = md /\ opening' = [opening EXCEPT ![o] = None]
        /\ torn' = IF written[o] = 0 THEN torn ELSE torn \union {opening[o]}
    BY <1>9 DEF W!OpenFailed, W!files
  <2>2. \A q \in Opener : q = o /\ opening'[q] = None
    BY <1>1, <2>1 DEF OneOpener
  <2> QED
    BY <1>8, <2>1, <2>2
<1>10. ASSUME W!Reload PROVE OpenInv'
  BY <1>8, <1>10 DEF W!Reload, W!files
<1>11. ASSUME NEW imported, NEW stubs, W!OfflineInit(imported, stubs) \/ W!InitFails(imported) PROVE OpenInv'
  BY <1>3, <1>11 DEF W!OfflineInit, W!InitFails, W!opens
<1>12. ASSUME NEW t \in Task, W!EditCode(t) \/ W!Publish(t) PROVE OpenInv'
  BY <1>3, <1>12 DEF W!EditCode, W!Publish, W!files, W!opens
<1>13. ASSUME W!Solve \/ W!ServerSkeleton PROVE OpenInv'
  BY <1>3, <1>13 DEF W!Solve, W!ServerSkeleton, W!files, W!opens
<1>14. CASE UNCHANGED W!vars
  BY <1>3, <1>14 DEF W!vars, W!files, W!opens
<1> QED
  BY <1>4, <1>5, <1>6, <1>7, <1>9, <1>10, <1>11, <1>12, <1>13, <1>14 DEF W!Next, W!OpenStep

\* An annotated statement stays, or becomes a backup, or the student changes it, or a
\* task whose last opening stopped between its files is opened again.
LEMMA AnnotationsKept ==
    ASSUME W!WorkspaceAssumption, TruthInv, [W!Next]_(W!vars),
           Opener = {} \/ (Pull = {} /\ OneOpener /\ OpenInv)
    PROVE  W!KeepsAnnotations
<1> SUFFICES ASSUME NEW t \in Task, NEW e \in W!Edited, e \in backups[t] \union {md[t]}
             PROVE  \/ e \in backups'[t] \union {md'[t]}
                    \/ md[t] = e /\ (md'[t] \in W!Edited \/ W!Reopened(t))
  BY DEF W!KeepsAnnotations, W!Edited
<1>1. /\ md \in [Task -> W!Texts] /\ backups \in [Task -> SUBSET W!Texts] /\ e # W!Absent
  BY TextNumbers DEF TruthInv, W!TypeOK
<1>2. backups[t] \subseteq backups'[t]
  BY FilesStay
<1>3. SUFFICES ASSUME md[t] = e
               PROVE  md'[t] = e \/ e \in backups'[t] \/ md'[t] \in W!Edited \/ W!Reopened(t)
  BY <1>2
<1>4. ASSUME NEW u \in Task, W!EditStatement(u) PROVE md'[t] = e \/ md'[t] \in W!Edited
  BY <1>1, <1>3, <1>4 DEF W!EditStatement
<1>5. ASSUME NEW p \in Pull, W!WriteStatement(p) PROVE md'[t] = e \/ e \in backups'[t]
  <2>1. CASE t # got[p].task
    BY <1>1, <1>3, <1>5, <2>1 DEF W!WriteStatement
  <2>2. CASE t = got[p].task
    BY <1>1, <1>3, <1>5, <2>2 DEF W!WriteStatement, W!Decide, W!KeepCopy
  <2> QED
    BY <2>1, <2>2
<1>6. ASSUME NEW o \in Opener, W!OpenStatement(o) PROVE md'[t] = e \/ W!Reopened(t)
  <2>1. /\ opening[o] # None /\ written[o] = 0
        /\ md' = [md EXCEPT ![opening[o]] = server[opening[o]]]
    BY <1>6 DEF W!OpenStatement
  <2>2. CASE t # opening[o]
    BY <1>1, <1>3, <2>1, <2>2
  <2>3. CASE t = opening[o]
    <3>1. t \in torn
      BY <1>1, <1>3, <1>6, <2>1, <2>3 DEF OpenInv
    <3> QED
      BY <2>1, <2>3, <3>1 DEF W!Reopened
  <2> QED
    BY <2>2, <2>3
<1>7. ASSUME NEW u \in Task, W!EditCode(u) \/ W!Publish(u) PROVE md' = md
  BY <1>7 DEF W!EditCode, W!Publish, W!files
<1>8. ASSUME NEW p \in Pull,
             \/ \E ts \in SUBSET Task : W!StartPull(p, ts)
             \/ \E u \in Task : W!Fetched(p, u) \/ W!FetchFailed(p, u)
             \/ W!WriteCode(p) \/ W!WriteFailed(p) \/ W!FinishPull(p)
      PROVE  md' = md
  BY <1>8 DEF W!StartPull, W!Fetched, W!FetchFailed, W!WriteCode, W!WriteFailed, W!FinishPull, W!files
<1>9. ASSUME NEW o \in Opener, (\E u \in Task : W!BeginOpen(o, u)) \/ W!OpenCode(o) \/ W!OpenFailed(o)
      PROVE  md' = md
  BY <1>9 DEF W!BeginOpen, W!OpenCode, W!OpenFailed, W!files
<1>10. ASSUME NEW imported, NEW stubs, W!OfflineInit(imported, stubs) \/ W!InitFails(imported) PROVE md' = md
  BY <1>10 DEF W!OfflineInit, W!InitFails
<1>11. ASSUME W!Solve \/ W!ServerSkeleton \/ W!Reload PROVE md' = md
  BY <1>11 DEF W!Solve, W!ServerSkeleton, W!Reload, W!files
<1>12. CASE UNCHANGED W!vars
  BY <1>3, <1>12 DEF W!vars, W!files
<1> QED
  BY <1>3, <1>4, <1>5, <1>6, <1>7, <1>8, <1>9, <1>10, <1>11, <1>12 DEF W!Next, W!PullStep, W!OpenStep

\* A merge forgets no entry and no flag of the older manifest.
LEMMA MergeKeeps ==
    ASSUME NEW old \in [Task -> W!Entry], NEW new \in [Task -> W!Entry], NEW t \in Task,
           NEW m, m = W!Merge(old, new)[t]
    PROVE  /\ old[t] # W!NoEntry => m # W!NoEntry
           /\ old[t].md => m.md
           /\ old[t].py => m.py
<1>1. CASE m = old[t]
  BY <1>1
<1>2. CASE new[t] # W!NoEntry /\ m = [v |-> new[t].v, md |-> new[t].md \/ old[t].md, py |-> new[t].py \/ old[t].py]
  <2> DEFINE a == new[t].md \/ old[t].md
             b == new[t].py \/ old[t].py
  <2>1. a \in BOOLEAN /\ b \in BOOLEAN /\ m = [v |-> new[t].v, md |-> a, py |-> b]
    BY <1>2
  <2>2. (old[t].md => a) /\ (old[t].py => b) /\ (new[t].md => a) /\ (new[t].py => b)
    OBVIOUS
  <2> HIDE DEF a, b
  <2>3. m.v = new[t].v /\ m.md = a /\ m.py = b
    BY <2>1
  <2>4. ASSUME m = W!NoEntry PROVE FALSE
    <3>1. m.v = -1 /\ m.md = FALSE /\ m.py = FALSE
      BY <2>4 DEF W!NoEntry
    <3>2. new[t].v = -1 /\ ~new[t].md /\ ~new[t].py
      BY <2>1, <2>2, <2>3, <3>1
    <3>3. new[t] \in W!Entry
      OBVIOUS
    <3>4. new[t] = W!NoEntry
      BY <3>2, <3>3 DEF W!Entry, W!NoEntry
    <3> QED
      BY <1>2, <3>4
  <2> QED
    BY <2>2, <2>3, <2>4
<1> QED
  BY <1>1, <1>2 DEF W!Merge

\* What a running pull has read is still the manifest: there is no second pull,
\* and an initialization has nothing to add.
EgoInv ==
    /\ manifestState = "none" => manifest = W!NoManifest
    /\ Importable = {} => docs = {}
    /\ \A p \in pulling : manifestState # "invalid" /\ base[p] = manifest

\* An initialization changes only what is missing.
LEMMA SkeletonAdds ==
    ASSUME EgoInv, NEW found, W!Skeleton(found)
    PROVE  /\ manifestState # "none" => manifest' = manifest /\ manifestState' = manifestState
           /\ manifestState = "none" => manifest = W!NoManifest /\ manifestState' = "ok"
           /\ found = {} => manifest' = manifest
           /\ progress = "rows" => progress' = "rows"
BY DEF W!Skeleton, EgoInv, W!Scanned, W!NoManifest

LEMMA EgoStep ==
    ASSUME W!WorkspaceAssumption, TruthInv, [W!Next]_(W!vars), EgoInv,
           OnePull, Importable = {} \/ Pull = {}
    PROVE  EgoInv' /\ W!KeepsEgoData
<1>1. pulling \subseteq Pull /\ base \in [Pull -> [Task -> W!Entry]] /\ manifest \in [Task -> W!Entry]
  BY DEF TruthInv, W!TypeOK
<1>2. ASSUME UNCHANGED <<docs, manifestState, manifest, pulling, base>>, progress = "rows" => progress' = "rows"
      PROVE  EgoInv' /\ W!KeepsEgoData
  BY <1>2 DEF EgoInv, W!KeepsEgoData, W!NoManifest, W!NoEntry
<1>3. ASSUME NEW p \in Pull, NEW ts \in SUBSET Task, W!StartPull(p, ts) PROVE EgoInv' /\ W!KeepsEgoData
  <2>1. /\ UNCHANGED <<docs, manifestState, manifest, progress>> /\ manifestState # "invalid"
        /\ pulling' = pulling \cup {p} /\ base' = [base EXCEPT ![p] = manifest]
    BY <1>3 DEF W!StartPull, W!files, W!ego, W!Readable
  <2>2. \A q \in pulling' : base'[q] = manifest
    BY <1>1, <2>1 DEF OnePull
  <2> QED
    BY <2>1, <2>2 DEF EgoInv, W!KeepsEgoData, W!NoManifest, W!NoEntry
<1>4. ASSUME NEW p \in Pull, W!FinishPull(p) PROVE EgoInv' /\ W!KeepsEgoData
  <2>1. /\ p \in pulling /\ pulling' = pulling \ {p} /\ UNCHANGED <<docs, progress>>
        /\ \/ manifest' = W!Merge(base[p], entries[p]) /\ manifestState' = "ok"
           \/ UNCHANGED <<manifest, manifestState>>
    BY <1>4 DEF W!FinishPull, W!files
  <2>2. pulling' = {}
    BY <1>1, <2>1 DEF OnePull
  <2>3. EgoInv'
    BY <2>1, <2>2 DEF EgoInv, W!NoManifest, W!NoEntry
  <2>4. base[p] = manifest /\ manifestState # "invalid"
    BY <2>1 DEF EgoInv
  <2>5. W!KeepsEgoData
    <3>1. CASE UNCHANGED <<manifest, manifestState>>
      BY <2>1, <3>1 DEF W!KeepsEgoData
    <3>2. CASE manifest' = W!Merge(base[p], entries[p])
      <4>1. base[p] \in [Task -> W!Entry] /\ entries[p] \in [Task -> W!Entry]
        BY DEF TruthInv, W!TypeOK
      <4>2. ASSUME NEW t \in Task
            PROVE  /\ manifest[t] # W!NoEntry => manifest'[t] # W!NoEntry
                   /\ manifest[t].md => manifest'[t].md
                   /\ manifest[t].py => manifest'[t].py
        BY <2>4, <3>2, <4>1, MergeKeeps
      <4> QED
        BY <2>1, <2>4, <4>2 DEF W!KeepsEgoData, W!NoEntry
    <3> QED
      BY <2>1, <3>1, <3>2
  <2> QED
    BY <2>3, <2>5
<1>5. ASSUME NEW found, W!Skeleton(found), UNCHANGED <<pulling, base>>, Importable = {} => docs' = {} /\ found = {}
      PROVE  EgoInv' /\ W!KeepsEgoData
  <2>1. /\ manifestState # "none" => manifest' = manifest /\ manifestState' = manifestState
        /\ manifestState = "none" => manifest = W!NoManifest /\ manifestState' = "ok"
        /\ found = {} => manifest' = manifest
        /\ progress = "rows" => progress' = "rows"
    BY <1>5, SkeletonAdds
  <2>2. \A p \in pulling : manifest' = manifest
    BY <1>1, <1>5, <2>1
  <2>3. EgoInv'
    BY <1>5, <2>1, <2>2 DEF EgoInv, W!NoManifest, W!NoEntry
  <2>4. ASSUME NEW t \in Task
        PROVE  /\ manifest[t] # W!NoEntry => manifest'[t] # W!NoEntry
               /\ manifest[t].md => manifest'[t].md
               /\ manifest[t].py => manifest'[t].py
    <3>1. CASE manifestState # "none"
      BY <2>1, <3>1
    <3>2. CASE manifest = W!NoManifest
      BY <3>2 DEF W!NoManifest, W!NoEntry
    <3> QED
      BY <2>1, <3>1, <3>2
  <2>5. manifestState = "invalid" => manifestState' = "invalid"
    BY <2>1
  <2> QED
    BY <2>1, <2>3, <2>4, <2>5 DEF W!KeepsEgoData, W!NoEntry
<1>6. ASSUME NEW imported \in SUBSET Importable, NEW stubs, W!OfflineInit(imported, stubs)
      PROVE  EgoInv' /\ W!KeepsEgoData
  <2>1. W!Skeleton(docs') /\ UNCHANGED <<pulling, base>> /\ docs' = docs \cup imported
    BY <1>6 DEF W!OfflineInit, W!pulls
  <2>2. Importable = {} => docs' = {}
    BY <2>1 DEF EgoInv
  <2> QED
    BY <1>5, <2>1, <2>2
<1>14. ASSUME NEW imported \in SUBSET Importable, W!InitFails(imported)
       PROVE  EgoInv' /\ W!KeepsEgoData
  <2>1. /\ docs' = docs \cup imported /\ UNCHANGED <<pulling, base>>
        /\ manifestState # "none" => UNCHANGED <<manifest, manifestState, progress>>
        /\ manifestState = "none" => manifest' = W!NoManifest /\ manifestState' \in {"none", "ok"}
        /\ progress = "rows" => progress' = "rows"
    BY <1>14 DEF W!InitFails, W!ego, W!pulls
  <2>2. manifest' = manifest
    BY <2>1 DEF EgoInv
  <2>3. EgoInv'
    BY <2>1, <2>2 DEF EgoInv, W!NoManifest, W!NoEntry
  <2> QED
    BY <2>1, <2>2, <2>3 DEF EgoInv, W!KeepsEgoData, W!NoManifest, W!NoEntry
<1>7. CASE W!ServerSkeleton
  <2>1. W!Skeleton({}) /\ UNCHANGED <<pulling, base, docs>>
    BY <1>7 DEF W!ServerSkeleton, W!files, W!pulls
  <2> QED
    BY <1>5, <2>1 DEF EgoInv
<1>8. CASE W!Reload
  <2>1. pulling' = {} /\ UNCHANGED <<docs, manifestState, manifest, progress>>
    BY <1>8 DEF W!Reload, W!files, W!ego
  <2> QED
    BY <2>1 DEF EgoInv, W!KeepsEgoData, W!NoManifest, W!NoEntry
<1>9. ASSUME NEW t \in Task, W!EditCode(t) \/ W!EditStatement(t) \/ W!Publish(t) PROVE EgoInv' /\ W!KeepsEgoData
  BY <1>2, <1>9 DEF W!EditCode, W!EditStatement, W!Publish, W!files, W!ego, W!pulls
<1>10. CASE W!Solve
  BY <1>2, <1>10 DEF W!Solve, W!files, W!pulls
<1>11. ASSUME NEW p \in Pull,
              \/ \E u \in Task : W!Fetched(p, u) \/ W!FetchFailed(p, u)
              \/ W!WriteStatement(p) \/ W!WriteCode(p) \/ W!WriteFailed(p)
       PROVE  EgoInv' /\ W!KeepsEgoData
  BY <1>2, <1>11 DEF W!Fetched, W!FetchFailed, W!WriteStatement, W!WriteCode, W!WriteFailed, W!files, W!ego
<1>12. ASSUME NEW o \in Opener,
              (\E u \in Task : W!BeginOpen(o, u)) \/ W!OpenStatement(o) \/ W!OpenCode(o) \/ W!OpenFailed(o)
       PROVE  EgoInv' /\ W!KeepsEgoData
  BY <1>2, <1>12 DEF W!BeginOpen, W!OpenStatement, W!OpenCode, W!OpenFailed, W!files, W!ego, W!pulls
<1>13. CASE UNCHANGED W!vars
  BY <1>2, <1>13 DEF W!vars, W!files, W!ego, W!pulls
<1> QED
  BY <1>3, <1>4, <1>6, <1>7, <1>8, <1>9, <1>10, <1>11, <1>12, <1>13, <1>14
     DEF W!Next, W!PullStep, W!OpenStep

\* What WorkKept says of a folder, for all casts: where files are opened from the
\* server, or initializations may add to a manifest a pull has read, less holds.
WorkKept ==
    /\ [](W!TypeOK /\ W!ManifestTellsTruth)
    /\ [][/\ Opener = {} => W!KeepsCode
          /\ Opener = {} \/ (Pull = {} /\ OneOpener) => W!KeepsAnnotations
          /\ OnePull /\ (Importable = {} \/ Pull = {}) => W!KeepsEgoData]_(W!vars)

\* The student's work survives.  However many pulls of however many tasks overlap,
\* fail and are cut off: what the manifest says of a pulled task can be found on
\* disk, code the student has written is replaced by no pull (decideTextFile), and
\* an annotated statement stays on disk, itself or as a backup, until the student
\* changes it.  One opening at a time keeps annotated statements, too, whatever write
\* fails, but for those of a task whose last opening stopped between its two files;
\* one pull at a time forgets nothing that .ego/ knows (mergeManifestEntries,
\* pullTasks.ts, extension.ts:679-680).
THEOREM WorkIsKept ==
    ASSUME W!WorkspaceAssumption
    PROVE  W!Spec => WorkKept
<1>1. ASSUME W!Init PROVE TruthInv /\ OpenInv /\ EgoInv
  <2>1. /\ W!NoManifest \in [Task -> W!Entry] /\ Holds(W!NoManifest)
        /\ W!Absent \in W!Texts /\ 1 \in 1 .. MaxVersion /\ 0 \in 0 .. MaxVersion
    BY EntryTypes, HoldsOf, TextNumbers
  <2>2. W!Nothing \in [task : Task \union {None}, v : 0 .. MaxVersion, md : BOOLEAN, file : {"md", "py"}]
    BY <2>1 DEF W!Nothing
  <2>3. W!TypeOK
    BY <1>1, <2>1, <2>2 DEF W!Init, W!TypeOK
  <2>4. TruthInv
    BY <1>1, <2>1, <2>3 DEF W!Init, TruthInv, WritingInv, OpeningInv
  <2> QED
    BY <1>1, <2>4 DEF W!Init, OpenInv, EgoInv
<1>2. TruthInv /\ [W!Next]_(W!vars) => TruthInv'
  BY TruthStep
<1>3. TruthInv => W!TypeOK /\ W!ManifestTellsTruth
  BY DEF TruthInv, Holds, W!ManifestTellsTruth
<1>4. TruthInv /\ [W!Next]_(W!vars) => (Opener = {} => W!KeepsCode)
  BY CodeKept
<1>5. TruthInv /\ [W!Next]_(W!vars) => (Opener = {} => W!KeepsAnnotations)
  BY AnnotationsKept
<1>6. ASSUME Pull = {} /\ OneOpener PROVE W!Spec => [][W!KeepsAnnotations]_(W!vars)
  <2>1. TruthInv /\ OpenInv /\ [W!Next]_(W!vars) => OpenInv' /\ W!KeepsAnnotations
    BY <1>6, OpenStep, AnnotationsKept
  <2> QED
    BY <1>1, <1>2, <2>1, PTL DEF W!Spec
<1>7. ASSUME OnePull /\ (Importable = {} \/ Pull = {}) PROVE W!Spec => [][W!KeepsEgoData]_(W!vars)
  <2>1. TruthInv /\ EgoInv /\ [W!Next]_(W!vars) => EgoInv' /\ W!KeepsEgoData
    BY <1>7, EgoStep
  <2> QED
    BY <1>1, <1>2, <2>1, PTL DEF W!Spec
\* The constants' conditions do not change.
<1>8. W!Spec => [](W!TypeOK /\ W!ManifestTellsTruth) /\ [][Opener = {} => W!KeepsCode /\ W!KeepsAnnotations]_(W!vars)
  <2>1. TruthInv /\ [W!Next]_(W!vars) => (Opener = {} => W!KeepsCode /\ W!KeepsAnnotations)
    BY <1>4, <1>5
  <2> QED
    BY <1>1, <1>2, <1>3, <2>1, PTL DEF W!Spec
<1>9. W!Spec => [][Pull = {} /\ OneOpener => W!KeepsAnnotations]_(W!vars)
  <2>1. CASE Pull = {} /\ OneOpener
    <3>1. W!KeepsAnnotations => (Pull = {} /\ OneOpener => W!KeepsAnnotations)
      OBVIOUS
    <3> QED
      BY <1>6, <2>1, <3>1, PTL
  <2>2. CASE ~(Pull = {} /\ OneOpener)
    <3>1. Pull = {} /\ OneOpener => W!KeepsAnnotations
      BY <2>2
    <3> QED
      BY <3>1, PTL
  <2> QED
    BY <2>1, <2>2
<1>10. W!Spec => [][OnePull /\ (Importable = {} \/ Pull = {}) => W!KeepsEgoData]_(W!vars)
  <2>1. CASE OnePull /\ (Importable = {} \/ Pull = {})
    <3>1. W!KeepsEgoData => (OnePull /\ (Importable = {} \/ Pull = {}) => W!KeepsEgoData)
      OBVIOUS
    <3> QED
      BY <1>7, <2>1, <3>1, PTL
  <2>2. CASE ~(OnePull /\ (Importable = {} \/ Pull = {}))
    <3>1. OnePull /\ (Importable = {} \/ Pull = {}) => W!KeepsEgoData
      BY <2>2
    <3> QED
      BY <3>1, PTL
  <2> QED
    BY <2>1, <2>2
<1>11. /\ (Opener = {} => W!KeepsCode /\ W!KeepsAnnotations) /\ (Pull = {} /\ OneOpener => W!KeepsAnnotations)
       /\ (OnePull /\ (Importable = {} \/ Pull = {}) => W!KeepsEgoData)
       => /\ Opener = {} => W!KeepsCode
          /\ Opener = {} \/ (Pull = {} /\ OneOpener) => W!KeepsAnnotations
          /\ OnePull /\ (Importable = {} \/ Pull = {}) => W!KeepsEgoData
  OBVIOUS
<1> QED
  BY <1>8, <1>9, <1>10, <1>11, PTL DEF WorkKept

-----------------------------------------------------------------------------
(* Checks and pushes *)

CONSTANTS Tasks, Texts, Right, Commands, MaxChecks, MaxPushes

VARIABLES disk, mode, working, cached, local, logs, checks, pushes, rows, runs, ran, received

L == INSTANCE LocalChecks WITH progress <- rows

CheckRecord ==
    [stage : {"unused", "detecting", "spawning", "running", "loading", "saving",
              "logging", "printed", "server", "answered", "ended"},
     task : Tasks \cup {None}, text : Texts \cup {None}, cmd : Commands \cup {None}, seen : Texts \cup {None},
     copy : [Tasks -> L!Entries \cup {None}], before : Nat]

PushRecord ==
    [stage : {"unused", "pushing", "ended"}, all : SUBSET L!Entries, left : SUBSET L!Entries,
     now : L!Entries \cup {None}, stored : BOOLEAN, pushed : Nat, errors : Nat]

ChecksTypes ==
    /\ disk \in [Tasks -> Texts \cup {None}] /\ mode \in {"offline", "server"}
    /\ working \subseteq Commands /\ cached \in Commands \cup {None}
    /\ local \in [Tasks -> L!Entries \cup {None}] /\ logs \in [Tasks -> Texts \cup {None}]
    /\ checks \in [L!Check -> CheckRecord] /\ pushes \in [L!Push -> PushRecord]
    /\ rows \in [Tasks -> L!Rows \cup {None}] /\ runs \in [Tasks -> Seq(L!Statuses)]

\* A result that says "passed" is of a task of which a right solution was executed.
Earned(t, s) == s = "passed" => \E x \in Right : <<t, x>> \in ran

\* A check that is under way is of a text of a task; offline its file is there;
\* what the command line has run was executed, and what it has copied was earned.
CheckKept(c) ==
    /\ c.stage \in {"detecting", "spawning", "running", "loading", "saving", "logging", "printed", "server"}
         => c.task \in Tasks /\ c.text \in Texts
    /\ c.stage \in {"detecting", "spawning", "running"} => disk[c.task] \in Texts
    /\ c.stage = "spawning" => c.cmd \in Commands
    /\ c.stage \in {"loading", "saving", "logging", "printed"}
         => c.seen \in Texts /\ <<c.task, c.seen>> \in ran
    /\ c.stage = "saving"
         => \A t \in Tasks : c.copy[t] # None => Earned(c.copy[t].task, c.copy[t].status)

EarnedInv ==
    /\ \A t \in Tasks : /\ local[t] # None => Earned(local[t].task, local[t].status)
                        /\ rows[t] # None => Earned(t, rows[t].status)
    /\ \A p \in L!Push : \A e \in pushes[p].all : Earned(e.task, e.status)

\* What a push has read is stored, being sent, still to send, or counted as an
\* error; its counts add up.
PushKept(q) ==
    /\ IsFiniteSet(q.all) /\ q.left \subseteq q.all /\ None \notin q.all
    /\ q.now \in q.all \cup {None} /\ q.now \notin q.left
    /\ q.now # None /\ q.stored => q.now \in received
    /\ q.errors = 0 => /\ \A e \in q.all : e \in q.left \/ e = q.now \/ e \in received
                       /\ q.pushed + Cardinality(q.left) + (IF q.now = None THEN 0 ELSE 1)
                            = Cardinality(q.all)
    /\ q.stage = "ended" => q.left = {} /\ q.now = None

ProgressInv ==
    /\ ChecksTypes /\ EarnedInv /\ L!AttemptsCountRuns
    /\ \A i \in L!Check : CheckKept(checks[i])
    /\ \A p \in L!Push : PushKept(pushes[p])

ProgressIsEarned ==
    L!TypeOK /\ L!SolvedIsEarned /\ L!AttemptsCountRuns /\ L!PushedIsStored

\* Finite sets and their sizes are the same in the module as here.
LEMMA SameFinite == ASSUME NEW X PROVE L!IsFiniteSet(X) = IsFiniteSet(X)
BY DEF L!IsFiniteSet, IsFiniteSet

LEMMA SameSize == ASSUME NEW X PROVE L!Cardinality(X) = Cardinality(X)
BY DEF L!Cardinality, Cardinality

\* A run counts once in a task's row and once in its runs.
LEMMA UpsertCounts ==
    ASSUME L!LocalAssumption, ChecksTypes, L!AttemptsCountRuns, NEW t \in Tasks, NEW s \in L!Statuses,
           L!Upsert(t, s, L!AttemptsOf(t))
    PROVE  /\ rows' \in [Tasks -> L!Rows \cup {None}] /\ runs' \in [Tasks -> Seq(L!Statuses)]
           /\ L!AttemptsCountRuns'
           /\ \A u \in Tasks : rows'[u] = rows[u] \/ (u = t /\ rows'[u].status = s)
<1>1. /\ rows \in [Tasks -> L!Rows \cup {None}] /\ runs \in [Tasks -> Seq(L!Statuses)] /\ None \notin L!Rows
  BY DEF ChecksTypes, L!LocalAssumption
<1>2. L!AttemptsOf(t) \in Nat
  BY <1>1 DEF L!AttemptsOf, L!Rows
<1> DEFINE r == [status |-> s, attempts |-> L!AttemptsOf(t) + 1]
<1>3. r \in L!Rows /\ r.status = s /\ r.attempts = L!AttemptsOf(t) + 1
  BY <1>2 DEF L!Rows
<1>4. rows' = [rows EXCEPT ![t] = r] /\ runs' = [runs EXCEPT ![t] = Append(runs[t], s)]
  BY DEF L!Upsert
<1> HIDE DEF r
<1>5. rows' \in [Tasks -> L!Rows \cup {None}] /\ runs' \in [Tasks -> Seq(L!Statuses)]
  BY <1>1, <1>3, <1>4
<1>6. Len(Append(runs[t], s)) = Len(runs[t]) + 1
  BY <1>1
<1>7. ASSUME NEW u \in Tasks PROVE L!AttemptsOf(u)' = Len(runs'[u])
  <2>1. CASE u = t
    <3>1. L!AttemptsOf(u)' = r.attempts
      BY <1>1, <1>3, <1>4, <2>1 DEF L!AttemptsOf
    <3> QED
      BY <1>1, <1>3, <1>4, <1>6, <2>1, <3>1 DEF L!AttemptsCountRuns
  <2>2. CASE u # t
    <3>1. rows'[u] = rows[u] /\ runs'[u] = runs[u]
      BY <1>1, <1>4, <2>2
    <3> QED
      BY <3>1 DEF L!AttemptsCountRuns, L!AttemptsOf
  <2> QED
    BY <2>1, <2>2
<1> QED
  BY <1>1, <1>3, <1>4, <1>5, <1>7 DEF L!AttemptsCountRuns

\* A file of the workspace is never taken away, and what was executed or stored was.
FilesKept == /\ \A t \in Tasks : disk[t] \in Texts => disk'[t] \in Texts
             /\ ran \subseteq ran' /\ received \subseteq received'

\* A check keeps what it relies on while others move.
LEMMA CheckWaits ==
    ASSUME FilesKept, NEW c \in CheckRecord, CheckKept(c)
    PROVE  CheckKept(c)'
BY DEF FilesKept, CheckKept, CheckRecord, Earned

LEMMA PushWaits ==
    ASSUME FilesKept, NEW q, PushKept(q)
    PROVE  PushKept(q)'
BY DEF FilesKept, PushKept

\* What was earned stays earned.
LEMMA EarnedStays ==
    ASSUME FilesKept, NEW t, NEW s, Earned(t, s)
    PROVE  Earned(t, s)'
BY DEF FilesKept, Earned

LEMMA EarnedFrame ==
    ASSUME ProgressInv, FilesKept, UNCHANGED <<local, rows, pushes>>
    PROVE  EarnedInv'
BY EarnedStays DEF ProgressInv, EarnedInv

\* One check moves on, everything else that is counted stays.
LEMMA CheckMoves ==
    ASSUME ProgressInv, FilesKept, NEW i \in L!Check, NEW r \in CheckRecord,
           checks' = [checks EXCEPT ![i] = r], CheckKept(r)', pushes' = pushes
    PROVE  /\ checks' \in [L!Check -> CheckRecord]
           /\ \A j \in L!Check : CheckKept(checks[j])'
           /\ \A p \in L!Push : PushKept(pushes[p])'
<1>1. checks \in [L!Check -> CheckRecord] /\ DOMAIN checks = L!Check
  BY DEF ProgressInv, ChecksTypes
<1>2. \A j \in L!Check : CheckKept(checks[j])'
  <2> SUFFICES ASSUME NEW j \in L!Check PROVE CheckKept(checks[j])'
    OBVIOUS
  <2>1. CASE j = i
    <3>1. checks'[j] = r
      BY <1>1, <2>1
    <3> QED
      BY <3>1 DEF CheckKept
  <2>2. CASE j # i
    <3> DEFINE c == checks[j]
    <3>1. PICK d : d = checks[j]
      OBVIOUS
    <3>2. checks'[j] = d /\ d \in CheckRecord /\ CheckKept(d)
      BY <1>1, <2>2, <3>1 DEF ProgressInv
    <3>3. CheckKept(d)'
      BY <3>2, CheckWaits
    <3> QED
      BY <3>2, <3>3 DEF CheckKept
  <2> QED
    BY <2>1, <2>2
<1>3. ASSUME NEW p \in L!Push PROVE PushKept(pushes[p])'
  <2>1. PICK q : q = pushes[p]
    OBVIOUS
  <2>2. PushKept(q)'
    BY <2>1, PushWaits DEF ProgressInv
  <2> QED
    BY <2>1, <2>2 DEF PushKept
<1> QED
  BY <1>1, <1>2, <1>3

\* The same when no check moves.
LEMMA NoCheckMoves ==
    ASSUME ProgressInv, FilesKept, checks' = checks
    PROVE  \A j \in L!Check : CheckKept(checks[j])'
<1> SUFFICES ASSUME NEW j \in L!Check PROVE CheckKept(checks[j])'
  OBVIOUS
<1>1. PICK d : d = checks[j]
  OBVIOUS
<1>2. d \in CheckRecord /\ CheckKept(d)
  BY <1>1 DEF ProgressInv, ChecksTypes
<1>3. CheckKept(d)'
  BY <1>2, CheckWaits
<1> QED
  BY <1>1, <1>3 DEF CheckKept

LEMMA NoPushMoves ==
    ASSUME ProgressInv, FilesKept, pushes' = pushes
    PROVE  \A p \in L!Push : PushKept(pushes[p])'
<1> SUFFICES ASSUME NEW p \in L!Push PROVE PushKept(pushes[p])'
  OBVIOUS
<1>1. PICK q : q = pushes[p]
  OBVIOUS
<1>2. PushKept(q)'
  BY <1>1, PushWaits DEF ProgressInv
<1> QED
  BY <1>1, <1>2 DEF PushKept

LEMMA NoCopyTyped == L!NoCopy \in [Tasks -> L!Entries \cup {None}]
BY DEF L!NoCopy

\* A check in the editor, of the editor's text or of the file.
LEMMA CheckBegun ==
    ASSUME L!LocalAssumption, ProgressInv, NEW i \in L!Check, NEW t \in Tasks, NEW x \in Texts,
           L!RunCheckOnCode(i, t, x)
    PROVE  ProgressInv'
<1>0. PICK r : r = [stage |-> IF mode = "offline" THEN "detecting" ELSE "server", task |-> t, text |-> x,
                    cmd |-> None, seen |-> None, copy |-> L!NoCopy, before |-> L!AttemptsOf(t)]
  OBVIOUS
<1>1. /\ checks' = [checks EXCEPT ![i] = r] /\ pushes' = pushes
      /\ disk' = IF mode = "offline" THEN [disk EXCEPT ![t] = x] ELSE disk
      /\ UNCHANGED <<mode, working, cached, local, logs, rows, runs, ran, received>>
  BY <1>0 DEF L!RunCheckOnCode, L!toolVars, L!serverVars, L!histVars
<1>2. /\ disk \in [Tasks -> Texts \cup {None}] /\ rows \in [Tasks -> L!Rows \cup {None}]
  BY DEF ProgressInv, ChecksTypes
<1>3. FilesKept /\ disk' \in [Tasks -> Texts \cup {None}]
  BY <1>1, <1>2 DEF FilesKept
<1>4. L!AttemptsOf(t) \in Nat
  BY <1>2 DEF L!AttemptsOf, L!Rows
<1>5. r \in CheckRecord /\ r.task = t /\ r.text = x /\ (r.stage = IF mode = "offline" THEN "detecting" ELSE "server")
  BY <1>0, <1>4, NoCopyTyped DEF CheckRecord
<1>6. mode = "offline" => disk'[t] = x
  BY <1>1, <1>2
<1>7. CheckKept(r)'
  BY <1>5, <1>6 DEF CheckKept
<1>8. checks' \in [L!Check -> CheckRecord] /\ (\A j \in L!Check : CheckKept(checks[j])') /\ \A p \in L!Push : PushKept(pushes[p])'
  BY <1>1, <1>3, <1>5, <1>7, CheckMoves
<1>9. ChecksTypes'
  BY <1>1, <1>3, <1>8 DEF ProgressInv, ChecksTypes
<1>10. EarnedInv' /\ L!AttemptsCountRuns'
  BY <1>1, <1>3, EarnedFrame DEF ProgressInv, L!AttemptsCountRuns, L!AttemptsOf
<1> QED
  BY <1>8, <1>9, <1>10 DEF ProgressInv

\* A check moves on without a result.
LEMMA CheckGoesOn ==
    ASSUME ProgressInv, NEW i \in L!Check, NEW r \in CheckRecord, checks' = [checks EXCEPT ![i] = r], CheckKept(r)',
           UNCHANGED <<disk, local, rows, runs, pushes, received, mode, working>>, ran \subseteq ran',
           cached' \in Commands \cup {None}, logs' \in [Tasks -> Texts \cup {None}]
    PROVE  ProgressInv'
<1>1. FilesKept
  BY DEF FilesKept
<1>2. checks' \in [L!Check -> CheckRecord] /\ (\A j \in L!Check : CheckKept(checks[j])') /\ \A p \in L!Push : PushKept(pushes[p])'
  BY <1>1, CheckMoves
<1>3. ChecksTypes'
  BY <1>2 DEF ProgressInv, ChecksTypes
<1>4. EarnedInv' /\ L!AttemptsCountRuns'
  BY <1>1, EarnedFrame DEF ProgressInv, L!AttemptsCountRuns, L!AttemptsOf
<1> QED
  BY <1>2, <1>3, <1>4 DEF ProgressInv

\* The steps of a check that store nothing in progress.
LEMMA CheckProceeds ==
    ASSUME L!LocalAssumption, ProgressInv, NEW i \in L!Check,
           \/ L!Detected(i) \/ L!NotDetected(i) \/ L!Spawned(i) \/ L!SpawnFails(i)
           \/ L!CliRuns(i) \/ L!CliLoads(i) \/ L!CliLogs(i) \/ L!CliDies(i) \/ L!CheckEnds(i)
    PROVE  ProgressInv'
<1> USE DEF L!At, L!Goes, L!toolVars, L!fileVars, L!serverVars, L!histVars
<1>1. checks[i] \in CheckRecord /\ CheckKept(checks[i])
  BY DEF ProgressInv, ChecksTypes
<1>2. PICK c : c = checks[i]
  OBVIOUS
<1>3. /\ working \subseteq Commands /\ cached \in Commands \cup {None} /\ logs \in [Tasks -> Texts \cup {None}]
      /\ disk \in [Tasks -> Texts \cup {None}]
  BY DEF ProgressInv, ChecksTypes
<1>4. CASE L!Detected(i)
  <2>1. PICK d \in IF cached # None THEN {cached} ELSE working :
          cached' = d /\ checks' = [checks EXCEPT ![i].stage = "spawning", ![i].cmd = d]
    BY <1>4 DEF L!Detected
  <2>2. d \in Commands
    BY <1>3, <2>1
  <2>3. PICK r : r = [c EXCEPT !.stage = "spawning", !.cmd = d]
    OBVIOUS
  <2>4. r \in CheckRecord /\ r.stage = "spawning" /\ r.cmd = d /\ r.task = c.task /\ r.text = c.text
    BY <1>1, <1>2, <2>2, <2>3 DEF CheckRecord
  <2>5. checks' = [checks EXCEPT ![i] = r] /\ UNCHANGED <<disk, local, rows, runs, pushes, received, mode, working, ran, logs>>
    BY <1>2, <1>4, <2>1, <2>3 DEF L!Detected
  <2>6. CheckKept(r)'
    <3>1. c.task \in Tasks /\ c.text \in Texts /\ disk[c.task] \in Texts
      BY <1>1, <1>2, <1>4 DEF L!Detected, CheckKept
    <3> QED
      BY <2>2, <2>4, <2>5, <3>1 DEF CheckKept
  <2> QED
    BY <1>3, <2>1, <2>2, <2>4, <2>5, <2>6, CheckGoesOn
\* The stage moves on, or the check ends.
<1>5. ASSUME NEW s \in {"running", "printed", "ended"}, checks' = [checks EXCEPT ![i].stage = s],
             s = "running" => c.stage = "spawning",
             s = "printed" => c.stage = "logging",
             UNCHANGED <<disk, local, rows, runs, pushes, received, mode, working, ran, cached>>,
             logs' \in [Tasks -> Texts \cup {None}]
      PROVE  ProgressInv'
  <2>1. PICK r : r = [c EXCEPT !.stage = s]
    OBVIOUS
  <2>2. r \in CheckRecord /\ r.stage = s /\ r.task = c.task /\ r.text = c.text /\ r.seen = c.seen
    BY <1>1, <1>2, <2>1 DEF CheckRecord
  <2>3. checks' = [checks EXCEPT ![i] = r]
    BY <1>2, <1>5, <2>1
  <2>4. CheckKept(r)'
    BY <1>1, <1>2, <1>5, <2>2 DEF CheckKept
  <2> QED
    BY <1>3, <1>5, <2>2, <2>3, <2>4, CheckGoesOn
<1>6. CASE L!NotDetected(i) \/ L!SpawnFails(i) \/ L!CliDies(i) \/ L!CheckEnds(i)
  BY <1>3, <1>5, <1>6 DEF L!NotDetected, L!SpawnFails, L!CliDies, L!CheckEnds
<1>7. CASE L!Spawned(i)
  BY <1>2, <1>3, <1>5, <1>7 DEF L!Spawned
<1>8. CASE L!CliLogs(i)
  <2>1. c.task \in Tasks /\ c.seen \in Texts
    BY <1>1, <1>2, <1>8 DEF L!CliLogs, CheckKept
  <2>2. logs' \in [Tasks -> Texts \cup {None}]
    BY <1>2, <1>3, <1>8, <2>1 DEF L!CliLogs
  <2> QED
    BY <1>2, <1>5, <1>8, <2>2 DEF L!CliLogs
\* The command line executes the file that is there by now.
<1>9. CASE L!CliRuns(i)
  <2>1. c.task \in Tasks /\ c.text \in Texts /\ disk[c.task] \in Texts
    BY <1>1, <1>2, <1>9 DEF L!CliRuns, CheckKept
  <2>2. PICK d : d = disk[c.task]
    OBVIOUS
  <2>3. PICK r : r = [c EXCEPT !.stage = "loading", !.seen = d]
    OBVIOUS
  <2>4. r \in CheckRecord /\ r.stage = "loading" /\ r.seen = d /\ r.task = c.task /\ r.text = c.text
    BY <1>1, <1>2, <2>1, <2>2, <2>3 DEF CheckRecord
  <2>5. checks' = [checks EXCEPT ![i] = r] /\ ran' = ran \cup {<<c.task, d>>}
    BY <1>2, <1>9, <2>2, <2>3 DEF L!CliRuns
  <2>6. UNCHANGED <<disk, local, rows, runs, pushes, received, mode, working, cached, logs>>
    BY <1>9 DEF L!CliRuns
  <2>7. CheckKept(r)'
    BY <2>1, <2>2, <2>4, <2>5, <2>6 DEF CheckKept
  <2> QED
    BY <1>3, <2>4, <2>5, <2>6, <2>7, CheckGoesOn
\* What it copies from progress.json was earned.
<1>10. CASE L!CliLoads(i)
  <2>1. c.task \in Tasks /\ c.text \in Texts /\ c.seen \in Texts /\ <<c.task, c.seen>> \in ran
    BY <1>1, <1>2, <1>10 DEF L!CliLoads, CheckKept
  <2>2. PICK m : m = local
    OBVIOUS
  <2>3. /\ m \in [Tasks -> L!Entries \cup {None}]
        /\ \A t \in Tasks : m[t] # None => Earned(m[t].task, m[t].status)
    BY <2>2 DEF ProgressInv, ChecksTypes, EarnedInv
  <2>4. PICK r : r = [c EXCEPT !.stage = "saving", !.copy = m]
    OBVIOUS
  <2>5. r \in CheckRecord /\ r.stage = "saving" /\ r.copy = m /\ r.seen = c.seen /\ r.task = c.task /\ r.text = c.text
    BY <1>1, <1>2, <2>3, <2>4 DEF CheckRecord
  <2>6. checks' = [checks EXCEPT ![i] = r]
    BY <1>2, <1>10, <2>2, <2>4 DEF L!CliLoads
  <2>7. UNCHANGED <<disk, local, rows, runs, pushes, received, mode, working, cached, logs, ran>>
    BY <1>10 DEF L!CliLoads
  <2>8. CheckKept(r)'
    BY <2>1, <2>3, <2>5, <2>7 DEF CheckKept, Earned
  <2> QED
    BY <1>3, <2>5, <2>6, <2>7, <2>8, CheckGoesOn
<1> QED
  BY <1>4, <1>6, <1>7, <1>8, <1>9, <1>10

\* The result of the command line is kept in progress.json.
LEMMA CheckSaves ==
    ASSUME L!LocalAssumption, ProgressInv, NEW i \in L!Check, L!CliSaves(i)
    PROVE  ProgressInv'
<1> USE DEF L!At, L!Goes, L!toolVars, L!fileVars, L!serverVars, L!histVars
<1>1. PICK c : c = checks[i]
  OBVIOUS
<1>2. c \in CheckRecord /\ CheckKept(c) /\ c.stage = "saving"
  BY <1>1 DEF ProgressInv, ChecksTypes, L!CliSaves, L!Saves
<1>3. c.task \in Tasks /\ c.text \in Texts /\ c.seen \in Texts /\ <<c.task, c.seen>> \in ran
  BY <1>2 DEF CheckKept
<1>4. PICK r : r = [c EXCEPT !.stage = "logging", !.copy = L!NoCopy]
  OBVIOUS
<1>5. r \in CheckRecord /\ r.stage = "logging" /\ r.task = c.task /\ r.text = c.text /\ r.seen = c.seen
  BY <1>2, <1>4, NoCopyTyped DEF CheckRecord
<1>6. /\ checks' = [checks EXCEPT ![i] = r]
      /\ UNCHANGED <<disk, logs, rows, runs, pushes, received, mode, working, cached, ran>>
  BY <1>1, <1>4 DEF L!CliSaves, L!Saves
<1>7. CheckKept(r)' /\ FilesKept
  BY <1>3, <1>5, <1>6 DEF CheckKept, FilesKept
<1>8. checks' \in [L!Check -> CheckRecord] /\ (\A j \in L!Check : CheckKept(checks[j])') /\ \A p \in L!Push : PushKept(pushes[p])'
  BY <1>5, <1>6, <1>7, CheckMoves
<1>9. PICK m : m = c.copy
  OBVIOUS
<1>10. /\ m \in [Tasks -> L!Entries \cup {None}]
       /\ \A t \in Tasks : m[t] # None => Earned(m[t].task, m[t].status)
  BY <1>2, <1>9 DEF CheckRecord, CheckKept
<1>11. PICK n : n = L!CopyAttempts(i) + 1
  OBVIOUS
<1>12. n \in Nat \ {0}
  <2>1. m[c.task] # None => m[c.task].attempts \in Nat
    BY <1>3, <1>10 DEF L!Entries
  <2>2. L!CopyAttempts(i) = IF m[c.task] = None THEN 0 ELSE m[c.task].attempts
    BY <1>1, <1>9 DEF L!CopyAttempts
  <2> QED
    BY <1>11, <2>1, <2>2
<1>13. PICK e : e = [task |-> c.task, text |-> c.seen, status |-> L!verdict(c.seen), attempts |-> n]
  OBVIOUS
<1>14. e \in L!Entries /\ e.task = c.task /\ e.status = L!verdict(c.seen)
  BY <1>3, <1>12, <1>13 DEF L!Entries, L!verdict, L!Statuses
<1>15. local' = [m EXCEPT ![c.task] = e]
  BY <1>1, <1>9, <1>11, <1>13 DEF L!CliSaves, L!Saves
<1>16. local' \in [Tasks -> L!Entries \cup {None}]
  BY <1>3, <1>14, <1>15, <1>10
<1>17. ChecksTypes'
  BY <1>6, <1>8, <1>16 DEF ProgressInv, ChecksTypes
<1>18. Earned(c.task, L!verdict(c.seen))
  BY <1>3 DEF Earned, L!verdict
<1>19. EarnedInv'
  <2>1. ASSUME NEW t \in Tasks, local'[t] # None PROVE Earned(local[t].task, local[t].status)'
    <3>1. PICK a, b : a = local'[t].task /\ b = local'[t].status
      OBVIOUS
    <3>2. Earned(a, b)
      <4>1. CASE t = c.task
        BY <1>3, <1>14, <1>15, <1>18, <1>10, <3>1, <4>1
      <4>2. CASE t # c.task
        <5>1. local'[t] = m[t]
          BY <1>15, <1>10, <4>2
        <5> QED
          BY <1>10, <2>1, <3>1, <5>1
      <4> QED
        BY <4>1, <4>2
    <3> QED
      BY <1>6, <3>1, <3>2 DEF Earned
  <2>2. /\ \A t \in Tasks : (rows[t] # None => Earned(t, rows[t].status))'
        /\ \A p \in L!Push : \A x \in pushes'[p].all : Earned(x.task, x.status)'
    BY <1>6 DEF ProgressInv, EarnedInv, Earned
  <2> QED
    BY <2>1, <2>2 DEF EarnedInv, Earned
<1>20. L!AttemptsCountRuns'
  BY <1>6 DEF ProgressInv, L!AttemptsCountRuns, L!AttemptsOf
<1> QED
  BY <1>8, <1>17, <1>19, <1>20 DEF ProgressInv

\* The server's own check: its row and its run, from the row as it is by then.
LEMMA CheckStored ==
    ASSUME L!LocalAssumption, ProgressInv, NEW i \in L!Check, L!ServerStores(i)
    PROVE  ProgressInv'
<1> USE DEF L!At, L!Goes, L!toolVars, L!fileVars
<1>1. PICK c : c = checks[i]
  OBVIOUS
<1>2. c \in CheckRecord /\ CheckKept(c) /\ c.stage = "server"
  BY <1>1 DEF ProgressInv, ChecksTypes, L!ServerStores
<1>3. c.task \in Tasks /\ c.text \in Texts
  BY <1>2 DEF CheckKept
<1>4. PICK r : r = [c EXCEPT !.stage = "answered"]
  OBVIOUS
<1>5. r \in CheckRecord /\ r.stage = "answered"
  BY <1>2, <1>4 DEF CheckRecord
<1>6. PICK s : s = L!verdict(c.text)
  OBVIOUS
<1>7. /\ checks' = [checks EXCEPT ![i] = r] /\ ran' = ran \cup {<<c.task, c.text>>}
      /\ UNCHANGED <<disk, local, logs, pushes, received, mode, working, cached>>
      /\ L!Upsert(c.task, s, L!AttemptsOf(c.task))
  BY <1>1, <1>4, <1>6 DEF L!ServerStores
<1>8. s \in L!Statuses
  BY <1>6 DEF L!verdict, L!Statuses
<1>9. CheckKept(r)' /\ FilesKept
  BY <1>5, <1>7 DEF CheckKept, FilesKept
<1>10. checks' \in [L!Check -> CheckRecord] /\ (\A j \in L!Check : CheckKept(checks[j])') /\ \A p \in L!Push : PushKept(pushes[p])'
  BY <1>5, <1>7, <1>9, CheckMoves
<1>11. /\ rows' \in [Tasks -> L!Rows \cup {None}] /\ runs' \in [Tasks -> Seq(L!Statuses)]
       /\ L!AttemptsCountRuns'
       /\ \A u \in Tasks : rows'[u] = rows[u] \/ (u = c.task /\ rows'[u].status = s)
  BY <1>3, <1>7, <1>8, UpsertCounts DEF ProgressInv
<1>12. ChecksTypes'
  BY <1>7, <1>10, <1>11 DEF ProgressInv, ChecksTypes
<1>13. Earned(c.task, s)'
  BY <1>3, <1>6, <1>7 DEF Earned, L!verdict
<1>14. EarnedInv'
  <2>1. ASSUME NEW t \in Tasks, rows'[t] # None PROVE Earned(t, rows[t].status)'
    <3>1. PICK b : b = rows'[t].status
      OBVIOUS
    <3>2. Earned(t, b)'
      <4>1. CASE rows'[t] = rows[t]
        <5>1. Earned(t, b)
          BY <2>1, <3>1, <4>1 DEF ProgressInv, EarnedInv
        <5> QED
          BY <1>9, <5>1, EarnedStays
      <4>2. CASE t = c.task /\ rows'[t].status = s
        BY <1>13, <3>1, <4>2
      <4> QED
        BY <1>11, <4>1, <4>2
    <3> QED
      BY <3>1, <3>2 DEF Earned
  <2>2. /\ \A t \in Tasks : (local[t] # None => Earned(local[t].task, local[t].status))'
        /\ \A p \in L!Push : \A x \in pushes'[p].all : Earned(x.task, x.status)'
    BY <1>7, <1>9, EarnedStays DEF ProgressInv, EarnedInv, Earned
  <2> QED
    BY <2>1, <2>2 DEF EarnedInv, Earned
<1> QED
  BY <1>10, <1>11, <1>12, <1>14 DEF ProgressInv

\* One push moves on, and nothing else does.
LEMMA PushMoves ==
    ASSUME ProgressInv, NEW p \in L!Push, NEW q \in PushRecord, pushes' = [pushes EXCEPT ![p] = q],
           UNCHANGED <<disk, mode, working, cached, local, logs, checks, rows, runs, ran, received>>,
           PushKept(q), \A x \in q.all : Earned(x.task, x.status)
    PROVE  ProgressInv'
<1>1. FilesKept
  BY DEF FilesKept
<1>2. pushes \in [L!Push -> PushRecord]
  BY DEF ProgressInv, ChecksTypes
<1>3. ChecksTypes'
  BY <1>2 DEF ProgressInv, ChecksTypes
<1>4. \A j \in L!Check : CheckKept(checks[j])'
  BY <1>1, NoCheckMoves
<1>5. ASSUME NEW o \in L!Push PROVE PushKept(pushes[o])' /\ \A x \in pushes'[o].all : Earned(x.task, x.status)'
  <2>1. PICK d : d = pushes'[o]
    OBVIOUS
  <2>2. PushKept(d) /\ \A x \in d.all : Earned(x.task, x.status)
    BY <1>2, <2>1 DEF ProgressInv, EarnedInv
  <2>3. PushKept(d)' /\ \A x \in d.all : Earned(x.task, x.status)'
    BY <1>1, <2>2, PushWaits, EarnedStays
  <2> QED
    BY <2>1, <2>3 DEF PushKept
<1>6. EarnedInv' /\ L!AttemptsCountRuns'
  BY <1>5 DEF ProgressInv, EarnedInv, Earned, L!AttemptsCountRuns, L!AttemptsOf
<1> QED
  BY <1>3, <1>4, <1>5, <1>6 DEF ProgressInv

\* A push begins with every entry there is.
LEMMA PushBegins ==
    ASSUME L!LocalAssumption, ProgressInv, NEW p \in L!Push, L!CmdPush(p)
    PROVE  ProgressInv'
<1>1. local \in [Tasks -> L!Entries \cup {None}] /\ IsFiniteSet(Tasks)
  BY SameFinite DEF ProgressInv, ChecksTypes, L!LocalAssumption
<1>2. PICK all : all = {local[t] : t \in Tasks} \ {None}
  OBVIOUS
<1>3. all \subseteq L!Entries /\ None \notin all
  BY <1>1, <1>2
<1>4. IsFiniteSet(all)
  <2> DEFINE S1 == {local[t] : t \in Tasks}
  <2>1. local \in Surjection(Tasks, S1)
    BY <1>1 DEF Surjection
  <2>2. IsFiniteSet(S1)
    BY <1>1, <2>1, FS_Surjection
  <2> QED
    BY <1>2, <2>2, FS_Subset
<1>5. PICK q : q = [stage |-> "pushing", all |-> all, left |-> all, now |-> None, stored |-> FALSE,
                    pushed |-> 0, errors |-> 0]
  OBVIOUS
<1>6. q \in PushRecord /\ q.stage = "pushing" /\ q.all = all /\ q.left = all /\ q.now = None /\ q.pushed = 0
  BY <1>3, <1>5 DEF PushRecord
<1>7. PushKept(q)
  <2>1. Cardinality(all) \in Nat
    BY <1>4, FS_CardinalityType
  <2> QED
    BY <1>3, <1>4, <1>6, <2>1 DEF PushKept
<1>8. \A x \in q.all : Earned(x.task, x.status)
  BY <1>2, <1>6 DEF ProgressInv, EarnedInv
<1>9. /\ pushes' = [pushes EXCEPT ![p] = q]
      /\ UNCHANGED <<disk, mode, working, cached, local, logs, checks, rows, runs, ran, received>>
  BY <1>2, <1>5 DEF L!CmdPush, L!toolVars, L!fileVars, L!serverVars, L!histVars
<1> QED
  BY <1>6, <1>7, <1>8, <1>9, PushMoves

\* An entry is taken out, answered, or fails; a push ends.
LEMMA PushGoesOn ==
    ASSUME ProgressInv, NEW p \in L!Push,
           L!PushNext(p) \/ L!PushAnswered(p) \/ L!PushFails(p) \/ L!PushEnds(p)
    PROVE  ProgressInv'
<1>1. PICK q : q = pushes[p]
  OBVIOUS
<1>2. q \in PushRecord /\ PushKept(q) /\ \A x \in q.all : Earned(x.task, x.status)
  BY <1>1 DEF ProgressInv, ChecksTypes, EarnedInv
<1>3. IsFiniteSet(q.left) /\ Cardinality(q.left) \in Nat /\ Cardinality(q.all) \in Nat
  BY <1>2, FS_Subset, FS_CardinalityType DEF PushKept
<1>4. UNCHANGED <<disk, mode, working, cached, local, logs, checks, rows, runs, ran, received>>
  BY DEF L!PushNext, L!PushAnswered, L!PushFails, L!PushEnds, L!toolVars, L!fileVars, L!serverVars, L!histVars
<1>5. CASE L!PushNext(p)
  <2>1. PICK e \in q.left : pushes' = [pushes EXCEPT ![p].now = e, ![p].left = q.left \ {e}, ![p].stored = FALSE]
    BY <1>1, <1>5 DEF L!PushNext
  <2>2. PICK r : r = [q EXCEPT !.now = e, !.left = q.left \ {e}, !.stored = FALSE]
    OBVIOUS
  <2>3. e \in q.all /\ e \in L!Entries /\ q.now = None /\ e # None
    BY <1>1, <1>2, <1>5, <2>1 DEF L!PushNext, PushKept, PushRecord
  <2>4. /\ r \in PushRecord /\ r.stage = q.stage /\ r.all = q.all /\ r.left = q.left \ {e} /\ r.now = e
        /\ r.stored = FALSE /\ r.pushed = q.pushed /\ r.errors = q.errors
    BY <1>2, <2>2, <2>3 DEF PushRecord
  <2>5. Cardinality(q.left \ {e}) = Cardinality(q.left) - 1
    BY <1>3, <2>1, FS_RemoveElement
  <2>6. q.pushed \in Nat
    BY <1>2 DEF PushRecord
  <2>7. PushKept(r)
    <3>1. q.stage # "ended"
      BY <1>2, <2>1 DEF PushKept
    <3>2. /\ IsFiniteSet(r.all) /\ r.left \subseteq r.all /\ None \notin r.all
          /\ r.now \in r.all \cup {None} /\ r.now \notin r.left
          /\ (r.now # None /\ r.stored => r.now \in received)
          /\ (r.stage = "ended" => r.left = {} /\ r.now = None)
      BY <1>2, <2>3, <2>4, <3>1 DEF PushKept
    <3>3. r.errors = 0 => \A x \in r.all : x \in r.left \/ x = r.now \/ x \in received
      BY <1>2, <2>3, <2>4 DEF PushKept
    <3>4. r.errors = 0 => r.pushed + Cardinality(r.left) + 1 = Cardinality(r.all)
      BY <1>2, <1>3, <2>3, <2>4, <2>5, <2>6 DEF PushKept
    <3> QED
      BY <2>3, <2>4, <3>2, <3>3, <3>4 DEF PushKept
  <2>8. pushes' = [pushes EXCEPT ![p] = r]
    BY <1>1, <2>1, <2>2
  <2> QED
    BY <1>2, <1>4, <2>4, <2>7, <2>8, PushMoves
<1>6. CASE L!PushAnswered(p)
  <2>0. PICK n : n = q.pushed + 1
    OBVIOUS
  <2>1. PICK r : r = [q EXCEPT !.now = None, !.pushed = n]
    OBVIOUS
  <2>2. q.now # None /\ q.stored /\ q.pushed \in Nat /\ n \in Nat
    BY <1>1, <1>2, <1>6, <2>0 DEF L!PushAnswered, PushRecord
  <2>3. /\ r \in PushRecord /\ r.stage = q.stage /\ r.all = q.all /\ r.left = q.left /\ r.now = None
        /\ r.stored = q.stored /\ r.pushed = n /\ r.errors = q.errors
    BY <1>2, <2>1, <2>2 DEF PushRecord
  <2>4. PushKept(r)
    <3>1. /\ IsFiniteSet(r.all) /\ r.left \subseteq r.all /\ None \notin r.all
          /\ r.now \in r.all \cup {None} /\ r.now \notin r.left
          /\ (r.stage = "ended" => r.left = {} /\ r.now = None)
      BY <1>2, <2>3 DEF PushKept
    <3>2. r.errors = 0 => \A x \in r.all : x \in r.left \/ x = r.now \/ x \in received
      BY <1>2, <2>2, <2>3 DEF PushKept
    <3>3. r.errors = 0 => r.pushed + Cardinality(r.left) + 0 = Cardinality(r.all)
      BY <1>2, <1>3, <2>0, <2>2, <2>3 DEF PushKept
    <3> QED
      BY <2>3, <3>1, <3>2, <3>3 DEF PushKept
  <2>5. pushes' = [pushes EXCEPT ![p] = r]
    BY <1>1, <1>6, <2>0, <2>1 DEF L!PushAnswered
  <2> QED
    BY <1>2, <1>4, <2>3, <2>4, <2>5, PushMoves
<1>7. CASE L!PushFails(p)
  <2>0. PICK n : n = q.errors + 1
    OBVIOUS
  <2>1. PICK r : r = [q EXCEPT !.now = None, !.errors = n]
    OBVIOUS
  <2>2. q.now # None /\ q.errors \in Nat /\ n \in Nat /\ n # 0
    BY <1>1, <1>2, <1>7, <2>0 DEF L!PushFails, PushRecord
  <2>3. /\ r \in PushRecord /\ r.stage = q.stage /\ r.all = q.all /\ r.left = q.left /\ r.now = None
        /\ r.errors = n /\ r.errors # 0
    BY <1>2, <2>1, <2>2 DEF PushRecord
  <2>4. PushKept(r)
    BY <1>2, <2>2, <2>3 DEF PushKept
  <2>5. pushes' = [pushes EXCEPT ![p] = r]
    BY <1>1, <1>7, <2>0, <2>1 DEF L!PushFails
  <2> QED
    BY <1>2, <1>4, <2>3, <2>4, <2>5, PushMoves
<1>8. CASE L!PushEnds(p)
  <2>1. PICK r : r = [q EXCEPT !.stage = "ended"]
    OBVIOUS
  <2>2. q.now = None /\ q.left = {}
    BY <1>1, <1>8 DEF L!PushEnds
  <2>3. /\ r \in PushRecord /\ r.all = q.all /\ r.left = q.left /\ r.now = q.now /\ r.stored = q.stored
        /\ r.pushed = q.pushed /\ r.errors = q.errors
    BY <1>2, <2>1 DEF PushRecord
  <2>4. PushKept(r)
    BY <1>2, <2>2, <2>3 DEF PushKept
  <2>5. pushes' = [pushes EXCEPT ![p] = r]
    BY <1>1, <1>8, <2>1 DEF L!PushEnds
  <2> QED
    BY <1>2, <1>4, <2>3, <2>4, <2>5, PushMoves
<1> QED
  BY <1>5, <1>6, <1>7, <1>8

\* The server stores what a push has sent: its entry's row, and a run.
LEMMA PushIsStored ==
    ASSUME L!LocalAssumption, ProgressInv, NEW p \in L!Push, L!PushStored(p)
    PROVE  ProgressInv'
<1>1. PICK q : q = pushes[p]
  OBVIOUS
<1>2. q \in PushRecord /\ PushKept(q) /\ \A x \in q.all : Earned(x.task, x.status)
  BY <1>1 DEF ProgressInv, ChecksTypes, EarnedInv
<1>3. PICK e : e = q.now
  OBVIOUS
<1>4. e # None /\ e \in q.all /\ e \in L!Entries /\ e.task \in Tasks /\ e.status \in L!Statuses
  BY <1>1, <1>2, <1>3 DEF L!PushStored, PushKept, PushRecord, L!Entries
<1>5. PICK r : r = [q EXCEPT !.stored = TRUE]
  OBVIOUS
<1>6. /\ r \in PushRecord /\ r.stage = q.stage /\ r.all = q.all /\ r.left = q.left /\ r.now = q.now
      /\ r.pushed = q.pushed /\ r.errors = q.errors
  BY <1>2, <1>5 DEF PushRecord
<1>7. /\ pushes' = [pushes EXCEPT ![p] = r] /\ received' = received \cup {e}
      /\ UNCHANGED <<disk, mode, working, cached, local, logs, checks, ran>>
      /\ L!Upsert(e.task, e.status, L!AttemptsOf(e.task))
  BY <1>1, <1>3, <1>5 DEF L!PushStored, L!toolVars, L!fileVars
<1>8. FilesKept
  BY <1>7 DEF FilesKept
<1>9. /\ rows' \in [Tasks -> L!Rows \cup {None}] /\ runs' \in [Tasks -> Seq(L!Statuses)]
      /\ L!AttemptsCountRuns'
      /\ \A u \in Tasks : rows'[u] = rows[u] \/ (u = e.task /\ rows'[u].status = e.status)
  BY <1>4, <1>7, UpsertCounts DEF ProgressInv
<1>10. ChecksTypes'
  BY <1>6, <1>7, <1>9 DEF ProgressInv, ChecksTypes
<1>11. \A j \in L!Check : CheckKept(checks[j])'
  BY <1>7, <1>8, NoCheckMoves
<1>12. PushKept(r)'
  BY <1>2, <1>3, <1>4, <1>6, <1>7 DEF PushKept
<1>13. ASSUME NEW o \in L!Push PROVE PushKept(pushes[o])' /\ \A x \in pushes'[o].all : Earned(x.task, x.status)'
  <2>1. PICK d : d = pushes'[o]
    OBVIOUS
  <2>2. PushKept(d)' /\ \A x \in d.all : Earned(x.task, x.status)
    <3>1. CASE o = p
      BY <1>2, <1>6, <1>7, <1>12, <2>1, <3>1 DEF ProgressInv, ChecksTypes
    <3>2. CASE o # p
      <4>1. d = pushes[o]
        BY <1>7, <2>1, <3>2 DEF ProgressInv, ChecksTypes
      <4>2. PushKept(d) /\ \A x \in d.all : Earned(x.task, x.status)
        BY <4>1 DEF ProgressInv, EarnedInv
      <4> QED
        BY <1>8, <4>2, PushWaits
    <3> QED
      BY <3>1, <3>2
  <2>3. \A x \in d.all : Earned(x.task, x.status)'
    BY <1>8, <2>2, EarnedStays
  <2> QED
    BY <2>1, <2>2, <2>3 DEF PushKept
<1>14. ASSUME NEW t \in Tasks, rows'[t] # None PROVE Earned(t, rows[t].status)'
  <2>1. PICK b : b = rows'[t].status
    OBVIOUS
  <2>2. Earned(t, b)
    <3>1. CASE rows'[t] = rows[t]
      BY <1>14, <2>1, <3>1 DEF ProgressInv, EarnedInv
    <3>2. CASE t = e.task /\ rows'[t].status = e.status
      BY <1>2, <1>4, <2>1, <3>2
    <3> QED
      BY <1>9, <3>1, <3>2
  <2> QED
    BY <1>8, <2>1, <2>2, EarnedStays DEF Earned
<1>15. \A t \in Tasks : (local[t] # None => Earned(local[t].task, local[t].status))'
  BY <1>7 DEF ProgressInv, EarnedInv, Earned
<1>16. EarnedInv'
  BY <1>13, <1>14, <1>15 DEF EarnedInv, Earned
<1> QED
  BY <1>9, <1>10, <1>11, <1>13, <1>16 DEF ProgressInv

\* What the student and the tools do besides.
LEMMA ElsewhereKept ==
    ASSUME L!LocalAssumption, ProgressInv, L!Save \/ L!SwitchMode \/ L!SetupPython \/ L!ToolRemoved
    PROVE  ProgressInv'
<1>1. /\ UNCHANGED <<cached, local, logs, checks, pushes, rows, runs, ran, received>>
      /\ disk' = disk \/ \E t \in Tasks, x \in Texts : disk' = [disk EXCEPT ![t] = x]
      /\ mode' \in {"offline", "server"} /\ working' \subseteq Commands
  BY DEF ProgressInv, ChecksTypes, L!Save, L!SwitchMode, L!SetupPython, L!ToolRemoved, L!toolVars, L!fileVars,
         L!serverVars, L!histVars
<1>2. FilesKept /\ disk' \in [Tasks -> Texts \cup {None}]
  BY <1>1 DEF ProgressInv, ChecksTypes, FilesKept
<1>3. ChecksTypes'
  BY <1>1, <1>2 DEF ProgressInv, ChecksTypes
<1>4. (\A j \in L!Check : CheckKept(checks[j])') /\ \A p \in L!Push : PushKept(pushes[p])'
  BY <1>1, <1>2, NoCheckMoves, NoPushMoves
<1>5. EarnedInv' /\ L!AttemptsCountRuns'
  BY <1>1, <1>2, EarnedFrame DEF ProgressInv, L!AttemptsCountRuns, L!AttemptsOf
<1> QED
  BY <1>3, <1>4, <1>5 DEF ProgressInv

LEMMA ProgressImplies ==
    ASSUME L!LocalAssumption, ProgressInv
    PROVE  ProgressIsEarned
<1>1. L!SolvedIsEarned /\ L!AttemptsCountRuns
  BY DEF ProgressInv, EarnedInv, Earned, L!SolvedIsEarned
<1>2. L!PushedIsStored
  <2> SUFFICES ASSUME NEW p \in L!Push, pushes[p].stage = "ended", pushes[p].errors = 0
               PROVE  /\ pushes[p].all \subseteq received
                      /\ pushes[p].pushed = Cardinality(pushes[p].all)
    BY SameSize DEF L!PushedIsStored
  <2>1. PICK q : q = pushes[p]
    OBVIOUS
  <2>2. q \in PushRecord /\ PushKept(q)
    BY <2>1 DEF ProgressInv, ChecksTypes
  <2>3. q.left = {} /\ q.now = None /\ Cardinality(q.left) = 0 /\ q.pushed \in Nat /\ None \notin q.all
    BY <2>1, <2>2, FS_EmptySet DEF PushKept, PushRecord
  <2> QED
    BY <2>1, <2>2, <2>3 DEF PushKept
<1>3. L!TypeOK
  <2>1. ASSUME NEW i \in L!Check
        PROVE  /\ checks[i].task \in Tasks \cup {None} /\ checks[i].seen \in Texts \cup {None}
               /\ L!At(i, "spawning") => checks[i].cmd \in Commands
    BY DEF ProgressInv, ChecksTypes, CheckRecord, CheckKept, L!At
  <2>2. ASSUME NEW p \in L!Push
        PROVE  /\ pushes[p].left \subseteq pushes[p].all /\ pushes[p].all \subseteq L!Entries
               /\ pushes[p].now \in pushes[p].all \cup {None}
    BY DEF ProgressInv, ChecksTypes, PushRecord, PushKept
  <2> QED
    BY <2>1, <2>2 DEF ProgressInv, ChecksTypes, L!TypeOK
<1> QED
  BY <1>1, <1>2, <1>3 DEF ProgressIsEarned

\* Whatever checks and pushes overlap and whatever fails or dies: a task is solved
\* on the server only if a right solution of it was executed, its attempts count
\* its runs, and «Pushed n progress entries» is said only of n entries that the
\* server has stored (extension.ts cmdPush, check.py, progress.py).
THEOREM ProgressEarned ==
    ASSUME L!LocalAssumption
    PROVE  L!Spec => []ProgressIsEarned
<1>1. L!Init => ProgressInv
  <2> SUFFICES ASSUME L!Init PROVE ProgressInv
    OBVIOUS
  <2>1. L!Unused \in CheckRecord /\ CheckKept(L!Unused)
    BY NoCopyTyped DEF L!Unused, CheckRecord, CheckKept
  <2>2. L!NoPush \in PushRecord /\ PushKept(L!NoPush)
    <3>1. IsFiniteSet({}) /\ Cardinality({}) = 0
      BY FS_EmptySet
    <3>2. PICK q : q = L!NoPush
      OBVIOUS
    <3>3. /\ q.stage = "unused" /\ q.all = {} /\ q.left = {} /\ q.now = None /\ q.stored = FALSE
          /\ q.pushed = 0 /\ q.errors = 0 /\ q \in PushRecord
      BY <3>2 DEF L!NoPush, PushRecord
    <3>4. PushKept(q)
      BY <3>1, <3>3 DEF PushKept
    <3> QED
      BY <3>2, <3>3, <3>4
  <2>3. ChecksTypes
    BY <2>1, <2>2 DEF L!Init, ChecksTypes
  <2>4. EarnedInv /\ L!AttemptsCountRuns
    BY DEF L!Init, EarnedInv, L!AttemptsCountRuns, L!AttemptsOf, L!NoPush
  <2>5. (\A i \in L!Check : CheckKept(checks[i])) /\ \A p \in L!Push : PushKept(pushes[p])
    BY <2>1, <2>2 DEF L!Init
  <2> QED
    BY <2>3, <2>4, <2>5 DEF ProgressInv
<1>2. ProgressInv /\ [L!Next]_L!vars => ProgressInv'
  <2> SUFFICES ASSUME ProgressInv, [L!Next]_L!vars PROVE ProgressInv'
    OBVIOUS
  <2>1. CASE UNCHANGED L!vars
    <3>1. UNCHANGED <<disk, mode, working, cached, local, logs, checks, pushes, rows, runs, ran, received>>
      BY <2>1 DEF L!vars
    <3>2. FilesKept
      BY <3>1 DEF FilesKept
    <3>3. (\A j \in L!Check : CheckKept(checks[j])') /\ \A p \in L!Push : PushKept(pushes[p])'
      BY <3>1, <3>2, NoCheckMoves, NoPushMoves
    <3>4. EarnedInv' /\ L!AttemptsCountRuns' /\ ChecksTypes'
      BY <3>1, <3>2, EarnedFrame DEF ProgressInv, L!AttemptsCountRuns, L!AttemptsOf, ChecksTypes
    <3> QED
      BY <3>3, <3>4 DEF ProgressInv
  <2>2. ASSUME NEW i \in L!Check, L!CmdCheck(i) \/ L!CmdCheckTask(i) PROVE ProgressInv'
    <3>1. PICK t \in Tasks, x \in Texts : L!RunCheckOnCode(i, t, x)
      <4>1. CASE L!CmdCheck(i)
        BY <4>1 DEF L!CmdCheck
      <4>2. CASE L!CmdCheckTask(i)
        <5>1. PICK t \in Tasks : disk[t] # None /\ L!RunCheckOnCode(i, t, disk[t])
          BY <4>2 DEF L!CmdCheckTask
        <5>2. disk[t] \in Texts
          BY <5>1 DEF ProgressInv, ChecksTypes
        <5> QED
          BY <5>1, <5>2
      <4> QED
        BY <2>2, <4>1, <4>2
    <3> QED
      BY <3>1, CheckBegun
  <2>3. ASSUME NEW i \in L!Check, L!Proceeds(i) \/ L!CliDies(i) PROVE ProgressInv'
    BY <2>3, CheckProceeds, CheckSaves, CheckStored DEF L!Proceeds
  <2>4. ASSUME NEW p \in L!Push, L!CmdPush(p) \/ L!PushProceeds(p) PROVE ProgressInv'
    BY <2>4, PushBegins, PushGoesOn, PushIsStored DEF L!PushProceeds
  <2>5. CASE L!Save \/ L!SwitchMode \/ L!SetupPython \/ L!ToolRemoved
    BY <2>5, ElsewhereKept
  <2> QED
    BY <2>1, <2>2, <2>3, <2>4, <2>5 DEF L!Next
<1>3. ProgressInv => ProgressIsEarned
  BY ProgressImplies
<1> QED
  BY <1>1, <1>2, <1>3, PTL DEF L!Spec

-----------------------------------------------------------------------------
(* The sign-in with Forgejo: the sign-in of an attempt stays its own, for any *)
(* number of attempts.                                                       *)

\* The only state an attempt waits for is the one its own flow was given.
OwnState == \A a \in Attempt : expected[a] \in {None, a}

IInv == TypeOK /\ OwnState /\ OwnSignIn /\ ListenersRun

\* Every way an attempt's own step ends it or keeps it going is well typed.
LEMMA WorksKeepsIInv ==
    ASSUME IInv, NEW a \in Attempt, Works(a) PROVE IInv'
<1> USE LoginAssumption
<1>1. CASE Providers(a)
  BY <1>1 DEF IInv, TypeOK, OwnState, OwnSignIn, ListenersRun, Providers, Finish, Goto,
              Pcs, Outcomes, Running, serverVars
<1>2. CASE Started(a)
  BY <1>2 DEF IInv, TypeOK, OwnState, OwnSignIn, ListenersRun, Started, Finish, Continue,
              Goto, Pcs, Outcomes, Running, serverVars
<1>3. CASE StartFailed(a)
  BY <1>3 DEF IInv, TypeOK, OwnState, OwnSignIn, ListenersRun, StartFailed, Finish, Goto,
              Pcs, Outcomes, Running, serverVars
<1>4. CASE Paused(a)
  BY <1>4 DEF IInv, TypeOK, OwnState, OwnSignIn, ListenersRun, Paused, Poll, Finish,
              Continue, Goto, Pcs, Outcomes, Running, serverVars
<1>5. CASE Exchanged(a)
  BY <1>5 DEF IInv, TypeOK, OwnState, OwnSignIn, ListenersRun, Exchanged, Finish, Goto,
              Pcs, Outcomes, Running
<1>6. CASE ExchangePending(a)
  BY <1>6 DEF IInv, TypeOK, OwnState, OwnSignIn, ListenersRun, ExchangePending, Poll,
              Finish, Continue, Goto, Pcs, Outcomes, Running, serverVars
<1>7. CASE ExchangeFailed(a)
  BY <1>7 DEF IInv, TypeOK, OwnState, OwnSignIn, ListenersRun, ExchangeFailed, Finish,
              Goto, Pcs, Outcomes, Running
<1> QED BY <1>1, <1>2, <1>3, <1>4, <1>5, <1>6, <1>7 DEF Works, ExchangeAnswered

\* So does what the student, the clock and the browser do to one attempt.
LEMMA WorldKeepsIInv ==
    ASSUME IInv, NEW a \in Attempt,
           \/ Begin(a) \/ Cancel(a) \/ DeadlinePasses(a) \/ SignInFails(a)
           \/ \E b \in BOOLEAN : Opened(a, b) \/ Answer(a, b)
           \/ \E s \in Student : SignIn(a, s)
    PROVE IInv'
<1> USE LoginAssumption
<1>1. CASE Begin(a)
  BY <1>1 DEF IInv, TypeOK, OwnState, OwnSignIn, ListenersRun, Begin, Goto, Pcs, Running,
              serverVars
<1>2. CASE Cancel(a)
  BY <1>2 DEF IInv, TypeOK, OwnState, OwnSignIn, ListenersRun, Cancel, serverVars
<1>3. CASE DeadlinePasses(a)
  BY <1>3 DEF IInv, TypeOK, OwnState, OwnSignIn, ListenersRun, DeadlinePasses, serverVars
<1>4. CASE SignInFails(a)
  BY <1>4 DEF IInv, TypeOK, OwnState, OwnSignIn, ListenersRun, SignInFails, Callbacks,
              editorVars
<1>5. ASSUME NEW b \in BOOLEAN, Opened(a, b) PROVE IInv'
  BY <1>5 DEF IInv, TypeOK, OwnState, OwnSignIn, ListenersRun, Opened, Poll, Finish,
              Continue, Goto, Pcs, Outcomes, Running, serverVars
<1>6. ASSUME NEW b \in BOOLEAN, Answer(a, b) PROVE IInv'
  BY <1>6 DEF IInv, TypeOK, OwnState, OwnSignIn, ListenersRun, Answer, serverVars
<1>7. ASSUME NEW s \in Student, SignIn(a, s) PROVE IInv'
  BY <1>7 DEF IInv, TypeOK, OwnState, OwnSignIn, ListenersRun, SignIn, Callbacks,
              editorVars
<1> QED BY <1>1, <1>2, <1>3, <1>4, <1>5, <1>6, <1>7

\* A callback is only taken by the attempt whose state it carries.
LEMMA HandleUriKeepsIInv ==
    ASSUME IInv, NEW u \in sent, HandleUri(u) PROVE IInv'
<1> USE LoginAssumption
<1>1. u \in Callbacks
  BY DEF IInv, TypeOK
<1>2. TypeOK'
  BY <1>1 DEF IInv, TypeOK, HandleUri, Callbacks, serverVars
<1>3. \A a \in Attempt : ticket'[a] \in {None, a}
  BY DEF IInv, OwnState, OwnSignIn, HandleUri, Takes
<1> QED BY <1>2, <1>3 DEF IInv, OwnState, OwnSignIn, ListenersRun, HandleUri, serverVars

LEMMA StutterKeepsIInv == IInv /\ UNCHANGED vars => IInv'
  BY DEF IInv, TypeOK, OwnState, OwnSignIn, ListenersRun, vars

THEOREM IInvHolds == Spec => []IInv
<1>1. Init => IInv
  BY LoginAssumption DEF Init, IInv, TypeOK, OwnState, OwnSignIn, ListenersRun, Pcs, Outcomes
<1>2. IInv /\ [Next]_vars => IInv'
  BY WorksKeepsIInv, WorldKeepsIInv, HandleUriKeepsIInv, StutterKeepsIInv DEF Next
<1> QED BY <1>1, <1>2, PTL DEF Spec

\* One step exchanges and returns nothing for an attempt that was cancelled, and
\* does not change what an attempt's first callback has decided.
LEMMA DecidedStep ==
    ASSUME TypeOK, [Next]_vars
    PROVE  DecidedOnce
<1> SUFFICES ASSUME NEW a \in Attempt
             PROVE  /\ cancelled[a] => /\ pc'[a] = "exchanging" => pc[a] = "exchanging"
                                       /\ token'[a] = token[a]
                    /\ ticket[a] # None => failed'[a] = failed[a]
                    /\ failed[a] => ticket'[a] = ticket[a]
  BY DEF DecidedOnce
<1> DEFINE Out == cancelled[a] => /\ pc'[a] = "exchanging" => pc[a] = "exchanging"
                                  /\ token'[a] = token[a]
           Same == UNCHANGED <<ticket, failed>>
<1>1. ASSUME NEW x \in Attempt, Works(x) PROVE Out /\ Same
  <2>1. CASE Providers(x)
    BY <2>1 DEF TypeOK, Providers, Finish, Goto, Outcomes
  <2>2. CASE Started(x) \/ StartFailed(x)
    BY <2>2 DEF TypeOK, Started, StartFailed, Finish, Continue, Goto
  <2>3. CASE Paused(x)
    BY <2>3 DEF TypeOK, Paused, Poll, Finish, Continue, Goto
  <2>4. CASE Exchanged(x)
    BY <2>4 DEF TypeOK, Exchanged, Finish, Goto
  <2>5. CASE ExchangePending(x) \/ ExchangeFailed(x)
    BY <2>5 DEF TypeOK, ExchangePending, ExchangeFailed, Poll, Finish, Continue, Goto
  <2> QED BY <1>1, <2>1, <2>2, <2>3, <2>4, <2>5 DEF Works, ExchangeAnswered
<1>2. ASSUME NEW x \in Attempt, NEW b \in BOOLEAN, Opened(x, b) \/ Answer(x, b)
      PROVE  Out /\ Same
  BY <1>2 DEF TypeOK, Opened, Answer, Poll, Finish, Continue, Goto
<1>3. ASSUME NEW x \in Attempt, Begin(x) \/ Cancel(x) \/ DeadlinePasses(x)
      PROVE  Out /\ Same
  BY <1>3 DEF TypeOK, Begin, Cancel, DeadlinePasses, Goto
<1>4. ASSUME NEW x \in Attempt, SignInFails(x) \/ \E s \in Student : SignIn(x, s)
      PROVE  Out /\ Same
  BY <1>4 DEF SignInFails, SignIn, editorVars
<1>5. ASSUME NEW u \in sent, HandleUri(u)
      PROVE  /\ Out
             /\ ticket[a] # None => failed'[a] = failed[a]
             /\ failed[a] => ticket'[a] = ticket[a]
  <2>1. Out
    BY <1>5 DEF HandleUri
  <2>2. CASE Takes(a, u)
    BY <1>5, <2>2, Zenon DEF HandleUri, Takes
  <2>3. CASE ~Takes(a, u)
    <3>1. ticket'[a] = ticket[a]
      BY <1>5, <2>3 DEF HandleUri
    <3>2. failed'[a] = (failed[a] \/ FALSE)
      BY <1>5, <2>3 DEF HandleUri
    <3>3. failed'[a] = failed[a]
      BY <3>2 DEF TypeOK
    <3> QED BY <2>1, <3>1, <3>3
  <2> QED BY <2>1, <2>2, <2>3
<1>6. CASE UNCHANGED vars
  BY <1>6 DEF vars
<1> QED BY <1>1, <1>2, <1>3, <1>4, <1>5, <1>6 DEF Next

\* What the module promises: attempts that share the URI handler never take each
\* other's callbacks, forgejoLogin returns the token of whoever signed in to its
\* own flow, nobody listens after his end, and each attempt is decided once.
THEOREM AttemptsApartHolds == Spec => AttemptsApart
<1>1. IInv => TypeOK /\ OwnSignIn /\ ListenersRun
  BY DEF IInv
<1>2. TypeOK /\ [Next]_vars => [DecidedOnce]_vars
  BY DecidedStep
<1> QED BY <1>1, <1>2, IInvHolds, PTL DEF Spec, AttemptsApart
=============================================================================
