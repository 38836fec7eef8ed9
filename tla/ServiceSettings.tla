--------------------------- MODULE ServiceSettings ---------------------------
(***************************************************************************)
(* The service's settings: one row with a revision, fields the environment  *)
(* locks, a separate provider key, and the settings page of every           *)
(* administrator with its form, its loads and saves under way, and the      *)
(* assistant's draft it may have been opened with.  A configuration is the  *)
(* content path and the set of edits that made the rest of it.              *)
(***************************************************************************)
EXTENDS Integers, FiniteSets

CONSTANTS Admins,
          Paths,        \* content paths an administrator may type
          Directories,  \* those that exist on the server
          Keys,         \* provider keys, each typed once
          MaxRevision,  \* bound: accepted saves
          MaxDrafts,    \* bound: drafts the assistant prepares, 0 or 1
          None

Edits == Admins \cup {"draft"}
Configs == [path : Paths, rest : SUBSET Edits]
Snapshots == [revision : 0..MaxRevision, config : Configs, locked : BOOLEAN, keySet : BOOLEAN]
Drafts == [expected : 0..MaxRevision, config : Configs]
Updates == [expected : 0..MaxRevision, config : Configs, key : Keys \cup {None}, clear : BOOLEAN]
Forms == [snapshot : Snapshots \cup {None}, config : Configs \cup {None},
          apiKey : Keys \cup {None}, clearApiKey : BOOLEAN, revisionConflict : BOOLEAN,
          pending : BOOLEAN, applied : BOOLEAN]

SettingsAssumption ==
    /\ None \notin Admins \cup Paths \cup Keys
    /\ Directories \subseteq Paths /\ Directories # {}
    /\ MaxRevision \in Nat /\ MaxDrafts \in {0, 1}
    /\ None \notin Configs \cup Snapshots \cup Drafts \cup Updates \cup Forms

NoReply == [answer |-> "none", data |-> None]
Replies == [answer : {"none", "saved", "conflict", "refused"}, data : Snapshots \cup {None}]

VARIABLES
    \* server
    revision, stored, key,  \* the row of service_settings
    env,                    \* the content path given by the environment, or None
    prepared,               \* the draft the assistant has prepared
    catalogue,              \* the path of the last sync
    \* pages
    form,       \* None while the page is closed, or its form
    draft,      \* the draft the page was opened with
    loads,      \* getSettings calls: None until the server has read
    busy,       \* "no", or what saving, syncBusy and aiTesting wait for
    sent,       \* the PUT under way
    reply,      \* its answer
    \* history
    typed,      \* keys that have been typed
    gone        \* keys that have been replaced or cleared

serverVars == <<revision, stored, key, env, prepared, catalogue>>
pageVars == <<form, draft, loads, busy, sent, reply>>
histVars == <<typed, gone>>
vars == <<revision, stored, key, env, prepared, catalogue, form, draft, loads, busy, sent,
          reply, typed, gone>>

-----------------------------------------------------------------------------
(* The server *)

\* load_settings: the environment's value comes before the row's.
load_settings == [stored EXCEPT !.path = IF env # None THEN env ELSE @]

settings_snapshot ==
    [revision |-> revision, config |-> load_settings, locked |-> env # None,
     keySet |-> key # None]

\* Mutant: the lock is not looked at.
AcceptableUnlocked(u) ==
    /\ u.config.path \in Directories
    /\ u.key = None \/ ~u.clear

\* save_settings up to BEGIN IMMEDIATE; otherwise the answer is 400.
Acceptable(u) ==
    /\ env # None => u.config.path = env
    /\ u.config.path \in Directories
    /\ u.key = None \/ ~u.clear

\* Mutant: no comparison of revisions, up to the bound.
ExpectedAny(u) == revision < MaxRevision
Expected(u) == u.expected = revision

KeyAfter(u) == IF u.clear THEN None ELSE IF u.key # None THEN u.key ELSE key

\* The PUT is handled: 400, 409, or the row is written.
SaveServed(a) ==
    /\ busy[a] = "saving" /\ sent[a] # None
    /\ UNCHANGED <<env, prepared, catalogue, form, draft, loads, busy, typed>>
    /\ LET u == sent[a] IN
       IF Acceptable(u) /\ Expected(u)
       THEN /\ revision' = revision + 1
            /\ stored' = u.config
            /\ key' = KeyAfter(u)
            /\ gone' = IF key' = key THEN gone ELSE gone \cup ({key} \ {None})
            /\ reply' = [reply EXCEPT ![a].answer = "saved"]
       ELSE /\ reply' = [reply EXCEPT ![a].answer =
                             IF Acceptable(u) THEN "conflict" ELSE "refused"]
            /\ UNCHANGED <<revision, stored, key, gone>>
    /\ sent' = [sent EXCEPT ![a] = None]

\* The snapshot is read after the commit; another save may have come between.
SavedIsRead(a) ==
    /\ reply[a].answer = "saved" /\ reply[a].data = None
    /\ reply' = [reply EXCEPT ![a].data = settings_snapshot]
    /\ UNCHANGED <<serverVars, histVars, form, draft, loads, busy, sent>>

\* Mutant: the draft claims the revision after the one it was made from.
ProposeAhead ==
    /\ MaxDrafts = 1 /\ prepared = None
    /\ prepared' = [expected |-> revision + 1,
                    config |-> [load_settings EXCEPT !.rest = @ \cup {"draft"}]]
    /\ UNCHANGED <<revision, stored, key, env, catalogue, pageVars, histVars>>

\* The assistant's propose_settings; it changes no field that can be locked.
Propose ==
    /\ MaxDrafts = 1 /\ prepared = None
    /\ prepared' = [expected |-> revision,
                    config |-> [load_settings EXCEPT !.rest = @ \cup {"draft"}]]
    /\ UNCHANGED <<revision, stored, key, env, catalogue, pageVars, histVars>>

\* The service is started again with another environment; no request is served
\* across it.
Restart ==
    /\ env' \in {None} \cup Directories
    /\ UNCHANGED <<revision, stored, key, prepared, catalogue, pageVars, histVars>>

-----------------------------------------------------------------------------
(* The form *)

dirty(f) ==
    /\ f.snapshot # None
    /\ f.config # f.snapshot.config \/ f.apiKey # None \/ f.clearApiKey

\* handleIncomingDraft, the effect that runs when what it reads has changed.
handleIncomingDraft(d, f) ==
    IF d = None \/ f.applied \/ f.snapshot = None THEN f
    ELSE IF dirty(f) \/ d.expected # f.snapshot.revision
    THEN [f EXCEPT !.pending = TRUE]
    ELSE [f EXCEPT !.config = d.config, !.pending = FALSE, !.applied = TRUE]

\* The form of a becomes f, with the effect that follows.
Becomes(a, f) == form' = [form EXCEPT ![a] = handleIncomingDraft(draft[a], f)]

\* A field was edited: the effect runs when dirty has turned.
Edited(a, f) ==
    IF dirty(f) # dirty(form[a]) THEN Becomes(a, f) ELSE form' = [form EXCEPT ![a] = f]

\* Mutant: the key stays in its field after the save.
setBaselineKey(f, data) ==
    [snapshot |-> data, config |-> data.config, apiKey |-> f.apiKey, clearApiKey |-> FALSE,
     revisionConflict |-> FALSE, pending |-> FALSE, applied |-> FALSE]

\* setBaseline, and the draft forgotten, as both its callers do.
setBaseline(f, data) ==
    [snapshot |-> data, config |-> data.config, apiKey |-> None, clearApiKey |-> FALSE,
     revisionConflict |-> FALSE, pending |-> FALSE, applied |-> FALSE]

NewForm ==
    [snapshot |-> None, config |-> None, apiKey |-> None, clearApiKey |-> FALSE,
     revisionConflict |-> FALSE, pending |-> FALSE, applied |-> FALSE]

Mounted(a) == form[a] # None
\* The fieldset is there and enabled.
Enabled(a) == Mounted(a) /\ form[a].snapshot # None /\ busy[a] = "no"

\* The page is opened, from the menu or from the assistant's draft.
Open(a) ==
    /\ ~Mounted(a)
    /\ form' = [form EXCEPT ![a] = NewForm]
    /\ \E d \in {None, prepared} : draft' = [draft EXCEPT ![a] = d]
    /\ loads' = [loads EXCEPT ![a] = {None}]
    /\ UNCHANGED <<serverVars, histVars, busy, sent, reply>>

\* Another view is chosen; unsaved changes are given up in a dialogue.
Leave(a) ==
    /\ Mounted(a) /\ busy[a] = "no"
    /\ form' = [form EXCEPT ![a] = None]
    /\ draft' = [draft EXCEPT ![a] = None]
    /\ loads' = [loads EXCEPT ![a] = {}]
    /\ UNCHANGED <<serverVars, histVars, busy, sent, reply>>

EditRest(a) ==
    /\ Enabled(a)
    /\ Edited(a, [form[a] EXCEPT !.config.rest = @ \cup {a}])
    /\ UNCHANGED <<serverVars, histVars, draft, loads, busy, sent, reply>>

EditPath(a) ==
    /\ Enabled(a) /\ ~form[a].snapshot.locked
    /\ \E p \in Paths : Edited(a, [form[a] EXCEPT !.config.path = p])
    /\ UNCHANGED <<serverVars, histVars, draft, loads, busy, sent, reply>>

EditKey(a) ==
    /\ Enabled(a)
    /\ \E k \in Keys \ typed :
        /\ Edited(a, [form[a] EXCEPT !.apiKey = k])
        /\ typed' = typed \cup {k}
    /\ UNCHANGED <<serverVars, gone, draft, loads, busy, sent, reply>>

TickClear(a) ==
    /\ Enabled(a) /\ form[a].snapshot.keySet
    /\ Edited(a, [form[a] EXCEPT !.clearApiKey = ~@])
    /\ UNCHANGED <<serverVars, histVars, draft, loads, busy, sent, reply>>

\* revert, confirmed.
revert(a) ==
    /\ Enabled(a) /\ dirty(form[a])
    /\ Becomes(a, [form[a] EXCEPT !.config = form[a].snapshot.config, !.apiKey = None,
                                  !.clearApiKey = FALSE, !.revisionConflict = FALSE,
                                  !.pending = FALSE])
    /\ UNCHANGED <<serverVars, histVars, draft, loads, busy, sent, reply>>

\* The draft is declined.  acceptProposal is no action: its button is disabled
\* unless the draft is of the form's revision, which PendingIsOld rules out.
rejectProposal(a) ==
    /\ Enabled(a) /\ form[a].pending
    /\ form' = [form EXCEPT ![a].pending = FALSE]
    /\ UNCHANGED <<serverVars, histVars, draft, loads, busy, sent, reply>>

-----------------------------------------------------------------------------
(* Loading, saving, testing, syncing *)

\* The reload of the dirty bar, of the conflict or of a failed first load.
loadSettings(a) ==
    /\ Mounted(a)
    /\ \/ form[a].snapshot = None /\ loads[a] = {}
       \/ Enabled(a) /\ form[a].revisionConflict
       \/ Enabled(a) /\ dirty(form[a]) /\ loads[a] = {}
    /\ loads' = [loads EXCEPT ![a] = @ \cup {None}]
    /\ UNCHANGED <<serverVars, histVars, form, draft, busy, sent, reply>>

LoadServed(a) ==
    /\ None \in loads[a]
    /\ loads' = [loads EXCEPT ![a] = (@ \ {None}) \cup {settings_snapshot}]
    /\ UNCHANGED <<serverVars, histVars, form, draft, busy, sent, reply>>

LoadAnswers(a) ==
    /\ \E data \in loads[a] \ {None} :
        /\ loads' = [loads EXCEPT ![a] = @ \ {data}]
        /\ Becomes(a, setBaseline(form[a], data))
    /\ UNCHANGED <<serverVars, histVars, draft, busy, sent, reply>>

LoadFails(a) ==
    /\ \E data \in loads[a] : loads' = [loads EXCEPT ![a] = @ \ {data}]
    /\ UNCHANGED <<serverVars, histVars, form, draft, busy, sent, reply>>

\* save: the footer's button also saves a form without changes.
save(a) ==
    /\ Enabled(a)
    /\ form[a].snapshot.revision < MaxRevision
    /\ busy' = [busy EXCEPT ![a] = "saving"]
    /\ sent' = [sent EXCEPT ![a] =
           [expected |-> form[a].snapshot.revision, config |-> form[a].config,
            key |-> form[a].apiKey, clear |-> form[a].clearApiKey]]
    /\ UNCHANGED <<serverVars, histVars, form, draft, loads, reply>>

\* The answer: the saved snapshot is the new baseline and the connection may be
\* tested; a conflict or a refusal leaves the fields.
Saved(a) ==
    /\ busy[a] = "saving" /\ reply[a].data # None
    /\ Becomes(a, setBaseline(form[a], reply[a].data))
    /\ \E next \in {"no", "testing"} : busy' = [busy EXCEPT ![a] = next]
    /\ reply' = [reply EXCEPT ![a] = NoReply]
    /\ UNCHANGED <<serverVars, histVars, draft, loads, sent>>

\* 409, 400, or no answer although the save may have been made.
SaveFails(a) ==
    /\ busy[a] = "saving"
    /\ form' = [form EXCEPT ![a].revisionConflict = @ \/ reply[a].answer = "conflict"]
    /\ busy' = [busy EXCEPT ![a] = "no"]
    /\ sent' = [sent EXCEPT ![a] = None]
    /\ reply' = [reply EXCEPT ![a] = NoReply]
    /\ UNCHANGED <<serverVars, histVars, draft, loads>>

runSync(a) ==
    /\ Enabled(a) /\ ~dirty(form[a])
    /\ busy' = [busy EXCEPT ![a] = "syncing"]
    /\ UNCHANGED <<serverVars, histVars, form, draft, loads, sent, reply>>

\* sync_tasks with the path the page has sent.
SyncServed(a) ==
    /\ busy[a] = "syncing"
    /\ IF form[a].snapshot.config.path \in Directories
       THEN catalogue' = form[a].snapshot.config.path
       ELSE UNCHANGED catalogue
    /\ busy' = [busy EXCEPT ![a] = "synced"]
    /\ UNCHANGED <<revision, stored, key, env, prepared, histVars, form, draft, loads, sent, reply>>

\* The test or the sync has ended, well or not.
WorkEnds(a) ==
    /\ busy[a] \in {"testing", "syncing", "synced"}
    /\ busy' = [busy EXCEPT ![a] = "no"]
    /\ UNCHANGED <<serverVars, histVars, form, draft, loads, sent, reply>>

-----------------------------------------------------------------------------

Init ==
    /\ revision = 0 /\ key = None
    /\ stored \in [path : Directories, rest : {{}}]
    /\ env \in {None} \cup Directories
    /\ prepared = None /\ catalogue = None
    /\ form = [a \in Admins |-> None] /\ draft = [a \in Admins |-> None]
    /\ loads = [a \in Admins |-> {}] /\ busy = [a \in Admins |-> "no"]
    /\ sent = [a \in Admins |-> None] /\ reply = [a \in Admins |-> NoReply]
    /\ typed = {} /\ gone = {}

Page(a) ==
    \/ Open(a) \/ Leave(a)
    \/ EditRest(a) \/ EditPath(a) \/ EditKey(a) \/ TickClear(a)
    \/ revert(a) \/ rejectProposal(a)
    \/ loadSettings(a) \/ LoadServed(a) \/ LoadAnswers(a) \/ LoadFails(a)
    \/ save(a) \/ SaveServed(a) \/ SavedIsRead(a) \/ Saved(a) \/ SaveFails(a)
    \/ runSync(a) \/ SyncServed(a) \/ WorkEnds(a)

Next == Propose \/ Restart \/ \E a \in Admins : Page(a)

Spec == Init /\ [][Next]_vars

-----------------------------------------------------------------------------
(* Properties *)

\* Every variable keeps to its values.
TypeOK ==
    /\ revision \in 0..MaxRevision /\ stored \in Configs /\ key \in Keys \cup {None}
    /\ env \in Directories \cup {None} /\ prepared \in Drafts \cup {None}
    /\ catalogue \in Directories \cup {None}
    /\ form \in [Admins -> Forms \cup {None}]
    /\ draft \in [Admins -> Drafts \cup {None}]
    /\ loads \in [Admins -> SUBSET (Snapshots \cup {None})]
    /\ busy \in [Admins -> {"no", "saving", "testing", "syncing", "synced"}]
    /\ sent \in [Admins -> Updates \cup {None}]
    /\ reply \in [Admins -> Replies]
    /\ typed \subseteq Keys /\ gone \subseteq typed

\* docs/DEPLOYMENT.md:129 and test_stale_revision_is_rejected: no save, of a
\* form or of a draft prepared long ago, drops an edit somebody else has saved.
LosesNothing == stored.rest \subseteq stored'.rest

\* A draft that waits for a decision was made from an older revision than the
\* form's: it is never one that could simply be applied, nor are the
\* administrator's own edits the reason it waits (Settings.svelte:286-290).
PendingIsOld ==
    \A a \in Admins : form[a] # None /\ form[a].pending
                        => draft[a].expected < form[a].snapshot.revision

\* What was accepted is in force at once: the environment overrides no field of
\* a save that was answered with success.
InForce == revision' # revision => load_settings' = stored'

\* A provider key that was replaced or cleared never comes back, although forms
\* keep a key after a failed save and saves are repeated.
KeysNeverReturn == key \notin gone

=============================================================================
