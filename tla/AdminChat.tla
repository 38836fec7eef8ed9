------------------------------ MODULE AdminChat ------------------------------
(***************************************************************************)
(* The administrator's chats with the assistant: the rows of the server,    *)
(* the generator that streams each reply, and the chat panel in one or more *)
(* browser tabs.  A turn is a question with its reply; its text, tools and  *)
(* proposals are left out.                                                  *)
(***************************************************************************)
EXTENDS Naturals, Sequences, FiniteSets

CONSTANTS Tabs,
          Embedded,     \* tabs whose panel is docked in the task editor
          Chats, Tasks, None,
          MaxTurns,     \* bound: messages accepted
          MaxAttempts   \* reads of the chat after a reply; 15 in the code

TaskOrNone == Tasks \cup {None}
ChatOrNone == Chats \cup {None}
Sendings == [chat : Chats, turn : 0..MaxTurns, phase : {"posting", "streaming", "rereading", "listing"},
             attempt : 0..MaxAttempts]
Posts == [chat : Chats, task : TaskOrNone, pressed : TaskOrNone]

ChatAssumption ==
    /\ None \notin Tabs \cup Chats \cup Tasks
    /\ Embedded \subseteq Tabs
    /\ MaxTurns \in Nat /\ MaxAttempts \in Nat \ {0}
    /\ None \notin Sendings \cup Posts

VARIABLES
    \* server
    chats,     \* sessions in the database
    used,      \* ids that have been given
    turns,     \* every turn with its row's status, its generator and its client
    \* tabs
    listed,    \* the history column
    active,    \* activeId, None for ''
    shown,     \* the chats whose messages are on display
    selected,  \* the task in the context
    loading, busy,
    starting,  \* init's three requests are under way
    reading,   \* the readChat of the last select
    creating,  \* newChat: "no", or who waits for it, "create" or "send"
    deleting,  \* deleteChat calls: [chat, served]
    sending,   \* send after busy was set
    post,      \* its request, until the server handles it
    pressed,   \* history: the task selected when the message was sent
    crossed    \* history: something was begun while a deletion was under way

serverVars == <<chats, used, turns>>
panelVars == <<listed, active, shown, selected, loading, busy>>
callVars == <<starting, reading, creating, deleting, sending, post>>
histVars == <<pressed, crossed>>
vars == <<chats, used, turns, listed, active, shown, selected, loading, busy, starting, reading,
          creating, deleting, sending, post, pressed, crossed>>

Numbers == 1..Len(turns)
Turns == [chat : Chats, task : TaskOrNone, pressed : TaskOrNone, open : BOOLEAN, old : BOOLEAN,
          status : {"streaming", "complete", "interrupted", "error"},
          gen : {"idle", "running", "done", "failing", "late", "ended", "dead"}]

-----------------------------------------------------------------------------
(* The server *)

\* begin_reply's check, after rows five minutes old were called interrupted.
RunningNever(c) == FALSE
Running(c) == \E n \in Numbers :
    turns[n].chat = c /\ turns[n].status = "streaming" /\ ~turns[n].old

\* send_message and begin_reply: the turn is stored and its stream is opened.
Begin(w) ==
    /\ post[w] # None /\ post[w].chat \in chats /\ ~Running(post[w].chat)
    /\ Len(turns) < MaxTurns
    /\ LET c == post[w].chat
           mine == sending[w] # None /\ sending[w].phase = "posting"
           swept == [n \in Numbers |->
                        IF turns[n].chat = c /\ turns[n].status = "streaming"
                        THEN [turns[n] EXCEPT !.status = "interrupted"] ELSE turns[n]]
       IN /\ turns' = Append(swept, [chat |-> c, task |-> post[w].task, pressed |-> post[w].pressed,
                                     open |-> mine, old |-> FALSE, status |-> "streaming",
                                     gen |-> "idle"])
          /\ IF mine
             THEN sending' = [sending EXCEPT ![w].turn = Len(turns) + 1, ![w].phase = "streaming"]
             ELSE UNCHANGED sending
    /\ post' = [post EXCEPT ![w] = None]
    /\ UNCHANGED <<chats, used, panelVars, starting, reading, creating, deleting, histVars>>

\* 404, 409 or no connection: send goes on in its finally.
PostRefused(w) ==
    /\ post[w] # None
    /\ post' = [post EXCEPT ![w] = None]
    /\ sending' = IF sending[w] # None /\ sending[w].phase = "posting"
                  THEN [sending EXCEPT ![w].phase = "rereading"] ELSE sending
    /\ UNCHANGED <<serverVars, panelVars, starting, reading, creating, deleting, histVars>>

\* The generator of turn n goes from one state to another, with its row.
Generator(n, from, to, status) ==
    /\ turns[n].gen = from
    /\ turns' = [turns EXCEPT ![n].gen = to, ![n].status = status]
    /\ UNCHANGED <<chats, used, panelVars, callVars, histVars>>

Start(n) == Generator(n, "idle", "running", turns[n].status)
\* The done event, then the row.
Done(n) == Generator(n, "running", "done", turns[n].status)
DoneWritten(n) == Generator(n, "done", "ended", "complete")
\* The error event, then the row.
Failing(n) == Generator(n, "running", "failing", turns[n].status)
FailingWritten(n) == Generator(n, "failing", "ended", "error")

\* Mutant: the deadline also ends a reply whose row has just been written.
DeadlineAlways(n) ==
    \/ Generator(n, "running", "late", "interrupted")
    \/ Generator(n, "done", "late", "complete")
\* The turn's deadline while the provider or a tool is awaited: the generator
\* writes its row, and stream_reply writes it again.
Deadline(n) == Generator(n, "running", "late", "interrupted")
LateWritten(n) == Generator(n, "late", "ended", "error")

\* Mutant: a response whose generator never began leaves the row.
DisconnectBegun(n) == ~turns[n].open /\ Generator(n, "running", "ended", "interrupted")
\* AssistantStreamingResponse without its client: both generators are closed
\* and a row that is still streaming is interrupted.
Disconnect(n) ==
    /\ ~turns[n].open
    /\ \E from \in {"idle", "running"} : Generator(n, from, "ended", "interrupted")

Alive == {"idle", "running", "done", "failing", "late"}

\* The server stops and starts again.
Crash ==
    /\ turns' = [n \in Numbers |-> IF turns[n].gen \in Alive
                                   THEN [turns[n] EXCEPT !.gen = "dead"] ELSE turns[n]]
    /\ turns' # turns
    /\ UNCHANGED <<chats, used, panelVars, callVars, histVars>>

\* Five minutes pass without a save.  A live reply has ended by its deadline,
\* which is at most three minutes.
Age(n) ==
    /\ turns[n].gen = "dead" /\ turns[n].status = "streaming" /\ ~turns[n].old
    /\ turns' = [turns EXCEPT ![n].old = TRUE]
    /\ UNCHANGED <<chats, used, panelVars, callVars, histVars>>

-----------------------------------------------------------------------------
(* The panel: history *)

\* Mutant: only loading is looked at.
IdleLoading(w) == ~loading[w]
\* The buttons that are disabled={busy || loading}.
Idle(w) == ~busy[w] /\ ~loading[w]

Crossing(w) == crossed' = [crossed EXCEPT ![w] = @ \/ deleting[w] # {}]
HasTurns(c) == \E n \in Numbers : turns[n].chat = c

\* The panel is opened, or the page reloaded; a stream loses its client.
Open(w) ==
    /\ starting[w] = "no"
    /\ turns' = [n \in Numbers |-> IF sending[w] # None /\ sending[w].turn = n
                                   THEN [turns[n] EXCEPT !.open = FALSE] ELSE turns[n]]
    /\ starting' = [starting EXCEPT ![w] = "init"]
    /\ listed' = [listed EXCEPT ![w] = {}] /\ active' = [active EXCEPT ![w] = None]
    /\ shown' = [shown EXCEPT ![w] = {}] /\ selected' = [selected EXCEPT ![w] = None]
    /\ loading' = [loading EXCEPT ![w] = TRUE] /\ busy' = [busy EXCEPT ![w] = FALSE]
    /\ reading' = [reading EXCEPT ![w] = None] /\ creating' = [creating EXCEPT ![w] = "no"]
    /\ deleting' = [deleting EXCEPT ![w] = {}] /\ sending' = [sending EXCEPT ![w] = None]
    /\ pressed' = [pressed EXCEPT ![w] = None] /\ crossed' = [crossed EXCEPT ![w] = FALSE]
    /\ UNCHANGED <<chats, used, post>>

\* select(c): the earlier select is forgotten.
Selects(w, c) ==
    /\ reading' = [reading EXCEPT ![w] = c]
    /\ loading' = [loading EXCEPT ![w] = c # None]

\* init has its answers and selects the first chat.
Opened(w) ==
    /\ starting[w] = "init"
    /\ starting' = [starting EXCEPT ![w] = "no"]
    /\ \E found \in {chats, {}} :
        /\ listed' = [listed EXCEPT ![w] = found]
        /\ \E c \in IF found = {} THEN {None} ELSE found : Selects(w, c)
    /\ UNCHANGED <<serverVars, active, shown, selected, busy, creating, deleting, sending, post, histVars>>

Select(w, c) ==
    /\ Idle(w) /\ c \in listed[w]
    /\ Selects(w, c)
    /\ Crossing(w)
    /\ UNCHANGED <<serverVars, listed, active, shown, selected, busy, starting, creating, deleting,
                   sending, post, pressed>>

\* The answer, or the failure, of the last select.
SelectAnswers(w) ==
    /\ reading[w] # None
    /\ \/ /\ reading[w] \in chats
          /\ active' = [active EXCEPT ![w] = reading[w]]
          /\ shown' = [shown EXCEPT ![w] = {c \in {reading[w]} : HasTurns(c)}]
       \/ UNCHANGED <<active, shown>>
    /\ Selects(w, None)
    /\ UNCHANGED <<serverVars, listed, selected, busy, starting, creating, deleting, sending, post,
                   histVars>>

Create(w) ==
    /\ Idle(w)
    /\ creating' = [creating EXCEPT ![w] = "create"]
    /\ loading' = [loading EXCEPT ![w] = TRUE]
    /\ Crossing(w)
    /\ UNCHANGED <<serverVars, listed, active, shown, selected, busy, starting, reading, deleting,
                   sending, post, pressed>>

\* remove, confirmed; neither flag is set.
Remove(w, c) ==
    /\ Idle(w) /\ c \in listed[w]
    /\ c \notin {d.chat : d \in deleting[w]}
    /\ deleting' = [deleting EXCEPT ![w] = @ \cup {[chat |-> c, served |-> FALSE]}]
    /\ Crossing(w)
    /\ UNCHANGED <<serverVars, panelVars, starting, reading, creating, sending, post, pressed>>

RemoveServed(w) ==
    /\ \E d \in deleting[w] :
        /\ ~d.served
        /\ chats' = chats \ {d.chat}
        /\ deleting' = [deleting EXCEPT ![w] = (@ \ {d}) \cup {[d EXCEPT !.served = TRUE]}]
    /\ UNCHANGED <<used, turns, panelVars, starting, reading, creating, sending, post, histVars>>

\* The chat leaves the list; when it was open the first of the others is selected.
Removed(w, d) ==
    /\ d.served
    /\ deleting' = [deleting EXCEPT ![w] = @ \ {d}]
    /\ listed' = [listed EXCEPT ![w] = @ \ {d.chat}]
    /\ IF active[w] = d.chat
       THEN /\ active' = [active EXCEPT ![w] = None]
            /\ shown' = [shown EXCEPT ![w] = {}]
            /\ IF listed'[w] # {} /\ ~busy[w]
               THEN \E c \in listed'[w] : Selects(w, c)
               ELSE UNCHANGED <<reading, loading>>
       ELSE UNCHANGED <<active, shown, reading, loading>>
    /\ UNCHANGED <<serverVars, selected, busy, starting, creating, sending, post, histVars>>

RemoveFails(w, d) ==
    /\ deleting' = [deleting EXCEPT ![w] = @ \ {d}]
    /\ UNCHANGED <<serverVars, panelVars, starting, reading, creating, sending, post, histVars>>

\* The task in the context: the editor's, at any time, or the select box's.
Switch(w) ==
    /\ w \in Embedded \/ Idle(w)
    /\ \E t \in TaskOrNone \ {selected[w]} : selected' = [selected EXCEPT ![w] = t]
    /\ UNCHANGED <<serverVars, listed, active, shown, loading, busy, callVars, histVars>>

-----------------------------------------------------------------------------
(* The panel: a message *)

\* send from the moment it knows its chat.
Sends(w, c, task) ==
    /\ busy' = [busy EXCEPT ![w] = TRUE]
    /\ sending' = [sending EXCEPT ![w] = [chat |-> c, turn |-> 0, phase |-> "posting", attempt |-> 0]]
    /\ post' = [post EXCEPT ![w] = [chat |-> c, task |-> task, pressed |-> pressed'[w]]]

\* send; a tab has one request under way at a time.
Send(w) ==
    /\ Idle(w) /\ post[w] = None
    /\ pressed' = [pressed EXCEPT ![w] = selected[w]]
    /\ Crossing(w)
    /\ IF active[w] # None
       THEN /\ Sends(w, active[w], selected[w])
            /\ shown' = [shown EXCEPT ![w] = @ \cup {active[w]}]
            /\ UNCHANGED <<loading, creating>>
       ELSE /\ creating' = [creating EXCEPT ![w] = "send"]
            /\ loading' = [loading EXCEPT ![w] = TRUE]
            /\ UNCHANGED <<shown, busy, sending, post>>
    /\ UNCHANGED <<serverVars, listed, active, selected, starting, reading, deleting>>

\* Mutant: the context is looked up when the chat has been created.
ContextLate(w) == selected[w]
\* contextTaskId, taken before the chat was created.
Context(w) == pressed[w]

\* newChat's answer, for the button or for send.
Created(w) ==
    /\ creating[w] # "no"
    /\ \E c \in Chats \ used :
        /\ chats' = chats \cup {c} /\ used' = used \cup {c}
        /\ listed' = [listed EXCEPT ![w] = @ \cup {c}]
        /\ active' = [active EXCEPT ![w] = c]
        /\ IF creating[w] = "send"
           THEN /\ UNCHANGED pressed
                /\ Sends(w, c, Context(w))
                /\ shown' = [shown EXCEPT ![w] = {c}]
           ELSE /\ UNCHANGED <<pressed, busy, sending, post>>
                /\ shown' = [shown EXCEPT ![w] = {}]
    /\ selected' = IF w \in Embedded THEN selected ELSE [selected EXCEPT ![w] = None]
    /\ loading' = [loading EXCEPT ![w] = FALSE]
    /\ creating' = [creating EXCEPT ![w] = "no"]
    /\ UNCHANGED <<turns, starting, reading, deleting, crossed>>

\* Mutant: the id of a lost answer is given again.
CreateFailsReusing(w) ==
    /\ creating[w] # "no"
    /\ \E c \in Chats \ used : chats' = chats \cup {c}
    /\ loading' = [loading EXCEPT ![w] = FALSE]
    /\ creating' = [creating EXCEPT ![w] = "no"]
    /\ UNCHANGED <<used, turns, listed, active, shown, selected, busy, starting, reading, deleting,
                   sending, post, histVars>>

\* No answer, although the chat may have been created.
CreateFails(w) ==
    /\ creating[w] # "no"
    /\ \/ UNCHANGED <<chats, used>>
       \/ \E c \in Chats \ used : chats' = chats \cup {c} /\ used' = used \cup {c}
    /\ loading' = [loading EXCEPT ![w] = FALSE]
    /\ creating' = [creating EXCEPT ![w] = "no"]
    /\ UNCHANGED <<turns, listed, active, shown, selected, busy, starting, reading, deleting, sending,
                   post, histVars>>

Phase(w, p) == sending[w] # None /\ sending[w].phase = p

\* An event of the stream: the last message on display becomes the reply.
Event(w) ==
    /\ Phase(w, "streaming") /\ turns[sending[w].turn].gen # "idle"
    /\ shown' = [shown EXCEPT ![w] = @ \cup {sending[w].chat}]
    /\ UNCHANGED <<serverVars, listed, active, selected, loading, busy, callVars, histVars>>

Reread(w) == sending' = [sending EXCEPT ![w].phase = "rereading"]

StreamEnds(w) ==
    /\ Phase(w, "streaming") /\ turns[sending[w].turn].gen \in {"ended", "dead"}
    /\ Reread(w)
    /\ UNCHANGED <<serverVars, panelVars, starting, reading, creating, deleting, post, histVars>>

\* stop, or a connection that breaks: the request may still arrive.
Stop(w) ==
    /\ Phase(w, "posting") \/ Phase(w, "streaming")
    /\ turns' = [n \in Numbers |-> IF sending[w].turn = n
                                   THEN [turns[n] EXCEPT !.open = FALSE] ELSE turns[n]]
    /\ Reread(w)
    /\ UNCHANGED <<chats, used, panelVars, starting, reading, creating, deleting, post, histVars>>

StillStreaming(c) == \E n \in Numbers : turns[n].chat = c /\ turns[n].status = "streaming"

Enough(w) == ~StillStreaming(sending[w].chat) \/ sending[w].attempt + 1 = MaxAttempts

\* The chat is read again and shown if it is still the active one.
Rereads(w) ==
    /\ Phase(w, "rereading") /\ sending[w].chat \in chats
    /\ shown' = IF active[w] = sending[w].chat
                THEN [shown EXCEPT ![w] = {c \in {active[w]} : HasTurns(c)}] ELSE shown
    /\ sending' = IF Enough(w) THEN [sending EXCEPT ![w].phase = "listing"]
                  ELSE [sending EXCEPT ![w].attempt = (@ + 1) % MaxAttempts]
    /\ UNCHANGED <<serverVars, listed, active, selected, loading, busy, starting, reading, creating,
                   deleting, post, histVars>>

\* The list is read again, or one of the two reads fails.
SendEnds(w) ==
    /\ \/ Phase(w, "rereading") /\ UNCHANGED listed
       \/ Phase(w, "listing") /\ listed' = [listed EXCEPT ![w] = chats]
    /\ sending' = [sending EXCEPT ![w] = None]
    /\ busy' = [busy EXCEPT ![w] = FALSE]
    /\ UNCHANGED <<serverVars, active, shown, selected, loading, starting, reading, creating, deleting,
                   post, histVars>>

-----------------------------------------------------------------------------

Init ==
    /\ chats \in SUBSET Chats /\ used = chats /\ turns = <<>>
    /\ listed = [w \in Tabs |-> {}] /\ active = [w \in Tabs |-> None]
    /\ shown = [w \in Tabs |-> {}] /\ selected = [w \in Tabs |-> None]
    /\ loading = [w \in Tabs |-> TRUE] /\ busy = [w \in Tabs |-> FALSE]
    /\ starting = [w \in Tabs |-> "init"] /\ reading = [w \in Tabs |-> None]
    /\ creating = [w \in Tabs |-> "no"] /\ deleting = [w \in Tabs |-> {}]
    /\ sending = [w \in Tabs |-> None] /\ post = [w \in Tabs |-> None]
    /\ pressed = [w \in Tabs |-> None] /\ crossed = [w \in Tabs |-> FALSE]

Reply(n) ==
    \/ Start(n) \/ Done(n) \/ DoneWritten(n) \/ Failing(n) \/ FailingWritten(n)
    \/ Deadline(n) \/ LateWritten(n) \/ Disconnect(n) \/ Age(n)

\* What ends a request that was made.
Answers(w) ==
    \/ Opened(w) \/ SelectAnswers(w) \/ Created(w) \/ CreateFails(w)
    \/ Begin(w) \/ PostRefused(w) \/ StreamEnds(w) \/ Rereads(w) \/ SendEnds(w)

Panel(w) ==
    \/ Open(w) \/ Create(w) \/ Switch(w) \/ Send(w) \/ Stop(w) \/ Event(w) \/ RemoveServed(w)
    \/ \E c \in Chats : Select(w, c) \/ Remove(w, c)
    \/ \E d \in deleting[w] : Removed(w, d) \/ RemoveFails(w, d)

Next ==
    \/ Crash
    \/ \E n \in Numbers : Reply(n)
    \/ \E w \in Tabs : Answers(w) \/ Panel(w)

Spec == Init /\ [][Next]_vars

\* What ends a reply: its provider, its deadline or its response, and the last
\* write to its row; and what ends a message's wait for it.
ReplyProceeds(n) ==
    /\ n \in Numbers
    /\ (turns[n].open /\ Start(n)) \/ Deadline(n) \/ DoneWritten(n) \/ FailingWritten(n)
       \/ LateWritten(n) \/ Disconnect(n)
SendProceeds(w) ==
    \/ PostRefused(w) \/ StreamEnds(w) \/ Rereads(w)
    \/ (Phase(w, "listing") \/ (sending[w] # None /\ sending[w].chat \notin chats)) /\ SendEnds(w)

-----------------------------------------------------------------------------
(* Properties *)

\* Every variable keeps to its values.
TypeOK ==
    /\ chats \subseteq used /\ used \subseteq Chats
    /\ turns \in Seq(Turns) /\ Len(turns) <= MaxTurns
    /\ listed \in [Tabs -> SUBSET Chats] /\ active \in [Tabs -> ChatOrNone]
    /\ shown \in [Tabs -> SUBSET Chats] /\ selected \in [Tabs -> TaskOrNone]
    /\ loading \in [Tabs -> BOOLEAN] /\ busy \in [Tabs -> BOOLEAN]
    /\ starting \in [Tabs -> {"no", "init"}] /\ reading \in [Tabs -> ChatOrNone]
    /\ creating \in [Tabs -> {"no", "create", "send"}]
    /\ deleting \in [Tabs -> SUBSET [chat : Chats, served : BOOLEAN]]
    /\ sending \in [Tabs -> Sendings \cup {None}] /\ post \in [Tabs -> Posts \cup {None}]
    /\ pressed \in [Tabs -> TaskOrNone] /\ crossed \in [Tabs -> BOOLEAN]

\* begin_reply: whatever is stopped, lost, repeated, timed out or restarted, no
\* chat has two replies that are being written by a provider at a time.
OneReplyAtATime ==
    \A m, n \in Numbers :
        m # n /\ turns[m].chat = turns[n].chat /\ turns[m].chat \in chats
        => ~({turns[m].gen, turns[n].gen} \subseteq Alive \ {"late"})

\* A reply that has been stored as complete is never called anything else by the
\* other two writers of its row (assistant.py:524 and 557, admin_assistant.py:50).
StaysComplete ==
    \A n \in Numbers : turns[n].status = "complete" => turns'[n].status = "complete"

\* Assistant.svelte:54: switching tasks while a chat is created or a reply
\* streams does not retarget the message.
ContextIsTheSenders == \A n \in Numbers : turns[n].task = turns[n].pressed

\* The messages on display are the active chat's, unless something was begun
\* while a deletion was under way.
ShownIsActive == \A w \in Tabs : ~crossed[w] => shown[w] \subseteq {active[w]}

\* A message whose client is gone; a reply that is over, or died with the server.
Stopped(n) == n \in Numbers /\ ~turns[n].open
Over(n) == n \in Numbers /\ (turns[n].status # "streaming" \/ turns[n].gen = "dead")
=============================================================================
