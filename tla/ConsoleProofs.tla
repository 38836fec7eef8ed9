---------------------------- MODULE ConsoleProofs ----------------------------
(***************************************************************************)
(* Proofs about the admin console, for any number of tabs, accounts and     *)
(* requests: what a tab shows is its account's; no save of the settings     *)
(* loses another's, and a replaced key stays gone; a chat has one reply     *)
(* that is being written, and the messages shown are the active chat's;     *)
(* text typed in the task editor is kept, and a save replaces only what it  *)
(* stems from.                                                              *)
(***************************************************************************)
EXTENDS Console, Sequences, TLAPS

-----------------------------------------------------------------------------
(* The frame: rows and requests *)

Row == [memory : Token \cup {None}, checking : BOOLEAN, shown : Accounts \cup {None},
        role : Roles \cup {None}, logged : BOOLEAN, seen : BOOLEAN, view : Views,
        dirty : BOOLEAN, busy : BOOLEAN, form : FormRow \cup {None}]
Request == [tab : Tabs, kind : {"me", "login", "read"} \cup Forms, token : Token \cup {None},
            gone : BOOLEAN]

\* A row whose form, where there is one, is that of its view and its account.
Fits(r) ==
    /\ r \in Row /\ KindOf(r.form) = Shown(r)
    /\ r.form # None => r.form.by = r.shown
    /\ r.seen <=> r.shown # None
    /\ r.logged => r.seen

\* What the flags must not hide.
Flagged(r) == r.form # None => /\ r.form.changed => r.dirty
                               /\ r.form.saving => r.busy

\* Two rows with the same session on the same page.
SameSession(r, q) ==
    /\ r.memory = q.memory /\ r.checking = q.checking /\ r.logged = q.logged
    /\ r.shown = q.shown

\* A row without a form that fits, on its way to one.
Ready(r) ==
    /\ r \in Row
    /\ r.form # None => r.form.by = r.shown \/ KindOf(r.form) # Shown(r)
    /\ r.seen <=> r.shown # None
    /\ r.logged => r.seen

LEMMA LeftRow ==
    ASSUME NEW r \in Row
    PROVE  /\ Left(r) \in Row /\ SameSession(Left(r), r) /\ Left(r).form = r.form
           /\ Left(r).seen = r.seen /\ Left(r).role = r.role /\ Left(r).view = r.view
<1>1. CASE r.form = None
  BY <1>1 DEF Left, SameSession
<1>2. CASE r.form # None
  <2>1. PICK d \in BOOLEAN : d = IF r.form.kind = "settings" THEN r.dirty ELSE FALSE
    BY DEF Row
  <2>2. Left(r) = [r EXCEPT !.busy = FALSE, !.dirty = d]
    BY <1>2, <2>1 DEF Left, Row
  <2> QED BY <2>2 DEF Row, SameSession
<1> QED BY <1>1, <1>2

LEMMA ShowsRow ==
    ASSUME NEW r, Ready(r)
    PROVE  /\ Fits(Shows(r)) /\ SameSession(Shows(r), r) /\ Shows(r).view = r.view
           /\ Flagged(r) => Flagged(Shows(r))
           /\ KindOf(r.form) = Shown(r) => Shows(r) = r
           /\ KindOf(r.form) # Shown(r) => Flagged(Shows(r))
           /\ Shown(r) = None => Shows(r).form = None
           /\ KindOf(Shows(r).form) = KindOf(r.form) => Shows(r).form = r.form
<1>1. CASE Shown(r) = KindOf(r.form)
  <2>1. Shows(r) = r
    BY <1>1 DEF Shows
  <2>2. r.form # None => KindOf(r.form) # None
    BY ConsoleConstants DEF ConsoleAssumption, KindOf, Ready, Row, FormRow, Views
  <2> QED BY <1>1, <2>1, <2>2 DEF Fits, Ready, SameSession
<1>2. CASE Shown(r) # KindOf(r.form)
  <2> DEFINE l == Left(r)
  <2>1. /\ l \in Row /\ SameSession(l, r) /\ l.form = r.form
        /\ l.seen = r.seen /\ l.role = r.role /\ l.view = r.view
    BY LeftRow DEF Ready
  <2> HIDE DEF l
  <2>2. CASE Shown(r) = None
    <3>1. Shows(r) = [l EXCEPT !.form = None]
      BY <1>2, <2>2 DEF Shows, l
    <3> DEFINE q == [l EXCEPT !.form = None]
    <3>2. /\ q \in Row /\ SameSession(q, r) /\ q.form = None
          /\ q.seen = r.seen /\ q.role = r.role /\ q.view = r.view
      BY <2>1 DEF Row, SameSession
    <3>3. Shown(q) = None
      BY <2>2, <3>2 DEF Shown
    <3>4. KindOf(q.form) = None /\ Shows(r) = q
      BY <3>1, <3>2 DEF KindOf
    <3> HIDE DEF q
    <3>5. Fits(q) /\ Flagged(q)
      BY <3>2, <3>3, <3>4 DEF Fits, Ready, SameSession, Flagged
    <3> QED BY <1>2, <2>2, <3>2, <3>4, <3>5
  <2>3. CASE Shown(r) # None
    <3>1. PICK d \in BOOLEAN, b \in BOOLEAN :
             d = (l.dirty /\ Shown(r) = "student-ai") /\ b = (l.busy /\ Shown(r) = "student-ai")
      OBVIOUS
    <3> DEFINE f == NewForm(Shown(r), r.shown)
               q == [l EXCEPT !.form = f, !.dirty = d, !.busy = b]
    <3>2. Shows(r) = q
      BY <1>2, <2>3, <3>1 DEF Shows, l
    <3>3. Shown(r) \in Forms /\ Shown(r) = r.view /\ r.shown \in Accounts
      BY <2>3 DEF Shown, Forms, AdminViews, Ready, Row
    <3>4. /\ f \in FormRow /\ f.kind = Shown(r) /\ f.by = r.shown /\ ~f.changed /\ ~f.saving
      BY <3>3 DEF NewForm, FormRow
    <3> HIDE DEF f
    <3>5. /\ q \in Row /\ SameSession(q, r) /\ q.form = f
          /\ q.seen = r.seen /\ q.role = r.role /\ q.view = r.view
      <4>1. q \in Row
        BY <2>1, <3>4 DEF Row
      <4>2. /\ q.memory = l.memory /\ q.checking = l.checking /\ q.shown = l.shown
            /\ q.role = l.role /\ q.logged = l.logged /\ q.seen = l.seen
            /\ q.view = l.view /\ q.form = f
        BY <2>1 DEF Row
      <4> HIDE DEF q
      <4> QED BY <2>1, <4>1, <4>2 DEF SameSession
    <3>6. Shown(q) = Shown(r)
      BY <3>5 DEF Shown
    <3> HIDE DEF q
    <3>7. f # None
      BY <3>4, ConsoleConstants DEF ConsoleAssumption
    <3>8. KindOf(q.form) = Shown(q)
      BY <3>4, <3>5, <3>6, <3>7 DEF KindOf
    <3>9. Fits(q) /\ Flagged(q)
      BY <3>4, <3>5, <3>8 DEF Fits, Ready, SameSession, Flagged
    <3> QED BY <1>2, <2>3, <3>2, <3>5, <3>6, <3>8, <3>9
  <2> QED BY <2>2, <2>3
<1> QED BY <1>1, <1>2

LEMMA AcceptedRow ==
    ASSUME NEW r, Fits(r), NEW a \in Accounts, role \in [Accounts -> Roles]
    PROVE  /\ Fits(Accepted(r, a)) /\ Accepted(r, a).memory = r.memory
           /\ Accepted(r, a).checking = r.checking /\ Accepted(r, a).shown = a
           /\ Flagged(r) => Flagged(Accepted(r, a))
           /\ KindOf(Accepted(r, a).form) = KindOf(r.form) => Accepted(r, a).form = r.form
<1>1. PICK other \in BOOLEAN : other = (r.shown # None /\ r.shown # a)
  OBVIOUS
<1>2. PICK v : v = IF other \/ (role[a] # "admin" /\ r.view \in AdminViews) THEN "overview" ELSE r.view
  OBVIOUS
<1>3. PICK d \in BOOLEAN : d = (r.dirty /\ ~other)
  OBVIOUS
<1>4. v \in Views /\ role[a] \in Roles
  BY <1>2 DEF Fits, Row, Views
<1> DEFINE q == [r EXCEPT !.shown = a, !.role = role[a], !.logged = TRUE, !.seen = TRUE,
                          !.view = v, !.dirty = d]
<1>5. Accepted(r, a) = Shows(q)
  BY <1>1, <1>2, <1>3, Zenon DEF Accepted
<1>6. /\ q.memory = r.memory /\ q.checking = r.checking /\ q.shown = a /\ q.seen /\ q.logged
      /\ q.view = v /\ q.form = r.form /\ q.dirty = d /\ q.busy = r.busy
  BY DEF Fits, Row
<1>7. q \in Row
  BY <1>4 DEF Fits, Row
<1>8. a # None /\ "overview" \notin Forms
  BY ConsoleConstants DEF ConsoleAssumption, Forms, AdminViews
<1> HIDE DEF q
<1>9. other => Shown(q) = None
  BY <1>2, <1>6 DEF Shown, AdminViews
<1>10. Ready(q)
  <2>1. ASSUME r.form # None PROVE q.form.by = q.shown \/ KindOf(q.form) # Shown(q)
    <3>1. CASE other
      <4>1. KindOf(q.form) # None
        BY <1>6, <2>1, ConsoleConstants DEF ConsoleAssumption, KindOf, Fits, Row, FormRow, Views
      <4> QED BY <1>9, <3>1, <4>1
    <3>2. CASE ~other
      <4>1. r.shown # None
        BY <2>1, ConsoleConstants
           DEF Fits, Shown, KindOf, Row, FormRow, ConsoleAssumption, Views
      <4> QED BY <1>1, <1>6, <2>1, <3>2, <4>1 DEF Fits
    <3> QED BY <1>1, <3>1, <3>2
  <2> QED BY <1>6, <1>7, <1>8, <2>1 DEF Ready
<1>11. Flagged(r) /\ ~other => Flagged(q)
  BY <1>3, <1>6 DEF Flagged
<1> QED BY <1>5, <1>6, <1>9, <1>10, <1>11, ShowsRow DEF SameSession, Flagged

\* A session that is over leaves the page as it is.
LEMMA ExpiredRow ==
    ASSUME NEW r, Fits(r)
    PROVE  /\ Fits(Expired(r)) /\ Expired(r).memory = None /\ ~Expired(r).logged
           /\ Expired(r).form = r.form /\ Expired(r).checking = r.checking
           /\ Flagged(r) => Flagged(Expired(r))
<1> DEFINE q == [r EXCEPT !.memory = None, !.logged = FALSE]
<1>1. /\ q \in Row /\ q.memory = None /\ ~q.logged /\ q.form = r.form /\ q.seen = r.seen
      /\ q.view = r.view /\ q.role = r.role /\ q.shown = r.shown /\ q.dirty = r.dirty
      /\ q.busy = r.busy /\ q.checking = r.checking
  BY DEF Fits, Row
<1>2. Expired(r) = q
  BY DEF Expired
<1> HIDE DEF q
<1> QED BY <1>1, <1>2 DEF Fits, Shown, Flagged

\* Only flags of the tab and of its mounted form changed.
SameForm(q, r) ==
    /\ q \in Row /\ q.form \in FormRow /\ SameSession(q, r)
    /\ q.seen = r.seen /\ q.role = r.role /\ q.view = r.view
    /\ q.form.kind = r.form.kind /\ q.form.by = r.form.by

LEMMA FormChanges ==
    ASSUME NEW r, Fits(r), r.form # None, NEW q, SameForm(q, r)
    PROVE  Fits(q) /\ KindOf(q.form) = KindOf(r.form) /\ q.form # None
<1>1. q.form # None
  BY ConsoleConstants DEF ConsoleAssumption, SameForm
<1>2. KindOf(q.form) = KindOf(r.form) /\ Shown(q) = Shown(r)
  BY <1>1 DEF KindOf, Shown, SameForm
<1> QED BY <1>1, <1>2 DEF Fits, SameForm, SameSession

\* The end of a save: of the form that is mounted, or of one that is gone.
LEMMA DoneRow ==
    ASSUME NEW r, Fits(r), NEW c, c.gone \in BOOLEAN, ~c.gone => r.form # None,
           NEW saved \in BOOLEAN
    PROVE  /\ Fits(Done(r, c, saved)) /\ SameSession(Done(r, c, saved), r)
           /\ KindOf(Done(r, c, saved).form) = KindOf(r.form)
           /\ c.gone => Done(r, c, saved).form = r.form
           /\ ~c.gone => Done(r, c, saved).form # None
           /\ Flagged(r) /\ (c.gone => c.kind # "student-ai") => Flagged(Done(r, c, saved))
<1>1. CASE c.gone
  <2>1. PICK b \in BOOLEAN : b = IF c.kind = "student-ai" THEN FALSE ELSE r.busy
    BY DEF Fits, Row
  <2>2. PICK d \in BOOLEAN : d = IF saved /\ c.kind = "student-ai" THEN FALSE ELSE r.dirty
    BY DEF Fits, Row
  <2> DEFINE q == [r EXCEPT !.form = r.form, !.busy = b, !.dirty = d]
  <2>3. Done(r, c, saved) = q
    BY <1>1, <2>1, <2>2 DEF Done
  <2>4. /\ q \in Row /\ q.memory = r.memory /\ q.checking = r.checking /\ q.shown = r.shown
        /\ q.role = r.role /\ q.logged = r.logged /\ q.seen = r.seen
        /\ q.view = r.view /\ q.form = r.form /\ q.dirty = d /\ q.busy = b
    BY DEF Fits, Row
  <2> HIDE DEF q
  <2>5. Fits(q) /\ SameSession(q, r)
    BY <2>4 DEF Fits, SameSession, Shown
  <2> QED BY <1>1, <2>1, <2>2, <2>3, <2>4, <2>5 DEF Flagged
<1>2. CASE ~c.gone
  <2>1. PICK x \in BOOLEAN : x = IF ~saved THEN r.form.changed ELSE FALSE
    BY <1>2 DEF Fits, Row, FormRow
  <2>2. PICK d \in BOOLEAN : d = IF saved THEN FALSE ELSE r.dirty
    BY DEF Fits, Row
  <2> DEFINE f == [r.form EXCEPT !.saving = FALSE, !.changed = x]
             z == [r EXCEPT !.form = f, !.busy = FALSE, !.dirty = d]
  <2>3. Done(r, c, saved) = z
    BY <1>2, <2>1, <2>2 DEF Done
  <2>4. /\ f \in FormRow /\ f.kind = r.form.kind /\ f.by = r.form.by
        /\ ~f.saving /\ f.changed = x
    BY <1>2 DEF Fits, Row, FormRow
  <2> HIDE DEF f
  <2>5. z \in Row /\ z.form = f /\ SameSession(z, r) /\ ~z.busy /\ z.dirty = d
    BY <2>4 DEF Fits, Row, SameSession
  <2>6. z.seen = r.seen /\ z.role = r.role /\ z.view = r.view
    BY DEF Fits, Row
  <2> HIDE DEF z
  <2>7. SameForm(z, r)
    BY <2>4, <2>5, <2>6 DEF SameForm
  <2>8. Fits(z) /\ KindOf(z.form) = KindOf(r.form) /\ z.form # None
    BY <1>2, <2>7, FormChanges
  <2> QED BY <1>2, <2>1, <2>2, <2>3, <2>4, <2>5, <2>8 DEF Flagged
<1> QED BY <1>1, <1>2

-----------------------------------------------------------------------------
(* The frame: what holds of all tabs and their requests *)

\* A save whose form is still mounted.
Live(c) == c.kind \in Forms /\ ~c.gone

TypesInv ==
    /\ role \in [Accounts -> Roles] /\ valid \subseteq Token /\ issued \in 0..MaxTokens
    /\ stored \in Token \cup {None}
    /\ tab \in [Tabs -> Row] /\ \A t \in Tabs : Fits(tab[t])
    /\ calls \subseteq Request

\* A save under way is the mounted form's, and its only one.
SavesInv ==
    /\ \A c \in calls : Live(c) =>
          /\ tab[c.tab].form # None /\ tab[c.tab].form.saving
          /\ tab[c.tab].form.kind = c.kind
    /\ \A c, d \in calls : Live(c) /\ Live(d) /\ c.tab = d.tab => c = d

\* A tab that looks up its session does nothing else.
CheckInv ==
    /\ \A t \in Tabs : tab[t].checking => ~tab[t].logged /\ tab[t].memory = None
    /\ \A c \in calls : /\ c.kind = "me" <=> tab[c.tab].checking
                        /\ c.kind = "me" => c.token \in Token
    /\ \A c, d \in calls : c.kind = "me" /\ d.kind = "me" /\ c.tab = d.tab => c = d

\* The browser's storage is nobody else's.
OneTab == \A s, t \in Tabs : s = t

\* The token in a tab's memory is of the account that is shown, and with one tab
\* the stored one, too.
SentInv ==
    /\ \A t \in Tabs : tab[t].logged /\ tab[t].memory # None => tab[t].memory.of = tab[t].shown
    /\ OneTab => \A t \in Tabs :
          tab[t].logged /\ tab[t].memory = None /\ stored # None => stored.of = tab[t].shown
    /\ OneTab => \A c \in calls : c.kind = "me" => stored = c.token

FrameInv == TypesInv /\ SavesInv /\ CheckInv /\ SentInv

\* No save of a form for the students' assistant that is gone is under way.
NothingLate == \A c \in calls : ~(c.gone /\ c.kind = "student-ai")

AllFlagged == \A t \in Tabs : Flagged(tab[t])

LEMMA OrphanedCalls ==
    ASSUME TypesInv, NEW t \in Tabs, NEW r
    PROVE  /\ Orphaned(t, r) \subseteq Request
           /\ \A e \in Orphaned(t, r) :
                 /\ Live(e) => e \in calls /\ (e.tab = t => KindOf(r.form) = KindOf(tab[t].form))
                 /\ e.kind = "me" => e \in calls
                 /\ \E d \in calls : d.tab = e.tab /\ d.kind = e.kind
<1>1. CASE KindOf(r.form) = KindOf(tab[t].form)
  <2>1. Orphaned(t, r) = calls
    BY <1>1 DEF Orphaned
  <2> QED BY <1>1, <2>1 DEF TypesInv
<1>2. CASE KindOf(r.form) # KindOf(tab[t].form)
  <2>1. SUFFICES ASSUME NEW e \in Orphaned(t, r)
                 PROVE  /\ e \in Request
                        /\ Live(e) => e \in calls /\ e.tab # t
                        /\ e.kind = "me" => e \in calls
                        /\ \E d \in calls : d.tab = e.tab /\ d.kind = e.kind
    BY <1>2
  <2>2. PICK d \in calls :
           e = IF d.tab = t /\ d.kind \in Forms THEN [d EXCEPT !.gone = TRUE] ELSE d
    BY <1>2 DEF Orphaned
  <2>3. d \in Request
    BY DEF TypesInv
  <2>4. CASE d.tab = t /\ d.kind \in Forms
    <3>1. e = [d EXCEPT !.gone = TRUE]
      BY <2>2, <2>4
    <3>2. e \in Request /\ e.tab = d.tab /\ e.kind = d.kind /\ e.gone
      BY <2>3, <3>1 DEF Request
    <3> QED BY <2>4, <3>2 DEF Live, Forms, AdminViews
  <2>5. CASE ~(d.tab = t /\ d.kind \in Forms)
    BY <2>2, <2>3, <2>5 DEF Live
  <2> QED BY <2>4, <2>5
<1> QED BY <1>1, <1>2

\* One tab gets a row that fits, and its requests are those of before, with no
\* save of another form and without those that are answered.
LEMMA RowReplaced ==
    ASSUME TypesInv, SavesInv, NEW t \in Tabs, NEW r, Fits(r),
           NEW cs, cs \subseteq Orphaned(t, r),
           KindOf(r.form) = KindOf(tab[t].form) =>
              r.form = tab[t].form \/ \A e \in cs : Live(e) => e.tab # t,
           tab' = [tab EXCEPT ![t] = r], calls' = cs
    PROVE  /\ tab' \in [Tabs -> Row] /\ \A s \in Tabs : Fits(tab'[s])
           /\ calls' \subseteq Request /\ SavesInv'
           /\ tab'[t] = r /\ \A s \in Tabs \ {t} : tab'[s] = tab[s]
           /\ (Flagged(tab[t]) => Flagged(r)) => (AllFlagged => AllFlagged')
<1>1. /\ tab'[t] = r /\ \A s \in Tabs \ {t} : tab'[s] = tab[s]
      /\ tab' \in [Tabs -> Row]
  BY DEF TypesInv, Fits
<1>2. cs \subseteq Request
  BY OrphanedCalls
<1>3. ASSUME NEW e \in cs, Live(e)
      PROVE  /\ e \in calls /\ tab'[e.tab].form # None /\ tab'[e.tab].form.saving
             /\ tab'[e.tab].form.kind = e.kind
  <2>1. e \in calls /\ (e.tab = t => KindOf(r.form) = KindOf(tab[t].form)) /\ e.tab \in Tabs
    BY <1>2, <1>3, OrphanedCalls DEF Request
  <2>2. /\ tab[e.tab].form # None /\ tab[e.tab].form.saving
        /\ tab[e.tab].form.kind = e.kind
    BY <1>3, <2>1 DEF SavesInv
  <2>3. tab'[e.tab].form = tab[e.tab].form
    BY <1>1, <1>3, <2>1
  <2> QED BY <2>1, <2>2, <2>3
<1>4. SavesInv'
  <2>1. \A e \in cs : Live(e) => /\ tab'[e.tab].form # None /\ tab'[e.tab].form.saving
                                 /\ tab'[e.tab].form.kind = e.kind
    BY <1>3
  <2>2. \A e, d \in cs : Live(e) /\ Live(d) /\ e.tab = d.tab => e = d
    BY <1>3 DEF SavesInv
  <2> QED BY <2>1, <2>2 DEF SavesInv, Live
<1>5. \A s \in Tabs : Fits(tab'[s])
  BY <1>1 DEF TypesInv
<1>6. (Flagged(tab[t]) => Flagged(r)) => (AllFlagged => AllFlagged')
  BY <1>1 DEF AllFlagged, Flagged
<1> QED BY <1>1, <1>2, <1>4, <1>5, <1>6

\* A request is answered, and the tab does not look up its session any more.
LEMMA BecomesKeeps ==
    ASSUME FrameInv, NEW t \in Tabs, NEW c \in Calls(t), NEW r, Fits(r), ~r.checking,
           Becomes(t, r, c),
           KindOf(r.form) = KindOf(tab[t].form) => r.form = tab[t].form \/ Live(c),
           r.logged /\ r.memory # None => r.memory.of = r.shown,
           OneTab => (r.logged /\ r.memory = None /\ stored' # None => stored'.of = r.shown)
    PROVE  /\ tab' \in [Tabs -> Row] /\ \A s \in Tabs : Fits(tab'[s])
           /\ calls' \subseteq Request /\ SavesInv' /\ CheckInv' /\ SentInv'
           /\ (Flagged(tab[t]) => Flagged(r)) => (AllFlagged => AllFlagged')
<1> DEFINE cs == Orphaned(t, r) \ {c}
<1>1. c \in calls /\ c.tab = t /\ tab' = [tab EXCEPT ![t] = r] /\ calls' = cs
  BY DEF Calls, Becomes
<1>2. \A e \in cs : /\ Live(e) => e \in calls
                    /\ e.kind = "me" => e \in calls
                    /\ e # c /\ \E d \in calls : d.tab = e.tab /\ d.kind = e.kind
  BY OrphanedCalls DEF FrameInv
<1>3. cs \subseteq Orphaned(t, r)
  OBVIOUS
<1> HIDE DEF cs
<1>4. KindOf(r.form) = KindOf(tab[t].form) =>
         r.form = tab[t].form \/ \A e \in cs : Live(e) => e.tab # t
  BY <1>1, <1>2 DEF FrameInv, SavesInv
<1>i. TypesInv /\ SavesInv
  BY DEF FrameInv
<1>5. /\ tab' \in [Tabs -> Row] /\ \A s \in Tabs : Fits(tab'[s])
      /\ calls' \subseteq Request /\ SavesInv'
      /\ tab'[t] = r /\ \A s \in Tabs \ {t} : tab'[s] = tab[s]
      /\ (Flagged(tab[t]) => Flagged(r)) => (AllFlagged => AllFlagged')
  BY <1>i, <1>1, <1>3, <1>4, RowReplaced
<1>6. \A e \in cs : e.tab \in Tabs
  BY <1>1, <1>5 DEF Request
<1>7. \A e \in cs : e.tab = t => e.kind # "me"
  BY <1>1, <1>2 DEF FrameInv, CheckInv
<1>8. CheckInv'
  <2>1. \A s \in Tabs : tab'[s].checking => ~tab'[s].logged /\ tab'[s].memory = None
    BY <1>5 DEF FrameInv, CheckInv
  <2>2. ASSUME NEW e \in cs
        PROVE  /\ e.kind = "me" <=> tab'[e.tab].checking
               /\ e.kind = "me" => e.token \in Token
    <3>1. CASE e.tab = t
      BY <1>5, <1>7, <3>1
    <3>2. CASE e.tab # t
      <4>1. tab'[e.tab] = tab[e.tab]
        BY <1>5, <1>6, <3>2
      <4> QED BY <1>2, <4>1 DEF FrameInv, CheckInv
    <3> QED BY <3>1, <3>2
  <2>3. \A e, d \in cs : e.kind = "me" /\ d.kind = "me" /\ e.tab = d.tab => e = d
    BY <1>2 DEF FrameInv, CheckInv
  <2> QED BY <1>1, <2>1, <2>2, <2>3 DEF CheckInv
<1>9. SentInv'
  <2>1. \A s \in Tabs : tab'[s].logged /\ tab'[s].memory # None => tab'[s].memory.of = tab'[s].shown
    BY <1>5 DEF FrameInv, SentInv
  <2>2. OneTab => \A s \in Tabs :
           tab'[s].logged /\ tab'[s].memory = None /\ stored' # None => stored'.of = tab'[s].shown
    BY <1>5 DEF OneTab
  <2>3. OneTab => \A e \in cs : e.kind # "me"
    BY <1>6, <1>7 DEF OneTab
  <2> QED BY <1>1, <2>1, <2>2, <2>3 DEF SentInv, OneTab
<1> QED BY <1>5, <1>8, <1>9

-----------------------------------------------------------------------------
(* The frame: the actions *)

FlagsKept == NothingLate /\ AllFlagged => AllFlagged'

LEMMA OpenKeeps ==
    ASSUME FrameInv, NEW t \in Tabs, Open(t)
    PROVE  FrameInv' /\ FlagsKept
<1>1. PICK v \in Views : tab' = [tab EXCEPT ![t] = [NewTab(v) EXCEPT !.checking = (stored # None)]]
  BY DEF Open
<1>2. PICK k \in BOOLEAN : k = (stored # None)
  OBVIOUS
<1> DEFINE r == [NewTab(v) EXCEPT !.checking = k]
           own == IF stored = None THEN {}
                  ELSE {[tab |-> t, kind |-> "me", token |-> stored, gone |-> FALSE]}
<1>3. tab' = [tab EXCEPT ![t] = r]
  BY <1>1, <1>2
<1>4. /\ r.memory = None /\ r.checking = k /\ r.shown = None /\ ~r.logged /\ ~r.seen
      /\ r.form = None /\ r.view = v /\ r \in Row
  BY DEF NewTab, Row
<1> HIDE DEF r
<1>5. Fits(r) /\ Flagged(r)
  BY <1>4 DEF Fits, Flagged, KindOf, Shown
<1>6. /\ tab'[t] = r /\ \A s \in Tabs \ {t} : tab'[s] = tab[s]
      /\ tab' \in [Tabs -> Row]
  BY <1>3, <1>4 DEF FrameInv, TypesInv
<1>7. /\ calls' = {c \in calls : c.tab # t} \cup own
      /\ UNCHANGED <<role, valid, issued, stored>>
  BY DEF Open
<1>8. \A e \in own : /\ e \in Request /\ e.tab = t /\ e.kind = "me" /\ e.token = stored
                     /\ ~Live(e) /\ stored # None /\ e.token \in Token
                     /\ \A d \in own : d = e
  <2>1. SUFFICES ASSUME NEW e \in own
                 PROVE  /\ e \in Request /\ e.tab = t /\ e.kind = "me" /\ e.token = stored
                        /\ ~Live(e) /\ stored # None /\ e.token \in Token
                        /\ \A d \in own : d = e
    OBVIOUS
  <2>2. /\ stored # None /\ stored \in Token
        /\ own = {[tab |-> t, kind |-> "me", token |-> stored, gone |-> FALSE]}
    BY DEF FrameInv, TypesInv
  <2>3. e = [tab |-> t, kind |-> "me", token |-> stored, gone |-> FALSE]
    BY <2>2
  <2>4. e \in Request /\ e.tab = t /\ e.kind = "me" /\ e.token = stored
    BY <2>2, <2>3 DEF Request
  <2> QED BY <2>2, <2>3, <2>4 DEF Live, Forms, AdminViews
<1> HIDE DEF own
<1>9. TypesInv'
  BY <1>5, <1>6, <1>7, <1>8 DEF FrameInv, TypesInv
<1>10. \A e \in calls' : \/ e \in own
                         \/ e \in calls /\ e.tab \in Tabs \ {t} /\ tab'[e.tab] = tab[e.tab]
  BY <1>6, <1>7 DEF FrameInv, TypesInv, Request
<1>11. SavesInv'
  BY <1>8, <1>10 DEF FrameInv, SavesInv, Live
<1>12. CheckInv'
  <2>1. \A s \in Tabs : tab'[s].checking => ~tab'[s].logged /\ tab'[s].memory = None
    BY <1>4, <1>6 DEF FrameInv, CheckInv
  <2>2. \A e \in calls' : /\ e.kind = "me" <=> tab'[e.tab].checking
                          /\ e.kind = "me" => e.token \in Token
    BY <1>2, <1>4, <1>6, <1>8, <1>10 DEF FrameInv, CheckInv
  <2>3. \A c, d \in calls' : c.kind = "me" /\ d.kind = "me" /\ c.tab = d.tab => c = d
    BY <1>8, <1>10 DEF FrameInv, CheckInv
  <2> QED BY <2>1, <2>2, <2>3 DEF CheckInv
<1>13. SentInv'
  <2>1. \A s \in Tabs : tab'[s].logged => s # t
    BY <1>4, <1>6
  <2>2. OneTab => \A e \in calls' : e \in own
    BY <1>10 DEF OneTab
  <2> QED BY <1>6, <1>7, <1>8, <2>1, <2>2 DEF FrameInv, SentInv, OneTab
<1>14. FlagsKept
  BY <1>5, <1>6 DEF FlagsKept, AllFlagged
<1> QED BY <1>9, <1>11, <1>12, <1>13, <1>14 DEF FrameInv

LEMMA RestoredKeeps ==
    ASSUME FrameInv, NEW t \in Tabs, Restored(t)
    PROVE  FrameInv' /\ FlagsKept
<1>1. PICK c \in Calls(t) :
         /\ c.kind = "me" /\ Accepts(c.token)
         /\ LET a == c.token.of
                r == [tab[t] EXCEPT !.checking = FALSE]
            IN IF role[a] = "student"
               THEN stored' = None /\ Becomes(t, [r EXCEPT !.memory = None], c)
               ELSE UNCHANGED stored /\ Becomes(t, Accepted(r, a), c)
         /\ UNCHANGED <<role, valid, issued>>
  BY DEF Restored
<1> DEFINE a == c.token.of
           q == [tab[t] EXCEPT !.checking = FALSE]
<1>2. /\ c \in calls /\ c.tab = t /\ c.token \in Token /\ a \in Accounts
      /\ tab[t].checking /\ ~tab[t].logged /\ tab[t].memory = None
  BY <1>1 DEF FrameInv, CheckInv, Calls, Token
<1>3. Fits(tab[t]) /\ role \in [Accounts -> Roles]
  BY DEF FrameInv, TypesInv
<1>r. tab[t] \in Row
  BY <1>3 DEF Fits
<1>q. q \in Row
  BY <1>r DEF Row
<1>4. /\ q \in Row /\ q.memory = None /\ ~q.checking /\ q.shown = tab[t].shown
      /\ ~q.logged /\ q.seen = tab[t].seen /\ q.view = tab[t].view /\ q.role = tab[t].role
      /\ q.dirty = tab[t].dirty /\ q.busy = tab[t].busy /\ q.form = tab[t].form
  <2>1. PICK f \in Row : f = tab[t]
    BY <1>r
  <2>2. q = [f EXCEPT !.checking = FALSE]
    BY <2>1
  <2> HIDE DEF q
  <2> QED BY <1>q, <1>2, <2>1, <2>2 DEF Row
<1> HIDE DEF q
<1>5. Fits(q) /\ (Flagged(tab[t]) => Flagged(q))
  BY <1>3, <1>4 DEF Fits, Shown, Flagged
<1>6. CASE role[a] = "student"
  <2> DEFINE r == [q EXCEPT !.memory = None]
  <2>1. r = q
    BY <1>4 DEF Row
  <2>2. Becomes(t, r, c) /\ stored' = None
    BY <1>1, <1>6 DEF q
  <2> HIDE DEF r
  <2>3. /\ tab' \in [Tabs -> Row] /\ \A s \in Tabs : Fits(tab'[s])
        /\ calls' \subseteq Request /\ SavesInv' /\ CheckInv' /\ SentInv'
        /\ (Flagged(tab[t]) => Flagged(r)) => (AllFlagged => AllFlagged')
    BY <1>4, <1>5, <2>1, <2>2, BecomesKeeps
  <2> QED BY <1>1, <1>5, <2>1, <2>2, <2>3 DEF FrameInv, TypesInv, FlagsKept
<1>7. CASE role[a] # "student"
  <2> DEFINE r == Accepted(q, a)
  <2>1. /\ Fits(r) /\ r.memory = q.memory /\ r.checking = q.checking /\ r.shown = a
        /\ Flagged(q) => Flagged(r)
        /\ KindOf(r.form) = KindOf(q.form) => r.form = q.form
    BY <1>2, <1>3, <1>5, AcceptedRow
  <2>3. Becomes(t, r, c) /\ stored' = stored
    BY <1>1, <1>7 DEF q
  <2>4. OneTab => stored = c.token
    BY <1>1, <1>2 DEF FrameInv, SentInv
  <2> HIDE DEF r
  <2>5. /\ tab' \in [Tabs -> Row] /\ \A s \in Tabs : Fits(tab'[s])
        /\ calls' \subseteq Request /\ SavesInv' /\ CheckInv' /\ SentInv'
        /\ (Flagged(tab[t]) => Flagged(r)) => (AllFlagged => AllFlagged')
    BY <1>4, <1>5, <2>1, <2>3, <2>4, BecomesKeeps
  <2> QED BY <1>1, <1>5, <2>1, <2>3, <2>5 DEF FrameInv, TypesInv, FlagsKept
<1> QED BY <1>6, <1>7

LEMMA RestoreFailsKeeps ==
    ASSUME FrameInv, NEW t \in Tabs, RestoreFails(t)
    PROVE  FrameInv' /\ FlagsKept
<1>1. PICK c \in Calls(t) :
         /\ c.kind = "me" /\ stored' = None
         /\ Becomes(t, [Expired(tab[t]) EXCEPT !.checking = FALSE], c)
         /\ UNCHANGED <<role, valid, issued>>
  BY DEF RestoreFails
<1> DEFINE q == Expired(tab[t])
           r == [q EXCEPT !.checking = FALSE]
<1>2. /\ Fits(q) /\ q.memory = None /\ ~q.logged /\ q.form = tab[t].form
      /\ Flagged(tab[t]) => Flagged(q)
  BY ExpiredRow DEF FrameInv, TypesInv
<1> HIDE DEF q
<1>3. /\ r \in Row /\ r.memory = None /\ ~r.checking /\ r.shown = q.shown
      /\ ~r.logged /\ r.seen = q.seen /\ r.view = q.view /\ r.role = q.role
      /\ r.dirty = q.dirty /\ r.busy = q.busy /\ r.form = q.form
  BY <1>2 DEF Fits, Row
<1>4. Becomes(t, r, c)
  BY <1>1 DEF q
<1> HIDE DEF r
<1>5. Fits(r) /\ (Flagged(q) => Flagged(r))
  BY <1>2, <1>3 DEF Fits, Shown, Flagged
<1>6. /\ tab' \in [Tabs -> Row] /\ \A s \in Tabs : Fits(tab'[s])
      /\ calls' \subseteq Request /\ SavesInv' /\ CheckInv' /\ SentInv'
      /\ (Flagged(tab[t]) => Flagged(r)) => (AllFlagged => AllFlagged')
  BY <1>2, <1>3, <1>4, <1>5, BecomesKeeps
<1> QED BY <1>1, <1>2, <1>5, <1>6 DEF FrameInv, TypesInv, FlagsKept

\* The session ends with the answer to a request: the tab is no longer signed in.
LEMMA ExpiredKeeps ==
    ASSUME FrameInv, NEW t \in Tabs, NEW c \in Calls(t), c.kind # "me", NEW q, Fits(q),
           KindOf(q.form) = KindOf(tab[t].form) => q.form = tab[t].form \/ Live(c),
           q.checking = tab[t].checking, NothingLate /\ Flagged(tab[t]) => Flagged(q),
           Becomes(t, Expired(q), c), stored' = None, UNCHANGED <<role, valid, issued>>
    PROVE  FrameInv' /\ FlagsKept
<1> DEFINE r == Expired(q)
<1>1. /\ Fits(r) /\ r.memory = None /\ ~r.logged /\ r.form = q.form
      /\ r.checking = q.checking /\ (Flagged(q) => Flagged(r))
  BY ExpiredRow
<1>2. ~tab[t].checking
  BY DEF FrameInv, CheckInv, Calls
<1> HIDE DEF r
<1>3. /\ tab' \in [Tabs -> Row] /\ \A s \in Tabs : Fits(tab'[s])
      /\ calls' \subseteq Request /\ SavesInv' /\ CheckInv' /\ SentInv'
      /\ (Flagged(tab[t]) => Flagged(r)) => (AllFlagged => AllFlagged')
  <2>1. Becomes(t, r, c)
    BY DEF r
  <2>2. KindOf(r.form) = KindOf(tab[t].form) => r.form = tab[t].form \/ Live(c)
    BY <1>1
  <2>3. OneTab => (r.logged /\ r.memory = None /\ stored' # None => stored'.of = r.shown)
    BY <1>1
  <2>4. r.logged /\ r.memory # None => r.memory.of = r.shown
    BY <1>1
  <2>5. ~r.checking /\ Fits(r)
    BY <1>1, <1>2
  <2> QED BY <2>1, <2>2, <2>3, <2>4, <2>5, BecomesKeeps
<1>4. FlagsKept
  <2>1. AllFlagged => Flagged(tab[t])
    BY DEF AllFlagged
  <2>2. NothingLate /\ AllFlagged => Flagged(q)
    BY <2>1
  <2>3. Flagged(q) => Flagged(r)
    BY <1>1
  <2>4. NothingLate /\ AllFlagged => AllFlagged'
    BY <1>3, <2>2, <2>3
  <2> QED BY <2>4 DEF FlagsKept
<1> QED BY <1>3, <1>4 DEF FrameInv, TypesInv

\* A request that asks for no session and saves nothing is sent.
LEMMA AddedCall ==
    ASSUME FrameInv, NEW t \in Tabs, NEW c \in Request, c.tab = t, c.kind # "me", ~Live(c),
           ~tab[t].checking, calls' = calls \cup {c},
           UNCHANGED <<role, valid, issued, stored, tab>>
    PROVE  FrameInv' /\ FlagsKept
<1>1. TypesInv' /\ SavesInv'
  BY DEF FrameInv, TypesInv, SavesInv, Live
<1>2. CheckInv'
  BY DEF FrameInv, CheckInv
<1>3. SentInv'
  BY DEF FrameInv, SentInv, OneTab
<1>4. FlagsKept
  BY DEF FlagsKept, AllFlagged
<1> QED BY <1>1, <1>2, <1>3, <1>4 DEF FrameInv

\* The user leaves a page; nothing is answered.
LEMMA PageChanges ==
    ASSUME FrameInv, NEW t \in Tabs, NEW r, Fits(r), Flagged(r), ~tab[t].checking, ~r.checking,
           KindOf(r.form) = KindOf(tab[t].form) => r.form = tab[t].form,
           \/ ~r.logged
           \/ /\ r.logged = tab[t].logged /\ r.memory = tab[t].memory
              /\ r.shown = tab[t].shown /\ stored' = stored,
           tab' = [tab EXCEPT ![t] = r], calls' = Orphaned(t, r),
           stored' \in {stored, None}, UNCHANGED <<role, valid, issued>>
    PROVE  FrameInv' /\ FlagsKept
<1> DEFINE cs == Orphaned(t, r)
<1>1. \A e \in cs : /\ e.kind = "me" => e \in calls
                    /\ \E d \in calls : d.tab = e.tab /\ d.kind = e.kind
  BY OrphanedCalls DEF FrameInv
<1>2. /\ tab' \in [Tabs -> Row] /\ \A s \in Tabs : Fits(tab'[s])
      /\ calls' \subseteq Request /\ SavesInv'
      /\ tab'[t] = r /\ \A s \in Tabs \ {t} : tab'[s] = tab[s]
      /\ (Flagged(tab[t]) => Flagged(r)) => (AllFlagged => AllFlagged')
  BY RowReplaced DEF FrameInv
<1>3. calls' = cs
  OBVIOUS
<1> HIDE DEF cs
<1>4. \A e \in cs : e.tab \in Tabs
  BY <1>2, <1>3 DEF Request
<1>5. \A e \in cs : e.tab = t => e.kind # "me"
  BY <1>1 DEF FrameInv, CheckInv
<1>6. CheckInv'
  <2>1. \A s \in Tabs : tab'[s].checking => ~tab'[s].logged /\ tab'[s].memory = None
    BY <1>2 DEF FrameInv, CheckInv
  <2>2. ASSUME NEW e \in cs
        PROVE  /\ e.kind = "me" <=> tab'[e.tab].checking
               /\ e.kind = "me" => e.token \in Token
    <3>1. CASE e.tab = t
      BY <1>2, <1>5, <3>1
    <3>2. CASE e.tab # t
      <4>1. tab'[e.tab] = tab[e.tab]
        BY <1>2, <1>4, <3>2
      <4> QED BY <1>1, <4>1 DEF FrameInv, CheckInv
    <3> QED BY <3>1, <3>2
  <2>3. \A e, d \in cs : e.kind = "me" /\ d.kind = "me" /\ e.tab = d.tab => e = d
    BY <1>1 DEF FrameInv, CheckInv
  <2> QED BY <1>3, <2>1, <2>2, <2>3 DEF CheckInv
<1>7. SentInv'
  <2>1. \A s \in Tabs : tab'[s].logged /\ tab'[s].memory # None => tab'[s].memory.of = tab'[s].shown
    BY <1>2 DEF FrameInv, SentInv
  <2>2. OneTab => \A s \in Tabs :
           tab'[s].logged /\ tab'[s].memory = None /\ stored' # None => stored'.of = tab'[s].shown
    BY <1>2 DEF OneTab, FrameInv, SentInv
  <2>3. OneTab => \A e \in cs : e.kind # "me"
    BY <1>4, <1>5 DEF OneTab
  <2> QED BY <1>3, <2>1, <2>2, <2>3 DEF SentInv, OneTab
<1>8. TypesInv'
  BY <1>2 DEF FrameInv, TypesInv
<1> QED BY <1>2, <1>6, <1>7, <1>8 DEF FrameInv, FlagsKept

LEMMA submitKeeps ==
    ASSUME FrameInv, NEW t \in Tabs, submit(t)
    PROVE  FrameInv' /\ FlagsKept
<1> DEFINE c == [tab |-> t, kind |-> "login", token |-> None, gone |-> FALSE]
<1>1. /\ c \in Request /\ c.tab = t /\ c.kind = "login" /\ ~Live(c) /\ ~tab[t].checking
  BY DEF Request, Live, Forms, AdminViews, submit
<1>2. calls' = calls \cup {c} /\ UNCHANGED <<role, valid, issued, stored, tab>>
  BY DEF submit
<1> HIDE DEF c
<1> QED BY <1>1, <1>2, AddedCall

\* handleLogin: the new session is in the tab's memory and in the storage.
LEMMA handleLoginKeeps ==
    ASSUME FrameInv, NEW t \in Tabs, handleLogin(t)
    PROVE  FrameInv' /\ FlagsKept
<1>1. PICK a \in Accounts, c \in Calls(t) :
        /\ c.kind = "login" /\ issued < MaxTokens
        /\ LET token == [of |-> a, n |-> issued + 1] IN
           /\ issued' = issued + 1 /\ valid' = valid \cup {token}
           /\ IF role[a] = "student"
              THEN stored' = None /\ Becomes(t, [tab[t] EXCEPT !.memory = None], c)
              ELSE stored' = token /\ Becomes(t, Accepted([tab[t] EXCEPT !.memory = token], a), c)
        /\ UNCHANGED role
  BY DEF handleLogin
<1> DEFINE token == [of |-> a, n |-> issued + 1]
<1>2. /\ token \in Token /\ token.of = a /\ issued' \in 0..MaxTokens
      /\ valid' \subseteq Token
  BY <1>1, ConsoleConstants DEF ConsoleAssumption, Token, FrameInv, TypesInv
<1>3. Fits(tab[t]) /\ role \in [Accounts -> Roles] /\ ~tab[t].checking
  BY <1>1 DEF FrameInv, TypesInv, CheckInv, Calls
<1>4. CASE role[a] = "student"
  <2> DEFINE r == [tab[t] EXCEPT !.memory = None]
  <2>1. /\ r \in Row /\ r.memory = None /\ ~r.checking /\ r.shown = tab[t].shown
        /\ r.logged = tab[t].logged /\ r.seen = tab[t].seen /\ r.view = tab[t].view
        /\ r.role = tab[t].role /\ r.dirty = tab[t].dirty /\ r.busy = tab[t].busy
        /\ r.form = tab[t].form
    BY <1>3 DEF Fits, Row
  <2>2. Becomes(t, r, c) /\ stored' = None
    BY <1>1, <1>4
  <2> HIDE DEF r
  <2>3. Fits(r) /\ (Flagged(tab[t]) => Flagged(r))
    BY <1>3, <2>1 DEF Fits, Shown, Flagged
  <2>4. /\ tab' \in [Tabs -> Row] /\ \A s \in Tabs : Fits(tab'[s])
        /\ calls' \subseteq Request /\ SavesInv' /\ CheckInv' /\ SentInv'
        /\ (Flagged(tab[t]) => Flagged(r)) => (AllFlagged => AllFlagged')
    BY <2>1, <2>2, <2>3, BecomesKeeps
  <2> QED BY <1>1, <1>2, <2>2, <2>3, <2>4 DEF FrameInv, TypesInv, FlagsKept
<1>5. CASE role[a] # "student"
  <2> DEFINE q == [tab[t] EXCEPT !.memory = token]
             r == Accepted(q, a)
  <2>1. /\ q \in Row /\ q.memory = token /\ ~q.checking /\ q.shown = tab[t].shown
        /\ q.logged = tab[t].logged /\ q.seen = tab[t].seen /\ q.view = tab[t].view
        /\ q.role = tab[t].role /\ q.dirty = tab[t].dirty /\ q.busy = tab[t].busy
        /\ q.form = tab[t].form
    BY <1>2, <1>3 DEF Fits, Row
  <2>2. Becomes(t, r, c) /\ stored' = token
    BY <1>1, <1>5
  <2> HIDE DEF q
  <2>3. Fits(q) /\ (Flagged(tab[t]) => Flagged(q))
    BY <1>3, <2>1 DEF Fits, Shown, Flagged
  <2>4. /\ Fits(r) /\ r.memory = q.memory /\ r.checking = q.checking /\ r.shown = a
        /\ Flagged(q) => Flagged(r)
        /\ KindOf(r.form) = KindOf(q.form) => r.form = q.form
    BY <1>3, <2>3, AcceptedRow
  <2> HIDE DEF r
  <2> HIDE DEF token
  <2>5. /\ KindOf(r.form) = KindOf(tab[t].form) => r.form = tab[t].form
        /\ ~r.checking
        /\ r.memory.of = r.shown /\ stored'.of = r.shown
    BY <1>2, <2>1, <2>2, <2>4
  <2>6. /\ tab' \in [Tabs -> Row] /\ \A s \in Tabs : Fits(tab'[s])
        /\ calls' \subseteq Request /\ SavesInv' /\ CheckInv' /\ SentInv'
        /\ (Flagged(tab[t]) => Flagged(r)) => (AllFlagged => AllFlagged')
    BY <2>2, <2>4, <2>5, BecomesKeeps
  <2> QED BY <1>1, <1>2, <2>2, <2>3, <2>4, <2>6 DEF FrameInv, TypesInv, FlagsKept
<1> QED BY <1>4, <1>5

LEMMA RefusedKeeps ==
    ASSUME FrameInv, NEW t \in Tabs, LoginRefused(t) \/ Refused(t)
    PROVE  FrameInv' /\ FlagsKept
<1>1. PICK c \in Calls(t) :
         /\ c.kind # "me" /\ stored' = None
         /\ Becomes(t, Expired(tab[t]), c)
         /\ UNCHANGED <<role, valid, issued>>
  BY DEF LoginRefused, Refused
<1>2. Fits(tab[t])
  BY DEF FrameInv, TypesInv
<1> QED BY <1>1, <1>2, ExpiredKeeps

LEMMA navToKeeps ==
    ASSUME FrameInv, NEW t \in Tabs, navTo(t)
    PROVE  FrameInv' /\ FlagsKept
<1>1. PICK v \in Views \ {tab[t].view} :
         /\ tab' = [tab EXCEPT ![t] = Shows([tab[t] EXCEPT !.dirty = FALSE, !.view = v])]
         /\ calls' = Orphaned(t, Shows([tab[t] EXCEPT !.dirty = FALSE, !.view = v]))
  BY DEF navTo
<1>2. UNCHANGED <<role, valid, issued, stored>> /\ ~tab[t].checking
  BY DEF navTo
<1>3. Fits(tab[t])
  BY DEF FrameInv, TypesInv
<1> DEFINE q == [tab[t] EXCEPT !.dirty = FALSE, !.view = v]
           r == Shows(q)
<1>4. /\ q \in Row /\ q.memory = tab[t].memory /\ q.checking = tab[t].checking
      /\ q.shown = tab[t].shown /\ q.role = tab[t].role /\ q.logged = tab[t].logged
      /\ q.seen = tab[t].seen /\ q.view = v /\ ~q.dirty /\ q.busy = tab[t].busy
      /\ q.form = tab[t].form
  BY <1>3 DEF Fits, Row
<1>5. tab' = [tab EXCEPT ![t] = r] /\ calls' = Orphaned(t, r)
  BY <1>1
<1> HIDE DEF q
<1>6. q.form # None => KindOf(q.form) # Shown(q)
  <2>1. q.form # None => KindOf(q.form) # None /\ KindOf(q.form) = tab[t].view
    BY <1>3, <1>4, ConsoleConstants
       DEF ConsoleAssumption, KindOf, Fits, Shown, Row, FormRow, Views
  <2> QED BY <1>4, <2>1 DEF Shown
<1>7. Ready(q)
  BY <1>3, <1>4, <1>6 DEF Ready, Fits
<1>8. /\ Fits(r) /\ SameSession(r, q)
      /\ KindOf(q.form) # Shown(q) => Flagged(r)
      /\ KindOf(r.form) = KindOf(q.form) => r.form = q.form
      /\ KindOf(q.form) = Shown(q) => r = q
  BY <1>7, ShowsRow
<1> HIDE DEF r
<1>9. Flagged(r)
  BY <1>6, <1>8 DEF Flagged
<1>10. /\ r.logged = tab[t].logged /\ r.memory = tab[t].memory /\ r.shown = tab[t].shown
       /\ ~r.checking
  BY <1>2, <1>4, <1>8 DEF SameSession
<1> QED BY <1>2, <1>4, <1>5, <1>8, <1>9, <1>10, PageChanges

LEMMA logoutKeeps ==
    ASSUME FrameInv, NEW t \in Tabs, logout(t)
    PROVE  FrameInv' /\ FlagsKept
<1>1. /\ Closed \in Row /\ Closed.form = None /\ ~Closed.seen /\ Closed.shown = None
      /\ ~Closed.logged /\ ~Closed.checking /\ Closed.memory = None
  BY DEF Closed, NewTab, Row, Views
<1>2. Fits(Closed) /\ Flagged(Closed)
  BY <1>1 DEF Fits, KindOf, Shown, Flagged
<1>3. KindOf(Closed.form) = KindOf(tab[t].form) => Closed.form = tab[t].form
  BY <1>1, ConsoleConstants
     DEF ConsoleAssumption, KindOf, FrameInv, TypesInv, Row, FormRow, Views
<1>4. /\ tab' = [tab EXCEPT ![t] = Closed] /\ calls' = Orphaned(t, Closed)
      /\ stored' = None /\ UNCHANGED <<role, valid, issued>> /\ ~tab[t].checking
  BY DEF logout, FrameInv, CheckInv
<1> QED BY <1>1, <1>2, <1>3, <1>4, PageChanges

LEMMA ReadKeeps ==
    ASSUME FrameInv, NEW t \in Tabs, Read(t)
    PROVE  FrameInv' /\ FlagsKept
<1> DEFINE c == Call(t, "read")
<1>1. /\ c \in Request /\ c.tab = t /\ c.kind = "read" /\ ~Live(c) /\ ~tab[t].checking
  <2>1. getToken(t) \in Token \cup {None}
    BY DEF getToken, FrameInv, TypesInv, Row
  <2> QED BY <2>1 DEF Call, Request, Live, Forms, AdminViews, Read, FrameInv, CheckInv
<1>2. calls' = calls \cup {c} /\ UNCHANGED <<role, valid, issued, stored, tab>>
  BY DEF Read
<1> HIDE DEF c
<1> QED BY <1>1, <1>2, AddedCall

LEMMA QuietKeeps ==
    ASSUME FrameInv, (\E t \in Tabs : ReadAnswered(t)) \/ Expire \/ Demote \/ UNCHANGED vars
    PROVE  FrameInv' /\ FlagsKept
<1>1. UNCHANGED <<tab, stored, issued>> /\ calls' \subseteq calls /\ valid' \subseteq valid
  BY DEF ReadAnswered, Expire, Demote, vars
<1>2. role' \in [Accounts -> Roles]
  BY DEF ReadAnswered, Expire, Demote, vars, FrameInv, TypesInv, Roles
<1>3. TypesInv' /\ SavesInv'
  BY <1>1, <1>2 DEF FrameInv, TypesInv, SavesInv, Live
<1>4. CheckInv'
  BY <1>1 DEF FrameInv, CheckInv
<1>5. SentInv'
  BY <1>1 DEF FrameInv, SentInv, OneTab
<1>6. FlagsKept
  BY <1>1 DEF FlagsKept, AllFlagged
<1> QED BY <1>3, <1>4, <1>5, <1>6 DEF FrameInv

\* The user works with the mounted form.
LEMMA FormWorks ==
    ASSUME FrameInv, NEW t \in Tabs, tab[t].form # None, NEW q, SameForm(q, tab[t]),
           tab' = [tab EXCEPT ![t] = q], UNCHANGED <<role, valid, issued, stored>>
    PROVE  /\ Fits(q) /\ q.form # None /\ q.form.kind = tab[t].form.kind
           /\ calls' \subseteq Request => TypesInv'
           /\ tab'[t] = q /\ \A s \in Tabs \ {t} : tab'[s] = tab[s]
           /\ \A s \in Tabs : SameSession(tab'[s], tab[s])
           /\ (Flagged(tab[t]) => Flagged(q)) => FlagsKept
<1>1. Fits(tab[t]) /\ tab \in [Tabs -> Row]
  BY DEF FrameInv, TypesInv
<1>2. Fits(q) /\ KindOf(q.form) = KindOf(tab[t].form) /\ q.form # None
  BY <1>1, FormChanges
<1>3. /\ tab'[t] = q /\ \A s \in Tabs \ {t} : tab'[s] = tab[s]
      /\ tab' \in [Tabs -> Row]
  BY <1>1 DEF SameForm
<1>4. \A s \in Tabs : SameSession(tab'[s], tab[s])
  BY <1>3 DEF SameForm, SameSession
<1>5. calls' \subseteq Request => TypesInv'
  BY <1>2, <1>3 DEF FrameInv, TypesInv
<1>6. (Flagged(tab[t]) => Flagged(q)) => FlagsKept
  BY <1>3 DEF FlagsKept, AllFlagged
<1> QED BY <1>2, <1>3, <1>4, <1>5, <1>6 DEF SameForm

\* Requests that ask for no session come and go while the sessions stay.
LEMMA SessionsStay ==
    ASSUME FrameInv, \A s \in Tabs : SameSession(tab'[s], tab[s]), stored' = stored,
           \A c \in calls' \ calls : c.kind # "me" /\ ~tab[c.tab].checking /\ c.tab \in Tabs
    PROVE  CheckInv' /\ SentInv'
<1>1. \A c \in calls' : c.tab \in Tabs
  BY DEF FrameInv, TypesInv, Request
<1>2. CheckInv'
  <2>1. \A s \in Tabs : tab'[s].checking => ~tab'[s].logged /\ tab'[s].memory = None
    BY DEF FrameInv, CheckInv, SameSession
  <2>2. \A c \in calls' : /\ c.kind = "me" <=> tab'[c.tab].checking
                          /\ c.kind = "me" => c.token \in Token
    BY <1>1 DEF FrameInv, CheckInv, SameSession
  <2>3. \A c, d \in calls' : c.kind = "me" /\ d.kind = "me" /\ c.tab = d.tab => c = d
    BY DEF FrameInv, CheckInv
  <2> QED BY <2>1, <2>2, <2>3 DEF CheckInv
<1>3. SentInv'
  <2>1. \A s \in Tabs : /\ tab'[s].logged = tab[s].logged /\ tab'[s].memory = tab[s].memory
                        /\ tab'[s].shown = tab[s].shown
    BY DEF SameSession
  <2>2. \A c \in calls' : c.kind = "me" => c \in calls
    OBVIOUS
  <2> QED BY <2>1, <2>2 DEF FrameInv, SentInv, OneTab
<1> QED BY <1>2, <1>3

LEMMA EditKeeps ==
    ASSUME FrameInv, NEW t \in Tabs, Edit(t)
    PROVE  FrameInv' /\ FlagsKept
<1>1. Fits(tab[t]) /\ tab[t].form # None /\ tab \in [Tabs -> Row]
  BY DEF FrameInv, TypesInv, Edit
<1> DEFINE f == [tab[t].form EXCEPT !.changed = TRUE]
           q == [tab[t] EXCEPT !.form = f, !.dirty = TRUE]
<1>2. tab' = [tab EXCEPT ![t] = q] /\ UNCHANGED <<role, valid, issued, stored, calls>>
  BY <1>1 DEF Edit, Row, FormRow
<1>3. /\ f \in FormRow /\ f.kind = tab[t].form.kind /\ f.by = tab[t].form.by
      /\ f.saving = tab[t].form.saving
  BY <1>1 DEF Fits, Row, FormRow
<1> HIDE DEF f
<1>4. /\ q \in Row /\ q.form = f /\ SameSession(q, tab[t]) /\ q.dirty /\ q.busy = tab[t].busy
      /\ q.seen = tab[t].seen /\ q.role = tab[t].role /\ q.view = tab[t].view
  BY <1>1, <1>3 DEF Row, SameSession
<1> HIDE DEF q
<1>5. SameForm(q, tab[t]) /\ (Flagged(tab[t]) => Flagged(q))
  BY <1>1, <1>3, <1>4 DEF SameForm, Flagged
<1>6. /\ q.form # None /\ TypesInv'
      /\ tab'[t] = q /\ \A s \in Tabs \ {t} : tab'[s] = tab[s]
      /\ \A s \in Tabs : SameSession(tab'[s], tab[s])
      /\ FlagsKept
  <2>1. calls' \subseteq Request
    BY <1>2 DEF FrameInv, TypesInv
  <2> QED BY <1>1, <1>2, <1>5, <2>1, FormWorks
<1>7. SavesInv'
  <2>1. \A s \in Tabs : /\ tab[s].form # None => tab'[s].form # None
                        /\ tab'[s].form.saving = tab[s].form.saving
                        /\ tab'[s].form.kind = tab[s].form.kind
    BY <1>3, <1>4, <1>6
  <2>2. \A c \in calls : c.tab \in Tabs
    BY DEF FrameInv, TypesInv, Request
  <2> QED BY <1>2, <2>1, <2>2 DEF FrameInv, SavesInv, Live
<1>8. CheckInv' /\ SentInv'
  BY <1>2, <1>6, SessionsStay
<1> QED BY <1>6, <1>7, <1>8 DEF FrameInv

LEMMA saveKeeps ==
    ASSUME FrameInv, NEW t \in Tabs, save(t)
    PROVE  FrameInv' /\ FlagsKept
<1>1. /\ Fits(tab[t]) /\ tab[t].form # None /\ tab \in [Tabs -> Row]
      /\ tab[t].logged /\ ~tab[t].checking /\ ~tab[t].form.saving
  BY DEF FrameInv, TypesInv, CheckInv, save
<1> DEFINE f == [tab[t].form EXCEPT !.saving = TRUE]
           q == [tab[t] EXCEPT !.form = f, !.busy = TRUE]
           c == Call(t, tab[t].form.kind)
<1>2. /\ tab' = [tab EXCEPT ![t] = q] /\ calls' = calls \cup {c}
      /\ UNCHANGED <<role, valid, issued, stored>>
  BY <1>1 DEF save, Row, FormRow
<1>3. /\ f \in FormRow /\ f.kind = tab[t].form.kind /\ f.by = tab[t].form.by
      /\ f.saving /\ f.changed = tab[t].form.changed
  BY <1>1 DEF Fits, Row, FormRow
<1>4. c \in Request /\ c.tab = t /\ c.kind = f.kind /\ Live(c) /\ c.kind # "me"
  <2>1. getToken(t) \in Token \cup {None}
    BY DEF getToken, FrameInv, TypesInv, Row
  <2> HIDE DEF f
  <2> QED BY <1>3, <2>1 DEF Call, Request, Live, Forms, AdminViews, FormRow
<1> HIDE DEF f, c
<1>5. /\ q \in Row /\ q.form = f /\ SameSession(q, tab[t]) /\ q.busy /\ q.dirty = tab[t].dirty
      /\ q.seen = tab[t].seen /\ q.role = tab[t].role /\ q.view = tab[t].view
  BY <1>1, <1>3 DEF Row, SameSession
<1> HIDE DEF q
<1>6. SameForm(q, tab[t]) /\ (Flagged(tab[t]) => Flagged(q))
  BY <1>1, <1>3, <1>5 DEF SameForm, Flagged
<1>7. /\ q.form # None /\ TypesInv'
      /\ tab'[t] = q /\ \A s \in Tabs \ {t} : tab'[s] = tab[s]
      /\ \A s \in Tabs : SameSession(tab'[s], tab[s])
      /\ FlagsKept
  <2>1. calls' \subseteq Request
    BY <1>2, <1>4 DEF FrameInv, TypesInv
  <2> QED BY <1>1, <1>2, <1>6, <2>1, FormWorks
<1>8. \A d \in calls : d.tab \in Tabs /\ (Live(d) => d.tab # t /\ tab'[d.tab] = tab[d.tab])
  BY <1>1, <1>7 DEF FrameInv, TypesInv, SavesInv, Request
<1>9. SavesInv'
  <2>1. \A d \in calls' : Live(d) => /\ tab'[d.tab].form # None /\ tab'[d.tab].form.saving
                                     /\ tab'[d.tab].form.kind = d.kind
    BY <1>2, <1>3, <1>4, <1>5, <1>7, <1>8 DEF FrameInv, SavesInv
  <2>2. \A d, e \in calls' : Live(d) /\ Live(e) /\ d.tab = e.tab => d = e
    BY <1>2, <1>4, <1>8 DEF FrameInv, SavesInv
  <2> QED BY <2>1, <2>2 DEF SavesInv, Live
<1>10. CheckInv' /\ SentInv'
  BY <1>1, <1>2, <1>4, <1>7, SessionsStay
<1> QED BY <1>7, <1>9, <1>10 DEF FrameInv

LEMMA SaveEndsKeeps ==
    ASSUME FrameInv, NEW t \in Tabs, SaveEnds(t)
    PROVE  FrameInv' /\ FlagsKept
<1>1. PICK c \in Calls(t), saved \in BOOLEAN :
        /\ c.kind \in Forms /\ UNCHANGED <<role, valid, issued>>
        /\ \/ stored' = stored /\ Becomes(t, Done(tab[t], c, saved), c)
           \/ stored' = None /\ Becomes(t, Expired(Done(tab[t], c, saved)), c)
  BY DEF SaveEnds, Saved, SaveFails, SaveRefused
<1> DEFINE q == Done(tab[t], c, saved)
<1>2. /\ Fits(tab[t]) /\ c \in calls /\ c.tab = t /\ c \in Request
      /\ c.kind # "me" /\ ~tab[t].checking /\ c.gone \in BOOLEAN
  BY <1>1 DEF FrameInv, TypesInv, CheckInv, Calls, Forms, AdminViews, Request
<1>3. ~c.gone => Live(c) /\ tab[t].form # None
  BY <1>1, <1>2 DEF FrameInv, SavesInv, Live
<1>4. /\ Fits(q) /\ SameSession(q, tab[t]) /\ KindOf(q.form) = KindOf(tab[t].form)
      /\ c.gone => q.form = tab[t].form
      /\ Flagged(tab[t]) /\ (c.gone => c.kind # "student-ai") => Flagged(q)
  BY <1>2, <1>3, DoneRow
<1>5. NothingLate => (c.gone => c.kind # "student-ai")
  BY <1>2 DEF NothingLate
<1> HIDE DEF q
<1>6. NothingLate /\ Flagged(tab[t]) => Flagged(q)
  BY <1>4, <1>5
<1>7. CASE stored' = stored /\ Becomes(t, q, c)
  <2>1. /\ ~q.checking /\ q.logged = tab[t].logged /\ q.memory = tab[t].memory
        /\ q.shown = tab[t].shown
    BY <1>2, <1>4 DEF SameSession
  <2>2. /\ q.logged /\ q.memory # None => q.memory.of = q.shown
        /\ OneTab => (q.logged /\ q.memory = None /\ stored' # None => stored'.of = q.shown)
    BY <1>7, <2>1 DEF FrameInv, SentInv
  <2>3. /\ tab' \in [Tabs -> Row] /\ \A s \in Tabs : Fits(tab'[s])
        /\ calls' \subseteq Request /\ SavesInv' /\ CheckInv' /\ SentInv'
        /\ (Flagged(tab[t]) => Flagged(q)) => (AllFlagged => AllFlagged')
    BY <1>2, <1>3, <1>4, <1>7, <2>1, <2>2, BecomesKeeps
  <2>4. AllFlagged => Flagged(tab[t])
    BY DEF AllFlagged
  <2>5. FlagsKept
    BY <1>6, <2>3, <2>4 DEF FlagsKept
  <2> QED BY <1>1, <1>7, <2>3, <2>5 DEF FrameInv, TypesInv
<1>8. CASE stored' = None /\ Becomes(t, Expired(q), c)
  <2>1. q.checking = tab[t].checking
    BY <1>4 DEF SameSession
  <2>2. KindOf(q.form) = KindOf(tab[t].form) => q.form = tab[t].form \/ Live(c)
    BY <1>2, <1>3, <1>4
  <2> QED BY <1>1, <1>2, <1>4, <1>6, <1>8, <2>1, <2>2, ExpiredKeeps
<1> QED BY <1>1, <1>7, <1>8 DEF q

-----------------------------------------------------------------------------
(* The frame: theorems *)

LEMMA FrameInit == Init => FrameInv /\ AllFlagged
<1> SUFFICES ASSUME Init PROVE FrameInv /\ AllFlagged
  OBVIOUS
<1>1. /\ Closed \in Row /\ Closed.form = None /\ ~Closed.seen /\ Closed.shown = None
      /\ ~Closed.logged /\ ~Closed.checking /\ Closed.memory = None
  BY DEF Closed, NewTab, Row, Views
<1>2. Fits(Closed) /\ Flagged(Closed)
  BY <1>1 DEF Fits, KindOf, Shown, Flagged
<1>3. tab \in [Tabs -> Row] /\ \A t \in Tabs : tab[t] = Closed
  BY <1>1 DEF Init
<1>4. role \in [Accounts -> Roles]
  BY DEF Init, Roles
<1>5. TypesInv
  BY <1>2, <1>3, <1>4, ConsoleConstants DEF ConsoleAssumption, Init, TypesInv
<1>6. SavesInv /\ CheckInv /\ SentInv /\ AllFlagged
  BY <1>1, <1>2, <1>3 DEF Init, SavesInv, CheckInv, SentInv, AllFlagged
<1> QED BY <1>5, <1>6 DEF FrameInv

LEMMA FrameStep ==
    ASSUME FrameInv, [Next]_vars
    PROVE  FrameInv' /\ FlagsKept
<1>1. CASE \E t \in Tabs : \/ Open(t) \/ submit(t) \/ handleLogin(t) \/ LoginRefused(t)
                           \/ RestoreEnds(t) \/ SaveEnds(t) \/ Refused(t)
  BY <1>1, OpenKeeps, submitKeeps, handleLoginKeeps, RefusedKeeps, RestoredKeeps,
     RestoreFailsKeeps, SaveEndsKeeps DEF RestoreEnds
<1>2. CASE \E t \in Tabs : navTo(t) \/ logout(t) \/ Read(t) \/ Edit(t) \/ save(t)
  BY <1>2, navToKeeps, logoutKeeps, ReadKeeps, EditKeeps, saveKeeps
<1>3. CASE (\E t \in Tabs : ReadAnswered(t)) \/ Expire \/ Demote \/ UNCHANGED vars
  BY <1>3, QuietKeeps
<1> QED BY <1>1, <1>2, <1>3 DEF Next

LEMMA FrameHolds == Spec => []FrameInv
<1>1. FrameInv /\ [Next]_vars => FrameInv'
  BY FrameStep
<1> QED BY <1>1, FrameInit, PTL DEF Spec

\* Every variable keeps to its values, a form is mounted just where the page's view
\* and role show one, and a save under way is its form's (App.svelte).
THEOREM TypeCorrect == Spec => []TypeOK
<1>1. FrameInv => TypeOK
  <2> SUFFICES ASSUME FrameInv, NEW t \in Tabs
               PROVE  /\ tab[t].memory \in Token \cup {None} /\ tab[t].view \in Views
                      /\ KindOf(tab[t].form) = Shown(tab[t])
                      /\ \A c \in Calls(t) :
                            c.kind \in Forms /\ ~c.gone => tab[t].form # None /\ tab[t].form.saving
    BY DEF TypeOK, FrameInv, TypesInv
  <2> QED BY DEF FrameInv, TypesInv, Fits, Row, SavesInv, Live, Calls
<1> QED BY <1>1, FrameHolds, PTL

\* App.svelte:24: a page that is shown to an account was filled in by that account,
\* in any number of tabs.
THEOREM FormsAreTheirs == Spec => []FormIsTheirs
<1>1. FrameInv => FormIsTheirs
  BY DEF FrameInv, TypesInv, Fits, FormIsTheirs
<1> QED BY <1>1, FrameHolds, PTL

\* api.ts:113: where no other tab shares the storage, what the tab sends is sent for
\* the account whose name it shows.
THEOREM SentForTheShown ==
    ASSUME OneTab
    PROVE  Spec => []SentAsShown
<1>1. FrameInv => SentAsShown
  BY DEF FrameInv, SentInv, SentAsShown, getToken
<1> QED BY <1>1, FrameHolds, PTL

\* App.svelte:34: no changes and no save of a form go unnoticed by the frame, unless
\* the students' assistant's form was left with a save under way.
THEOREM FlagsAreTrue == Spec /\ []NothingLate => []FlagsAreTheForms
<1>1. FrameInv /\ [Next]_vars /\ NothingLate /\ AllFlagged => AllFlagged'
  BY FrameStep DEF FlagsKept
<1>2. AllFlagged => FlagsAreTheForms
  BY DEF AllFlagged, Flagged, FlagsAreTheForms
<1> QED BY <1>1, <1>2, FrameInit, FrameHolds, PTL DEF Spec
-----------------------------------------------------------------------------
(* The service's settings *)

CONSTANTS Managers, Paths, Directories, Keys, MaxRevision, MaxDrafts

VARIABLES revision, savedConfig, key, env, prepared, catalogue, form, openedWith, loads, busy,
          sent, reply, typedKeys, gone

S == INSTANCE ServiceSettings WITH
         Admins <- Managers, stored <- savedConfig, draft <- openedWith, typed <- typedKeys

\* What is of the current revision has all the edits that were saved.
UpToDate(r, config) == r <= revision /\ (r = revision => savedConfig.rest \subseteq config.rest)

\* A key that was typed, and that is or was in the row, belongs to an older revision.
KeyIsOld(k, r) == k # None => k \in typedKeys /\ (k \in gone \cup {key} => r < revision)

FormHolds(f, d) ==
    /\ f.snapshot = None => f = S!NewForm
    /\ f.snapshot # None =>
           /\ f.config # None
           /\ UpToDate(f.snapshot.revision, f.snapshot.config)
           /\ UpToDate(f.snapshot.revision, f.config)
           /\ KeyIsOld(f.apiKey, f.snapshot.revision)
           /\ d # None => /\ d.expected <= f.snapshot.revision
                          /\ f.applied \/ d.expected < f.snapshot.revision
    /\ f.pending => d # None /\ ~f.applied

\* A snapshot a page has asked for, and may yet show.
Comes(s, d) == UpToDate(s.revision, s.config) /\ (d # None => d.expected <= s.revision)

FormInv(a) ==
    /\ form[a] # None => FormHolds(form[a], openedWith[a])
    /\ form[a] = None => openedWith[a] = None /\ loads[a] = {} /\ busy[a] = "no"
    /\ busy[a] # "no" => form[a].snapshot # None
    /\ openedWith[a] # None => UpToDate(openedWith[a].expected, openedWith[a].config)
LoadInv(a) == \A s \in loads[a] : s # None => Comes(s, openedWith[a])
SaveInv(a) ==
    /\ busy[a] # "saving" \/ sent[a] # None => reply[a] = S!NoReply
    /\ busy[a] # "saving" => sent[a] = None
    /\ reply[a].data # None => reply[a].answer = "saved" /\ Comes(reply[a].data, openedWith[a])
    /\ sent[a] # None => /\ sent[a].expected < MaxRevision
                         /\ UpToDate(sent[a].expected, sent[a].config)
                         /\ KeyIsOld(sent[a].key, sent[a].expected)
PageInv(a) == FormInv(a) /\ LoadInv(a) /\ SaveInv(a)
RowInv ==
    /\ key \in typedKeys \cup {None} /\ key \notin gone
    /\ prepared # None => UpToDate(prepared.expected, prepared.config)

SettingsInv == S!TypeOK /\ RowInv /\ \A a \in Managers : PageInv(a)

\* The row stays as it is, or is saved again.
RowStays == /\ UNCHANGED <<revision, savedConfig, key, gone>>
            /\ typedKeys \subseteq typedKeys' /\ \A k \in typedKeys' \ typedKeys : k \in Keys
RowSaved == /\ revision' = revision + 1
            /\ UNCHANGED typedKeys
PageStays(b) == /\ form'[b] = form[b] /\ openedWith'[b] = openedWith[b] /\ loads'[b] = loads[b]
                /\ busy'[b] = busy[b] /\ sent'[b] = sent[b] /\ reply'[b] = reply[b]

LEMMA NoneTypes ==
    ASSUME S!SettingsAssumption
    PROVE  /\ None \notin Managers \cup Paths \cup Keys /\ Directories \subseteq Paths
           /\ MaxRevision \in Nat /\ None \notin S!Forms /\ None \notin S!Configs
           /\ None \notin S!Snapshots /\ None \notin S!Drafts /\ None \notin S!Updates
BY DEF S!SettingsAssumption

\* What was up to date stays so, or becomes old.
LEMMA StaysUpToDate ==
    ASSUME revision \in Nat, RowStays \/ RowSaved
    PROVE  /\ \A r \in Nat : \A config : UpToDate(r, config) => UpToDate(r, config)'
           /\ \A r \in Nat : \A k : r <= revision /\ KeyIsOld(k, r) => KeyIsOld(k, r)'
BY DEF RowStays, RowSaved, UpToDate, KeyIsOld

LEMMA FormStays ==
    ASSUME revision \in Nat, RowStays \/ RowSaved, NEW f \in S!Forms, NEW d, FormHolds(f, d)
    PROVE  /\ f.snapshot = None => f = S!NewForm
           /\ f.snapshot # None =>
                  /\ f.config # None
                  /\ UpToDate(f.snapshot.revision, f.snapshot.config)'
                  /\ UpToDate(f.snapshot.revision, f.config)'
                  /\ KeyIsOld(f.apiKey, f.snapshot.revision)'
                  /\ d # None => /\ d.expected <= f.snapshot.revision
                                 /\ f.applied \/ d.expected < f.snapshot.revision
           /\ f.pending => d # None /\ ~f.applied
<1>1. f.snapshot # None => f.snapshot.revision \in Nat
  BY DEF S!Forms, S!Snapshots
<1>2. f.snapshot # None => f.snapshot.revision <= revision
  BY DEF FormHolds, UpToDate
<1> QED BY <1>1, <1>2, StaysUpToDate DEF FormHolds

\* A page that nobody touches.
LEMMA PageUntouched ==
    ASSUME S!TypeOK, RowStays \/ RowSaved, NEW b \in Managers, PageInv(b), PageStays(b)
    PROVE  PageInv(b)'
<1> USE DEF PageStays
<1>1. revision \in Nat /\ form[b] \in S!Forms \cup {None} /\ loads[b] \subseteq S!Snapshots \cup {None}
      /\ openedWith[b] \in S!Drafts \cup {None} /\ sent[b] \in S!Updates \cup {None}
      /\ reply[b] \in S!Replies
  BY DEF S!TypeOK
<1>2. FormInv(b)'
  <2>1. form[b] # None /\ form[b] \in S!Forms => FormHolds(form[b], openedWith[b])'
    BY <1>1, FormStays DEF PageInv, FormInv, FormHolds
  <2>2. openedWith[b] # None => UpToDate(openedWith[b].expected, openedWith[b].config)'
    BY <1>1, StaysUpToDate DEF PageInv, FormInv, S!Drafts
  <2> QED BY <1>1, <2>1, <2>2 DEF PageInv, FormInv, FormHolds
<1>3. \A s \in S!Snapshots : \A d : Comes(s, d) => Comes(s, d)'
  BY <1>1, StaysUpToDate DEF Comes, S!Snapshots
<1>4. LoadInv(b)'
  BY <1>1, <1>3 DEF PageInv, LoadInv
<1>5. SaveInv(b)'
  <2>1. sent[b] # None => /\ UpToDate(sent[b].expected, sent[b].config)'
                          /\ KeyIsOld(sent[b].key, sent[b].expected)'
    BY <1>1, StaysUpToDate DEF PageInv, SaveInv, UpToDate, S!Updates
  <2>2. reply[b].data # None => reply[b].data \in S!Snapshots
    BY <1>1 DEF S!Replies
  <2> QED BY <1>3, <2>1, <2>2 DEF PageInv, SaveInv
<1> QED BY <1>2, <1>4, <1>5 DEF PageInv

\* What the effect makes of a form.
LEMMA Effect ==
    ASSUME S!SettingsAssumption, NEW f \in S!Forms, f.snapshot # None, f.config # None,
           NEW d \in S!Drafts \cup {None},
           d # None => /\ d.expected <= f.snapshot.revision
                       /\ f.applied \/ ~S!dirty(f) \/ d.expected < f.snapshot.revision,
           f.pending => d # None /\ ~f.applied,
           NEW g, g = S!handleIncomingDraft(d, f)
    PROVE  /\ g \in S!Forms /\ g.snapshot = f.snapshot /\ g.apiKey = f.apiKey
           /\ g.config # None
           /\ \/ g.config = f.config
              \/ d # None /\ d.expected = f.snapshot.revision /\ g.config = d.config
           /\ d # None => g.applied \/ d.expected < f.snapshot.revision
           /\ g.pending => d # None /\ ~g.applied
<1>1. f.snapshot \in S!Snapshots /\ f.snapshot.revision \in Nat
  BY DEF S!Forms, S!Snapshots
<1>2. CASE d = None \/ f.applied
  BY <1>1, <1>2 DEF S!handleIncomingDraft
<1>3. CASE d # None /\ ~f.applied
  <2>1. d \in S!Drafts /\ d.expected \in Nat /\ d.config \in S!Configs /\ d.config # None
    BY <1>3, NoneTypes DEF S!Drafts
  <2>2. CASE S!dirty(f) \/ d.expected # f.snapshot.revision
    <3>1. g = [f EXCEPT !.pending = TRUE]
      BY <1>3, <2>2 DEF S!handleIncomingDraft
    <3>2. /\ g \in S!Forms /\ g.snapshot = f.snapshot /\ g.apiKey = f.apiKey
          /\ g.config = f.config /\ g.applied = f.applied
      BY <3>1 DEF S!Forms
    <3>3. d.expected < f.snapshot.revision
      BY <1>1, <1>3, <2>1, <2>2
    <3> QED BY <1>3, <3>2, <3>3
  <2>3. CASE ~(S!dirty(f) \/ d.expected # f.snapshot.revision)
    <3>1. g = [f EXCEPT !.config = d.config, !.pending = FALSE, !.applied = TRUE]
      BY <1>3, <2>3 DEF S!handleIncomingDraft
    <3> QED BY <1>1, <1>3, <2>1, <2>3, <3>1 DEF S!Forms
  <2> QED BY <2>2, <2>3
<1> QED BY <1>2, <1>3

\* A form with a snapshot, after the effect or without it.
LEMMA FormBecomes ==
    ASSUME S!SettingsAssumption, NEW f \in S!Forms, f.snapshot # None, f.config # None,
           NEW d \in S!Drafts \cup {None},
           UpToDate(f.snapshot.revision, f.snapshot.config)', UpToDate(f.snapshot.revision, f.config)',
           d # None => UpToDate(d.expected, d.config)',
           KeyIsOld(f.apiKey, f.snapshot.revision)',
           d # None => /\ d.expected <= f.snapshot.revision
                       /\ f.applied \/ ~S!dirty(f) \/ d.expected < f.snapshot.revision,
           f.pending => d # None /\ ~f.applied,
           NEW g,
           \/ g = S!handleIncomingDraft(d, f)
           \/ g = f /\ (d # None => f.applied \/ d.expected < f.snapshot.revision)
    PROVE  g \in S!Forms /\ g.snapshot = f.snapshot /\ FormHolds(g, d)'
<1>1. CASE g = S!handleIncomingDraft(d, f)
  <2>1. /\ g \in S!Forms /\ g.snapshot = f.snapshot /\ g.apiKey = f.apiKey
        /\ g.config # None
        /\ \/ g.config = f.config
           \/ d # None /\ d.expected = f.snapshot.revision /\ g.config = d.config
        /\ d # None => g.applied \/ d.expected < f.snapshot.revision
        /\ g.pending => d # None /\ ~g.applied
    BY <1>1, Effect
  <2>2. UpToDate(g.snapshot.revision, g.config)'
    BY <2>1
  <2> QED BY <2>1, <2>2 DEF FormHolds
<1>2. CASE g = f /\ (d # None => f.applied \/ d.expected < f.snapshot.revision)
  BY <1>2 DEF FormHolds
<1> QED BY <1>1, <1>2

LEMMA OnePage ==
    ASSUME SettingsInv, NEW a \in Managers, RowStays \/ RowSaved, S!TypeOK', RowInv', PageInv(a)',
           \A b \in Managers \ {a} : PageStays(b)
    PROVE  SettingsInv'
BY PageUntouched DEF SettingsInv

\* The row's part, while the row stays.
LEMMA RowKept ==
    ASSUME SettingsInv, RowStays, UNCHANGED prepared
    PROVE  RowInv'
<1>1. prepared # None => UpToDate(prepared.expected, prepared.config)'
  <2>1. revision \in Nat /\ prepared \in S!Drafts \cup {None}
    BY DEF SettingsInv, S!TypeOK
  <2> QED BY <2>1, StaysUpToDate DEF SettingsInv, RowInv, S!Drafts
<1> QED BY <1>1 DEF SettingsInv, RowInv, RowStays

\* A field was edited, reverted or declined.
LEMMA FormEdited ==
    ASSUME S!SettingsAssumption, SettingsInv, NEW a \in Managers, S!Enabled(a), NEW f \in S!Forms,
           f.snapshot = form[a].snapshot, f.config # None,
           UpToDate(f.snapshot.revision, f.config),
           KeyIsOld(f.apiKey, f.snapshot.revision)',
           f.applied = form[a].applied, f.pending => form[a].pending,
           RowStays, UNCHANGED <<env, prepared, catalogue, openedWith, loads, busy, sent, reply>>,
           \/ form' = [form EXCEPT ![a] = f]
           \/ form' = [form EXCEPT ![a] = S!handleIncomingDraft(openedWith[a], f)]
    PROVE  SettingsInv'
<1>a. PICK d : d = openedWith[a]
  OBVIOUS
<1>b. PICK g : g = form'[a]
  OBVIOUS
<1>1. /\ form \in [Managers -> S!Forms \cup {None}] /\ d \in S!Drafts \cup {None} /\ revision \in Nat
      /\ form[a] # None /\ form[a].snapshot # None /\ FormHolds(form[a], d)
      /\ f.snapshot \in S!Snapshots /\ f.snapshot.revision \in Nat
  BY <1>a DEF SettingsInv, S!TypeOK, S!Enabled, S!Mounted, PageInv, FormInv, S!Forms, S!Snapshots
<1>2. d # None => d.expected \in Nat /\ UpToDate(d.expected, d.config)
  BY <1>1, <1>a DEF SettingsInv, PageInv, FormInv, S!Drafts
<1>3. /\ UpToDate(f.snapshot.revision, f.snapshot.config)' /\ UpToDate(f.snapshot.revision, f.config)'
      /\ d # None => UpToDate(d.expected, d.config)'
  BY <1>1, <1>2, StaysUpToDate DEF FormHolds
<1>4. /\ d # None => d.expected <= f.snapshot.revision /\ (f.applied \/ d.expected < f.snapshot.revision)
      /\ f.pending => d # None /\ ~f.applied
  BY <1>1 DEF FormHolds
<1>5. g = f \/ g = S!handleIncomingDraft(d, f)
  BY <1>1, <1>a, <1>b
<1>6. g \in S!Forms /\ g.snapshot = f.snapshot /\ FormHolds(g, d)'
  BY <1>1, <1>3, <1>4, <1>5, FormBecomes
<1>7. S!TypeOK'
  <2>1. form' \in [Managers -> S!Forms \cup {None}]
    BY <1>1, <1>6, <1>b
  <2>2. gone' \subseteq typedKeys' /\ typedKeys' \subseteq Keys
    BY DEF SettingsInv, S!TypeOK, RowStays
  <2> QED BY <2>1, <2>2 DEF SettingsInv, S!TypeOK, RowStays
<1>8. RowInv'
  BY RowKept
<1>9. \A b \in Managers \ {a} : PageStays(b)
  BY <1>1 DEF PageStays
<1>10. FormInv(a)'
  <2>1. UNCHANGED openedWith /\ UNCHANGED loads /\ UNCHANGED busy
    OBVIOUS
  <2>2. form'[a] # None /\ form'[a].snapshot # None
    BY <1>1, <1>6, <1>b, NoneTypes
  <2>3. FormHolds(form[a], openedWith[a])'
    BY <1>6, <1>a, <1>b, <2>1 DEF FormHolds, UpToDate, KeyIsOld
  <2>4. openedWith[a] # None => UpToDate(openedWith[a].expected, openedWith[a].config)'
    BY <1>3, <1>a, <2>1 DEF UpToDate
  <2> QED BY <2>1, <2>2, <2>3, <2>4 DEF FormInv
<1>11. LoadInv(a)' /\ SaveInv(a)'
  <2>1. LoadInv(a) /\ SaveInv(a)
    BY DEF SettingsInv, PageInv
  <2>2. /\ loads[a] \subseteq S!Snapshots \cup {None} /\ sent[a] \in S!Updates \cup {None}
        /\ reply[a] \in S!Replies
    BY DEF SettingsInv, S!TypeOK
  <2>3. \A s \in S!Snapshots : Comes(s, d) => Comes(s, d)'
    BY <1>1, StaysUpToDate DEF Comes, S!Snapshots
  <2>4. sent[a] # None => /\ UpToDate(sent[a].expected, sent[a].config)'
                          /\ KeyIsOld(sent[a].key, sent[a].expected)'
    BY <1>1, <2>1, <2>2, StaysUpToDate DEF SaveInv, UpToDate, S!Updates
  <2> QED BY <1>a, <2>1, <2>2, <2>3, <2>4 DEF LoadInv, SaveInv, S!Replies
<1> QED BY <1>7, <1>8, <1>9, <1>10, <1>11, OnePage DEF PageInv

LEMMA FormKept ==
    ASSUME S!TypeOK, RowStays \/ RowSaved, NEW a \in Managers, FormInv(a), form[a] # None,
           form'[a] = form[a], openedWith'[a] = openedWith[a],
           busy'[a] # "no" => form[a].snapshot # None
    PROVE  FormInv(a)'
<1>1. revision \in Nat /\ form[a] \in S!Forms /\ openedWith[a] \in S!Drafts \cup {None}
  BY DEF S!TypeOK
<1>2. FormHolds(form[a], openedWith[a])'
  BY <1>1, FormStays DEF FormInv, FormHolds
<1>3. openedWith[a] # None => UpToDate(openedWith[a].expected, openedWith[a].config)'
  BY <1>1, StaysUpToDate DEF FormInv, S!Drafts
<1> QED BY <1>2, <1>3 DEF FormInv, FormHolds

LEMMA ComesStill ==
    ASSUME revision \in Nat, RowStays \/ RowSaved
    PROVE  \A s \in S!Snapshots : \A d : Comes(s, d) => Comes(s, d)'
BY StaysUpToDate DEF Comes, S!Snapshots

LEMMA LoadKept ==
    ASSUME S!TypeOK, RowStays \/ RowSaved, NEW a \in Managers, LoadInv(a),
           openedWith'[a] = openedWith[a],
           \A s \in loads'[a] : s \in loads[a] \/ s = None \/ (s \in S!Snapshots /\ Comes(s, openedWith[a]))
    PROVE  LoadInv(a)'
<1>1. revision \in Nat /\ loads[a] \subseteq S!Snapshots \cup {None}
  BY DEF S!TypeOK
<1>2. \A s \in S!Snapshots : Comes(s, openedWith[a]) => Comes(s, openedWith[a])'
  BY <1>1, ComesStill DEF Comes
<1> QED BY <1>1, <1>2 DEF LoadInv, Comes

LEMMA SaveKept ==
    ASSUME S!TypeOK, RowStays \/ RowSaved, NEW a \in Managers, SaveInv(a),
           openedWith'[a] = openedWith[a], sent'[a] = sent[a], reply'[a] = reply[a],
           busy'[a] = busy[a] \/ (busy[a] # "saving" /\ busy'[a] # "saving")
    PROVE  SaveInv(a)'
<1>1. /\ revision \in Nat /\ sent[a] \in S!Updates \cup {None} /\ reply[a] \in S!Replies
  BY DEF S!TypeOK
<1>2. sent[a] # None => /\ UpToDate(sent[a].expected, sent[a].config)'
                        /\ KeyIsOld(sent[a].key, sent[a].expected)'
  BY <1>1, StaysUpToDate DEF SaveInv, UpToDate, S!Updates
<1>3. reply[a].data # None => Comes(reply[a].data, openedWith[a])'
  BY <1>1, ComesStill DEF SaveInv, S!Replies, Comes
<1> QED BY <1>2, <1>3 DEF SaveInv, Comes

\* The snapshot that is read now may come to any page.
LEMMA SnapshotNow ==
    ASSUME S!SettingsAssumption, SettingsInv, NEW s, s = S!settings_snapshot
    PROVE  s \in S!Snapshots /\ \A a \in Managers : Comes(s, openedWith[a])
<1>1. S!load_settings \in S!Configs /\ S!load_settings.rest = savedConfig.rest
  BY NoneTypes DEF SettingsInv, S!TypeOK, S!load_settings, S!Configs
<1>2. s \in S!Snapshots /\ s.revision = revision /\ s.config.rest = savedConfig.rest
  BY <1>1 DEF SettingsInv, S!TypeOK, S!settings_snapshot, S!Snapshots
<1>3. ASSUME NEW a \in Managers, openedWith[a] # None PROVE openedWith[a].expected <= revision
  BY <1>3 DEF SettingsInv, PageInv, FormInv, UpToDate
<1> QED BY <1>2, <1>3 DEF Comes, UpToDate, SettingsInv, S!TypeOK

-----------------------------------------------------------------------------
(* The service's settings: the form *)

LEMMA EditStep ==
    ASSUME S!SettingsAssumption, SettingsInv, NEW a \in Managers,
           S!EditRest(a) \/ S!EditPath(a) \/ S!EditKey(a) \/ S!TickClear(a)
    PROVE  SettingsInv'
<1>1. S!Enabled(a)
  BY DEF S!EditRest, S!EditPath, S!EditKey, S!TickClear
<1>2. /\ form[a] \in S!Forms /\ form[a].snapshot # None /\ FormHolds(form[a], openedWith[a])
      /\ form[a].config \in S!Configs
      /\ UpToDate(form[a].snapshot.revision, form[a].config)
      /\ KeyIsOld(form[a].apiKey, form[a].snapshot.revision)
  BY <1>1 DEF SettingsInv, S!TypeOK, PageInv, FormInv, FormHolds, S!Enabled, S!Mounted, S!Forms
<1>3. CASE S!EditRest(a)
  <2>1. PICK f : f = [form[a] EXCEPT !.config.rest = @ \cup {a}]
    OBVIOUS
  <2>2. f \in S!Forms /\ f.snapshot = form[a].snapshot /\ f.config \in S!Configs
        /\ form[a].config.rest \subseteq f.config.rest
        /\ f.apiKey = form[a].apiKey /\ f.applied = form[a].applied /\ f.pending = form[a].pending
    BY <1>2, <2>1 DEF S!Forms, S!Configs, S!Edits
  <2>3. UpToDate(f.snapshot.revision, f.config)
    BY <1>2, <2>2 DEF UpToDate
  <2>4. RowStays /\ UNCHANGED <<env, prepared, catalogue, openedWith, loads, busy, sent, reply>>
    BY <1>3 DEF S!EditRest, S!serverVars, S!histVars, RowStays
  <2>5. KeyIsOld(f.apiKey, f.snapshot.revision)'
    BY <1>2, <1>3, <2>2, <2>4 DEF KeyIsOld, RowStays
  <2>6. \/ form' = [form EXCEPT ![a] = f]
        \/ form' = [form EXCEPT ![a] = S!handleIncomingDraft(openedWith[a], f)]
    BY <1>3, <2>1, Zenon DEF S!EditRest, S!Edited, S!Becomes
  <2> QED BY <1>1, <2>2, <2>3, <2>4, <2>5, <2>6, NoneTypes, FormEdited
<1>4. CASE S!EditPath(a)
  <2>1. PICK p \in Paths : S!Edited(a, [form[a] EXCEPT !.config.path = p])
    BY <1>4 DEF S!EditPath
  <2>2. PICK f : f = [form[a] EXCEPT !.config.path = p]
    OBVIOUS
  <2>3. f \in S!Forms /\ f.snapshot = form[a].snapshot /\ f.config \in S!Configs
        /\ form[a].config.rest = f.config.rest
        /\ f.apiKey = form[a].apiKey /\ f.applied = form[a].applied /\ f.pending = form[a].pending
    BY <1>2, <2>2 DEF S!Forms, S!Configs
  <2>4. UpToDate(f.snapshot.revision, f.config)
    BY <1>2, <2>3 DEF UpToDate
  <2>5. RowStays /\ UNCHANGED <<env, prepared, catalogue, openedWith, loads, busy, sent, reply>>
    BY <1>4 DEF S!EditPath, S!serverVars, S!histVars, RowStays
  <2>6. KeyIsOld(f.apiKey, f.snapshot.revision)'
    BY <1>2, <1>4, <2>3, <2>5 DEF KeyIsOld, RowStays
  <2>7. \/ form' = [form EXCEPT ![a] = f]
        \/ form' = [form EXCEPT ![a] = S!handleIncomingDraft(openedWith[a], f)]
    BY <2>1, <2>2, Zenon DEF S!Edited, S!Becomes
  <2> QED BY <1>1, <2>3, <2>4, <2>5, <2>6, <2>7, NoneTypes, FormEdited
<1>5. CASE S!EditKey(a)
  <2>1. PICK k \in Keys \ typedKeys : S!Edited(a, [form[a] EXCEPT !.apiKey = k]) /\ typedKeys' = typedKeys \cup {k}
    BY <1>5 DEF S!EditKey
  <2>2. PICK f : f = [form[a] EXCEPT !.apiKey = k]
    OBVIOUS
  <2>3. f \in S!Forms /\ f.snapshot = form[a].snapshot /\ f.config = form[a].config
        /\ f.apiKey = k /\ f.applied = form[a].applied /\ f.pending = form[a].pending
    BY <1>2, <2>2 DEF S!Forms
  <2>4. RowStays /\ UNCHANGED <<env, prepared, catalogue, openedWith, loads, busy, sent, reply>>
    BY <1>5, <2>1 DEF S!EditKey, S!serverVars, RowStays
  <2>5. k \notin gone \cup {key} /\ k # None
    BY NoneTypes DEF SettingsInv, RowInv, S!TypeOK
  <2>6. KeyIsOld(f.apiKey, f.snapshot.revision)'
    BY <2>1, <2>3, <2>4, <2>5 DEF KeyIsOld, RowStays
  <2>7. \/ form' = [form EXCEPT ![a] = f]
        \/ form' = [form EXCEPT ![a] = S!handleIncomingDraft(openedWith[a], f)]
    BY <2>1, <2>2, Zenon DEF S!Edited, S!Becomes
  <2>8. UpToDate(f.snapshot.revision, f.config) /\ f.config # None
    BY <1>2, <2>3, NoneTypes
  <2> QED BY <1>1, <2>3, <2>4, <2>6, <2>7, <2>8, FormEdited
<1>6. CASE S!TickClear(a)
  <2>1. PICK f : f = [form[a] EXCEPT !.clearApiKey = ~@]
    OBVIOUS
  <2>2. f \in S!Forms /\ f.snapshot = form[a].snapshot /\ f.config = form[a].config
        /\ f.apiKey = form[a].apiKey /\ f.applied = form[a].applied /\ f.pending = form[a].pending
    BY <1>2, <2>1 DEF S!Forms
  <2>3. RowStays /\ UNCHANGED <<env, prepared, catalogue, openedWith, loads, busy, sent, reply>>
    BY <1>6 DEF S!TickClear, S!serverVars, S!histVars, RowStays
  <2>4. KeyIsOld(f.apiKey, f.snapshot.revision)'
    BY <1>2, <1>6, <2>2, <2>3 DEF KeyIsOld, RowStays
  <2>5. \/ form' = [form EXCEPT ![a] = f]
        \/ form' = [form EXCEPT ![a] = S!handleIncomingDraft(openedWith[a], f)]
    BY <1>6, <2>1, Zenon DEF S!TickClear, S!Edited, S!Becomes
  <2>6. UpToDate(f.snapshot.revision, f.config) /\ f.config # None
    BY <1>2, <2>2, NoneTypes
  <2> QED BY <1>1, <2>2, <2>3, <2>4, <2>5, <2>6, FormEdited
<1> QED BY <1>3, <1>4, <1>5, <1>6

LEMMA RevertStep ==
    ASSUME S!SettingsAssumption, SettingsInv, NEW a \in Managers, S!revert(a) \/ S!rejectProposal(a)
    PROVE  SettingsInv'
<1>1. S!Enabled(a)
  BY DEF S!revert, S!rejectProposal
<1>2. /\ form[a] \in S!Forms /\ form[a].snapshot # None /\ FormHolds(form[a], openedWith[a])
      /\ form[a].config \in S!Configs /\ form[a].snapshot.config \in S!Configs
      /\ UpToDate(form[a].snapshot.revision, form[a].config)
      /\ UpToDate(form[a].snapshot.revision, form[a].snapshot.config)
      /\ KeyIsOld(form[a].apiKey, form[a].snapshot.revision)
  BY <1>1 DEF SettingsInv, S!TypeOK, PageInv, FormInv, FormHolds, S!Enabled, S!Mounted, S!Forms, S!Snapshots
<1>3. RowStays /\ UNCHANGED <<env, prepared, catalogue, openedWith, loads, busy, sent, reply>>
  BY DEF S!revert, S!rejectProposal, S!serverVars, S!histVars, RowStays
<1>4. CASE S!revert(a)
  <2>1. PICK f : f = [form[a] EXCEPT !.config = form[a].snapshot.config, !.apiKey = None,
                          !.clearApiKey = FALSE, !.revisionConflict = FALSE, !.pending = FALSE]
    OBVIOUS
  <2>2. f \in S!Forms /\ f.snapshot = form[a].snapshot /\ f.config = form[a].snapshot.config
        /\ f.apiKey = None /\ f.applied = form[a].applied /\ f.pending = FALSE
    BY <1>2, <2>1 DEF S!Forms
  <2>3. form' = [form EXCEPT ![a] = S!handleIncomingDraft(openedWith[a], f)]
    BY <1>4, <2>1, Zenon DEF S!revert, S!Becomes
  <2>4. KeyIsOld(f.apiKey, f.snapshot.revision)'
    BY <2>2 DEF KeyIsOld
  <2> QED BY <1>1, <1>2, <1>3, <2>2, <2>3, <2>4, NoneTypes, FormEdited
<1>5. CASE S!rejectProposal(a)
  <2>1. PICK f : f = [form[a] EXCEPT !.pending = FALSE]
    OBVIOUS
  <2>2. f \in S!Forms /\ f.snapshot = form[a].snapshot /\ f.config = form[a].config
        /\ f.apiKey = form[a].apiKey /\ f.applied = form[a].applied /\ f.pending = FALSE
    BY <1>2, <2>1 DEF S!Forms
  <2>3. form' = [form EXCEPT ![a] = f]
    BY <1>5, <2>1, Zenon DEF S!rejectProposal
  <2>4. KeyIsOld(f.apiKey, f.snapshot.revision)'
    BY <1>2, <1>3, <2>2 DEF KeyIsOld, RowStays
  <2>5. UpToDate(f.snapshot.revision, f.config) /\ f.config # None
    BY <1>2, <2>2, NoneTypes
  <2> QED BY <1>1, <1>3, <2>2, <2>3, <2>4, <2>5, FormEdited
<1> QED BY <1>4, <1>5

\* The page is opened or left.
LEMMA OpenStep ==
    ASSUME S!SettingsAssumption, SettingsInv, NEW a \in Managers, S!Open(a) \/ S!Leave(a)
    PROVE  SettingsInv'
<1>1. RowStays /\ UNCHANGED <<env, prepared, catalogue, busy, sent, reply, typedKeys>>
  BY DEF S!Open, S!Leave, S!serverVars, S!histVars, RowStays
<1>2. /\ form \in [Managers -> S!Forms \cup {None}] /\ openedWith \in [Managers -> S!Drafts \cup {None}]
      /\ prepared \in S!Drafts \cup {None} /\ PageInv(a)
      /\ busy[a] = "no" /\ busy'[a] = "no"
  BY DEF SettingsInv, S!TypeOK, PageInv, FormInv, S!Open, S!Leave, S!Mounted
<1>3. RowInv' /\ \A b \in Managers \ {a} : PageStays(b)
  BY <1>1, <1>2, RowKept DEF SettingsInv, S!Open, S!Leave, PageStays, S!TypeOK
<1>4. loads'[a] \subseteq {None} /\ openedWith'[a] \in {None, prepared} /\ form'[a] \in {None, S!NewForm}
  BY <1>2 DEF SettingsInv, S!TypeOK, S!Open, S!Leave
<1>5. S!NewForm \in S!Forms /\ S!NewForm.snapshot = None /\ S!NewForm.pending = FALSE /\ S!NewForm # None
  <2>1. S!NewForm \in S!Forms
    BY DEF S!NewForm, S!Forms
  <2>2. S!NewForm.snapshot = None /\ S!NewForm.pending = FALSE
    BY DEF S!NewForm
  <2> QED BY <2>1, <2>2, NoneTypes
<1>6. S!TypeOK'
  <2>1. form' \in [Managers -> S!Forms \cup {None}] /\ openedWith' \in [Managers -> S!Drafts \cup {None}]
    BY <1>2, <1>5 DEF S!Open, S!Leave
  <2>2. loads' \in [Managers -> SUBSET (S!Snapshots \cup {None})]
    BY DEF SettingsInv, S!TypeOK, S!Open, S!Leave
  <2> QED BY <1>1, <2>1, <2>2 DEF SettingsInv, S!TypeOK, RowStays
<1>7. FormInv(a)'
  <2>1. form'[a] = None => openedWith'[a] = None /\ loads'[a] = {} /\ busy'[a] = "no"
    BY <1>2, <1>5 DEF SettingsInv, S!TypeOK, S!Open, S!Leave
  <2>2. form'[a] # None => FormHolds(form[a], openedWith[a])'
    BY <1>4, <1>5 DEF FormHolds
  <2>3. openedWith'[a] # None => UpToDate(prepared.expected, prepared.config)'
    BY <1>1, <1>3, <1>4 DEF RowInv
  <2> QED BY <1>1, <1>2, <1>4, <2>1, <2>2, <2>3 DEF FormInv
<1>8. LoadInv(a)'
  BY <1>4 DEF LoadInv
<1>9. SaveInv(a)'
  BY <1>1, <1>2 DEF PageInv, SaveInv, S!NoReply
<1> QED BY <1>1, <1>3, <1>6, <1>7, <1>8, <1>9, OnePage DEF PageInv

-----------------------------------------------------------------------------
(* The service's settings: loads and saves *)

LEMMA LoadStep ==
    ASSUME S!SettingsAssumption, SettingsInv, NEW a \in Managers,
           S!loadSettings(a) \/ S!LoadServed(a) \/ S!LoadFails(a)
    PROVE  SettingsInv'
<1>1. RowStays /\ UNCHANGED <<env, prepared, catalogue, form, openedWith, busy, sent, reply, typedKeys>>
  BY DEF S!loadSettings, S!LoadServed, S!LoadFails, S!serverVars, S!histVars, RowStays
<1>2. PICK s : s = S!settings_snapshot
  OBVIOUS
<1>3. s \in S!Snapshots /\ Comes(s, openedWith[a])
  BY <1>2, SnapshotNow
<1>4. /\ form[a] # None /\ PageInv(a) /\ loads[a] \subseteq S!Snapshots \cup {None}
  BY DEF SettingsInv, S!TypeOK, PageInv, FormInv, S!loadSettings, S!Mounted, S!LoadServed, S!LoadFails
<1>5. /\ loads'[a] \subseteq loads[a] \cup {None, s}
      /\ \A b \in Managers \ {a} : loads'[b] = loads[b]
      /\ loads' \in [Managers -> SUBSET (S!Snapshots \cup {None})]
  <2>1. loads \in [Managers -> SUBSET (S!Snapshots \cup {None})]
    BY DEF SettingsInv, S!TypeOK
  <2>2. PICK l \in SUBSET (S!Snapshots \cup {None}) :
            loads' = [loads EXCEPT ![a] = l] /\ l \subseteq loads[a] \cup {None, s}
    <3>1. CASE S!loadSettings(a)
      BY <1>4, <3>1 DEF S!loadSettings
    <3>2. CASE S!LoadServed(a)
      <4>1. loads' = [loads EXCEPT ![a] = (loads[a] \ {None}) \cup {s}]
        BY <1>2, <3>2, Zenon DEF S!LoadServed
      <4>2. /\ (loads[a] \ {None}) \cup {s} \in SUBSET (S!Snapshots \cup {None})
            /\ (loads[a] \ {None}) \cup {s} \subseteq loads[a] \cup {None, s}
        BY <1>3, <1>4
      <4> QED BY <4>1, <4>2
    <3>3. CASE S!LoadFails(a)
      BY <1>4, <3>3 DEF S!LoadFails
    <3> QED BY <3>1, <3>2, <3>3
  <2> QED BY <2>1, <2>2
<1>6. S!TypeOK'
  <2>1. loads' \in [Managers -> SUBSET (S!Snapshots \cup {None})]
    BY <1>5
  <2> QED BY <1>1, <2>1 DEF SettingsInv, S!TypeOK, RowStays
<1>7. FormInv(a)'
  BY <1>1, <1>4, FormKept DEF PageInv, SettingsInv, FormInv
<1>8. LoadInv(a)'
  BY <1>1, <1>3, <1>4, <1>5, LoadKept DEF PageInv, SettingsInv
<1>9. SaveInv(a)'
  BY <1>1, <1>4, SaveKept DEF PageInv, SettingsInv
<1>10. RowInv' /\ \A b \in Managers \ {a} : PageStays(b)
  BY <1>1, <1>5, RowKept DEF PageStays
<1> QED BY <1>1, <1>6, <1>7, <1>8, <1>9, <1>10, OnePage DEF PageInv

\* A form that begins again from a snapshot.
LEMMA Baseline ==
    ASSUME S!SettingsAssumption, SettingsInv, RowStays, NEW s \in S!Snapshots, NEW d \in S!Drafts \cup {None},
           Comes(s, d), d # None => UpToDate(d.expected, d.config),
           NEW old, NEW g, g = S!handleIncomingDraft(d, S!setBaseline(old, s))
    PROVE  g \in S!Forms /\ g.snapshot = s /\ FormHolds(g, d)'
<1>1. PICK f : f = S!setBaseline(old, s)
  OBVIOUS
<1>2. s.revision \in Nat /\ s.config \in S!Configs /\ s # None /\ s.config # None /\ revision \in Nat
  BY NoneTypes DEF S!Snapshots, SettingsInv, S!TypeOK
<1>3. /\ f.snapshot = s /\ f.config = s.config /\ f.apiKey = None /\ f.clearApiKey = FALSE
      /\ f.pending = FALSE /\ f.applied = FALSE
  BY <1>1 DEF S!setBaseline
<1>4. f \in S!Forms
  BY <1>1, <1>2 DEF S!setBaseline, S!Forms
<1>5. ~S!dirty(f)
  BY <1>3 DEF S!dirty
<1>6. UpToDate(s.revision, s.config)'
  BY <1>2, StaysUpToDate DEF Comes
<1>7. d # None => UpToDate(d.expected, d.config)'
  BY <1>2, StaysUpToDate DEF S!Drafts
<1>8. KeyIsOld(f.apiKey, f.snapshot.revision)'
  BY <1>3 DEF KeyIsOld
<1>9. UpToDate(f.snapshot.revision, f.snapshot.config)' /\ UpToDate(f.snapshot.revision, f.config)'
  BY <1>3, <1>6
<1>10. d # None => d.expected <= f.snapshot.revision
  BY <1>3 DEF Comes
<1> QED BY <1>1, <1>2, <1>3, <1>4, <1>5, <1>7, <1>8, <1>9, <1>10, FormBecomes

LEMMA AnswerStep ==
    ASSUME S!SettingsAssumption, SettingsInv, NEW a \in Managers, S!LoadAnswers(a) \/ S!Saved(a)
    PROVE  SettingsInv'
<1>1. RowStays /\ UNCHANGED <<env, prepared, catalogue, openedWith, sent, typedKeys>>
  BY DEF S!LoadAnswers, S!Saved, S!serverVars, S!histVars, RowStays
<1>2. /\ form \in [Managers -> S!Forms \cup {None}] /\ openedWith[a] \in S!Drafts \cup {None}
      /\ loads \in [Managers -> SUBSET (S!Snapshots \cup {None})] /\ reply \in [Managers -> S!Replies]
      /\ busy \in [Managers -> {"no", "saving", "testing", "syncing", "synced"}]
      /\ PageInv(a)
  BY DEF SettingsInv, S!TypeOK
<1>3. PICK s : /\ s \in S!Snapshots /\ Comes(s, openedWith[a])
               /\ form' = [form EXCEPT ![a] = S!handleIncomingDraft(openedWith[a], S!setBaseline(form[a], s))]
  <2>1. CASE S!LoadAnswers(a)
    <3>1. PICK s \in loads[a] \ {None} : S!Becomes(a, S!setBaseline(form[a], s))
      BY <2>1 DEF S!LoadAnswers
    <3> QED BY <1>2, <3>1 DEF PageInv, LoadInv, S!Becomes
  <2>2. CASE S!Saved(a)
    <3>1. reply[a].data \in S!Snapshots /\ Comes(reply[a].data, openedWith[a])
      BY <1>2, <2>2 DEF S!Saved, PageInv, SaveInv, S!Replies
    <3> QED BY <2>2, <3>1 DEF S!Saved, S!Becomes
  <2> QED BY <2>1, <2>2
<1>4. form[a] # None
  BY <1>2 DEF PageInv, FormInv, S!LoadAnswers, S!Saved
<1>5. PICK d : d = openedWith[a]
  OBVIOUS
<1>6. PICK g : g = form'[a]
  OBVIOUS
<1>7. d # None => UpToDate(d.expected, d.config)
  BY <1>2, <1>5 DEF PageInv, FormInv
<1>8. g = S!handleIncomingDraft(d, S!setBaseline(form[a], s))
  BY <1>2, <1>3, <1>5, <1>6
<1>9. g \in S!Forms /\ g.snapshot = s /\ FormHolds(g, d)'
  BY <1>1, <1>2, <1>3, <1>5, <1>7, <1>8, Baseline
<1>10. /\ loads'[a] \subseteq loads[a]
       /\ \A b \in Managers \ {a} : loads'[b] = loads[b]
       /\ loads' \in [Managers -> SUBSET (S!Snapshots \cup {None})]
  BY <1>2 DEF S!LoadAnswers, S!Saved
<1>11. /\ busy' \in [Managers -> {"no", "saving", "testing", "syncing", "synced"}]
       /\ reply' \in [Managers -> S!Replies]
       /\ \A b \in Managers \ {a} : busy'[b] = busy[b] /\ reply'[b] = reply[b]
       /\ \/ busy'[a] = busy[a] /\ reply'[a] = reply[a]
          \/ busy'[a] # "saving" /\ reply'[a] = S!NoReply /\ busy[a] = "saving" /\ reply[a].data # None
  <2>1. S!NoReply \in S!Replies
    BY DEF S!NoReply, S!Replies
  <2>2. CASE S!LoadAnswers(a)
    BY <1>2, <2>2 DEF S!LoadAnswers
  <2>3. CASE S!Saved(a)
    BY <1>2, <2>1, <2>3 DEF S!Saved
  <2> QED BY <2>2, <2>3
<1>12. S!TypeOK'
  <2>1. form' \in [Managers -> S!Forms \cup {None}]
    BY <1>2, <1>3, <1>6, <1>9
  <2>2. loads' \in [Managers -> SUBSET (S!Snapshots \cup {None})]
    BY <1>10, Zenon
  <2>3. reply' \in [Managers -> S!Replies]
        /\ busy' \in [Managers -> {"no", "saving", "testing", "syncing", "synced"}]
    BY <1>11, Zenon
  <2> QED BY <1>1, <2>1, <2>2, <2>3 DEF SettingsInv, S!TypeOK, RowStays
<1>13. FormInv(a)'
  <2>1. form'[a] # None /\ form'[a].snapshot # None
    BY <1>3, <1>6, <1>9, NoneTypes
  <2>2. FormHolds(form[a], openedWith[a])'
    BY <1>1, <1>5, <1>6, <1>9 DEF FormHolds, UpToDate, KeyIsOld
  <2>3. openedWith[a] # None => UpToDate(openedWith[a].expected, openedWith[a].config)'
    <3>1. revision \in Nat
      BY DEF SettingsInv, S!TypeOK
    <3> QED BY <1>2, <1>1, <3>1, StaysUpToDate DEF PageInv, FormInv, S!Drafts
  <2> QED BY <1>1, <2>1, <2>2, <2>3 DEF FormInv, UpToDate
<1>14. LoadInv(a)'
  BY <1>1, <1>2, <1>10, LoadKept DEF PageInv, SettingsInv
<1>15. SaveInv(a)'
  <2>1. CASE busy'[a] = busy[a] /\ reply'[a] = reply[a]
    BY <1>1, <1>2, <2>1, SaveKept DEF PageInv, SettingsInv
  <2>2. CASE busy'[a] # "saving" /\ reply'[a] = S!NoReply /\ busy[a] = "saving" /\ reply[a].data # None
    BY <1>1, <1>2, <2>2 DEF PageInv, SaveInv, S!NoReply
  <2> QED BY <1>11, <2>1, <2>2
<1>16. RowInv' /\ \A b \in Managers \ {a} : PageStays(b)
  BY <1>1, <1>2, <1>3, <1>10, <1>11, RowKept DEF PageStays
<1> QED BY <1>1, <1>12, <1>13, <1>14, <1>15, <1>16, OnePage DEF PageInv

\* A page that saves, waits or works, whose form stays what it says.
LEMMA WorkStep ==
    ASSUME S!SettingsAssumption, SettingsInv, NEW a \in Managers,
           S!save(a) \/ S!SavedIsRead(a) \/ S!runSync(a) \/ S!SyncServed(a) \/ S!WorkEnds(a)
    PROVE  SettingsInv'
<1>1. RowStays /\ UNCHANGED <<env, prepared, form, openedWith, loads, typedKeys>>
  BY DEF S!save, S!SavedIsRead, S!runSync, S!SyncServed, S!WorkEnds, S!serverVars, S!histVars, RowStays
<1>2. /\ busy \in [Managers -> {"no", "saving", "testing", "syncing", "synced"}] /\ PageInv(a)
      /\ sent \in [Managers -> S!Updates \cup {None}] /\ reply \in [Managers -> S!Replies]
      /\ form \in [Managers -> S!Forms \cup {None}] /\ revision \in Nat
  BY DEF SettingsInv, S!TypeOK
<1>3. /\ busy' \in [Managers -> {"no", "saving", "testing", "syncing", "synced"}]
      /\ \A b \in Managers \ {a} : busy'[b] = busy[b]
      /\ busy'[a] # "no" => form[a].snapshot # None
  BY <1>2 DEF S!save, S!SavedIsRead, S!runSync, S!SyncServed, S!WorkEnds, S!Enabled, PageInv, FormInv
<1>4. form[a] # None
  BY <1>2 DEF S!save, S!SavedIsRead, S!runSync, S!SyncServed, S!WorkEnds, S!Enabled, S!Mounted, PageInv, FormInv, SaveInv, S!NoReply
<1>5. FormInv(a)'
  BY <1>1, <1>2, <1>3, <1>4, FormKept DEF PageInv, SettingsInv
<1>6. LoadInv(a)'
  BY <1>1, <1>2, LoadKept DEF PageInv, SettingsInv
<1>7. /\ sent' \in [Managers -> S!Updates \cup {None}]
      /\ reply' \in [Managers -> S!Replies]
      /\ \A b \in Managers \ {a} : sent'[b] = sent[b] /\ reply'[b] = reply[b]
      /\ catalogue' \in Directories \cup {None}
      /\ SaveInv(a)'
  <2>1. CASE S!save(a)
    <3>1. PICK f : f = form[a]
      OBVIOUS
    <3>2. PICK u : u = [expected |-> f.snapshot.revision, config |-> f.config, key |-> f.apiKey, clear |-> f.clearApiKey]
      OBVIOUS
    <3>3. f \in S!Forms /\ f.snapshot \in S!Snapshots /\ f.snapshot # None /\ f.config \in S!Configs
          /\ UpToDate(f.snapshot.revision, f.config) /\ KeyIsOld(f.apiKey, f.snapshot.revision)
      BY <1>2, <1>4, <2>1, <3>1 DEF S!save, S!Enabled, PageInv, FormInv, FormHolds, S!Forms
    <3>4. u \in S!Updates /\ u # None
      <4>1. u \in S!Updates
        BY <3>2, <3>3 DEF S!Updates, S!Snapshots, S!Forms
      <4> QED BY <4>1, NoneTypes
    <3>5. u.expected = f.snapshot.revision /\ u.config = f.config /\ u.key = f.apiKey
      BY <3>2
    <3>6. f.snapshot.revision < MaxRevision /\ f.snapshot.revision \in Nat
      BY <2>1, <3>1, <3>3 DEF S!save, S!Snapshots
    <3>7. UpToDate(u.expected, u.config)' /\ KeyIsOld(u.key, u.expected)'
      BY <1>1, <1>2, <3>3, <3>5, <3>6, StaysUpToDate DEF UpToDate
    <3>8. sent' = [sent EXCEPT ![a] = u]
      BY <2>1, <3>1, <3>2, Zenon DEF S!save
    <3>9. busy'[a] = "saving" /\ reply' = reply /\ reply[a] = S!NoReply /\ catalogue' = catalogue
      BY <1>2, <2>1 DEF S!save, S!Enabled, PageInv, SaveInv, S!serverVars
    <3>10. sent'[a] = u
      BY <1>2, <3>8
    <3>11. SaveInv(a)'
      BY <3>5, <3>6, <3>7, <3>9, <3>10 DEF SaveInv, S!NoReply, UpToDate, KeyIsOld
    <3>12. catalogue' \in Directories \cup {None}
      BY <3>9 DEF SettingsInv, S!TypeOK
    <3> QED BY <1>2, <3>4, <3>8, <3>9, <3>11, <3>12
  <2>2. CASE S!SavedIsRead(a)
    <3>1. PICK s : s = S!settings_snapshot
      OBVIOUS
    <3>2. s \in S!Snapshots /\ Comes(s, openedWith[a])
      BY <3>1, SnapshotNow
    <3>3. Comes(s, openedWith[a])'
      BY <1>1, <1>2, <3>2, ComesStill DEF Comes
    <3>4. reply' = [reply EXCEPT ![a].data = s]
      BY <2>2, <3>1, Zenon DEF S!SavedIsRead
    <3>5. reply' \in [Managers -> S!Replies] /\ reply'[a].data = s /\ reply'[a].answer = "saved"
      BY <1>2, <2>2, <3>2, <3>4 DEF S!SavedIsRead, S!Replies
    <3>6. reply[a] # S!NoReply
      BY <2>2 DEF S!SavedIsRead, S!NoReply
    <3>7. UNCHANGED <<sent, busy, catalogue>> /\ sent[a] = None /\ busy[a] = "saving"
      BY <1>2, <2>2, <3>6 DEF S!SavedIsRead, PageInv, SaveInv, S!serverVars
    <3>8. SaveInv(a)'
      BY <3>3, <3>5, <3>7 DEF SaveInv
    <3>9. catalogue' \in Directories \cup {None}
      BY <3>7 DEF SettingsInv, S!TypeOK
    <3>10. \A b \in Managers \ {a} : sent'[b] = sent[b] /\ reply'[b] = reply[b]
      BY <1>2, <3>4, <3>7
    <3> QED BY <1>2, <3>5, <3>7, <3>8, <3>9, <3>10
  <2>3. CASE S!runSync(a) \/ S!SyncServed(a) \/ S!WorkEnds(a)
    <3>1. UNCHANGED <<sent, reply>> /\ busy[a] # "saving" /\ busy'[a] # "saving"
      BY <1>2, <2>3 DEF S!runSync, S!SyncServed, S!WorkEnds, S!Enabled
    <3>2. catalogue' \in Directories \cup {None}
      BY <2>3 DEF S!runSync, S!SyncServed, S!WorkEnds, SettingsInv, S!TypeOK, S!serverVars
    <3>3. SaveInv(a)'
      BY <1>1, <1>2, <3>1, SaveKept DEF PageInv, SettingsInv
    <3> QED BY <1>2, <3>1, <3>2, <3>3
  <2> QED BY <2>1, <2>2, <2>3
<1>8. S!TypeOK'
  BY <1>1, <1>3, <1>7 DEF SettingsInv, S!TypeOK, RowStays
<1>9. RowInv' /\ \A b \in Managers \ {a} : PageStays(b)
  BY <1>1, <1>3, <1>7, RowKept DEF PageStays
<1> QED BY <1>1, <1>5, <1>6, <1>7, <1>8, <1>9, OnePage DEF PageInv

\* What the server makes of a save.
LEMMA ServedStep ==
    ASSUME S!SettingsAssumption, SettingsInv, NEW a \in Managers, S!SaveServed(a)
    PROVE  SettingsInv' /\ savedConfig.rest \subseteq savedConfig'.rest
           /\ (revision' # revision => S!load_settings' = savedConfig')
<1>1. PICK u : u = sent[a]
  OBVIOUS
<1>2. /\ sent \in [Managers -> S!Updates \cup {None}] /\ reply \in [Managers -> S!Replies]
      /\ form[a] \in S!Forms /\ form[a] # None /\ form[a].snapshot # None
      /\ u \in S!Updates /\ reply[a] = S!NoReply /\ busy[a] = "saving" /\ PageInv(a)
      /\ revision \in 0..MaxRevision /\ MaxRevision \in Nat /\ savedConfig \in S!Configs
      /\ u.expected < MaxRevision /\ UpToDate(u.expected, u.config) /\ KeyIsOld(u.key, u.expected)
  BY <1>1, NoneTypes DEF SettingsInv, S!TypeOK, PageInv, FormInv, SaveInv, S!SaveServed
<1>3. /\ UNCHANGED <<env, prepared, catalogue, form, openedWith, loads, busy, typedKeys>>
      /\ sent' = [sent EXCEPT ![a] = None]
  BY DEF S!SaveServed
<1>4. PICK r \in {"saved", "conflict", "refused"} : reply' = [reply EXCEPT ![a].answer = r]
  BY DEF S!SaveServed
<1>5. /\ reply' \in [Managers -> S!Replies] /\ reply'[a].data = None
      /\ sent' \in [Managers -> S!Updates \cup {None}] /\ sent'[a] = None
      /\ \A b \in Managers \ {a} : sent'[b] = sent[b] /\ reply'[b] = reply[b]
  BY <1>2, <1>3, <1>4 DEF S!Replies, S!NoReply
<1>6. CASE S!Acceptable(u) /\ S!Expected(u)
  <2>1. /\ revision' = revision + 1 /\ savedConfig' = u.config /\ key' = S!KeyAfter(u)
        /\ gone' = IF key' = key THEN gone ELSE gone \cup ({key} \ {None})
    BY <1>1, <1>6 DEF S!SaveServed
  <2>2. u.expected = revision
    BY <1>6 DEF S!Expected
  <2>3. /\ u.key # None => u.key \in typedKeys /\ u.key \notin gone \cup {key}
        /\ u.config \in S!Configs /\ u.key \in Keys \cup {None}
    BY <1>2, <2>2 DEF KeyIsOld, S!Updates
  <2>4. /\ key \in typedKeys \cup {None} /\ key \notin gone
        /\ gone \subseteq typedKeys /\ typedKeys \subseteq Keys /\ None \notin Keys
    BY NoneTypes DEF SettingsInv, RowInv, S!TypeOK
  <2>5. key' \in typedKeys \cup {None} /\ key' \notin gone' /\ gone' \subseteq typedKeys
    <3>1. key' \in {None, u.key, key}
      BY <2>1 DEF S!KeyAfter
    <3>2. key' # key => key' \notin gone
      BY <2>1, <2>3, <2>4 DEF S!KeyAfter
    <3> QED BY <2>1, <2>3, <2>4, <3>1, <3>2
  <2>6. RowSaved
    BY <1>3, <2>1 DEF RowSaved
  <2>7. S!TypeOK'
    <3>1. revision' \in 0..MaxRevision
      BY <1>2, <2>1, <2>2
    <3> QED BY <1>3, <1>5, <2>1, <2>3, <2>4, <2>5, <3>1 DEF SettingsInv, S!TypeOK
  <2>8. RowInv'
    <3>1. prepared # None => UpToDate(prepared.expected, prepared.config)'
      BY <1>2, <1>3, <2>6, StaysUpToDate DEF SettingsInv, RowInv, S!TypeOK, S!Drafts
    <3> QED BY <1>3, <2>5, <3>1 DEF RowInv, UpToDate
  <2>9. PageInv(a)'
    <3>1. FormInv(a)'
      BY <1>2, <1>3, <2>6, FormKept DEF PageInv, SettingsInv
    <3>2. LoadInv(a)'
      BY <1>2, <1>3, <2>6, LoadKept DEF PageInv, SettingsInv
    <3>3. SaveInv(a)'
      BY <1>2, <1>3, <1>5 DEF SaveInv
    <3> QED BY <3>1, <3>2, <3>3 DEF PageInv
  <2>10. \A b \in Managers \ {a} : PageStays(b)
    BY <1>3, <1>5 DEF PageStays
  <2>11. savedConfig.rest \subseteq savedConfig'.rest
    BY <1>2, <2>1, <2>2 DEF UpToDate
  <2>12. S!load_settings' = savedConfig'
    <3>1. env # None => savedConfig'.path = env
      BY <1>6, <2>1 DEF S!Acceptable
    <3>2. S!load_settings' = [savedConfig' EXCEPT !.path = IF env' # None THEN env' ELSE savedConfig'.path]
      BY DEF S!load_settings
    <3> QED BY <1>3, <2>1, <2>3, <3>1, <3>2 DEF S!Configs
  <2> QED BY <2>6, <2>7, <2>8, <2>9, <2>10, <2>11, <2>12, OnePage
<1>7. CASE ~(S!Acceptable(u) /\ S!Expected(u))
  <2>1. UNCHANGED <<revision, savedConfig, key, gone>>
    BY <1>1, <1>7 DEF S!SaveServed
  <2>2. RowStays
    BY <1>3, <2>1 DEF RowStays
  <2>3. S!TypeOK'
    BY <1>3, <1>5, <2>1 DEF SettingsInv, S!TypeOK
  <2>4. RowInv'
    BY <1>3, <2>2, RowKept
  <2>5. PageInv(a)'
    <3>1. FormInv(a)'
      BY <1>2, <1>3, <2>2, FormKept DEF PageInv, SettingsInv
    <3>2. LoadInv(a)'
      BY <1>2, <1>3, <2>2, LoadKept DEF PageInv, SettingsInv
    <3>3. SaveInv(a)'
      BY <1>2, <1>3, <1>5 DEF SaveInv
    <3> QED BY <3>1, <3>2, <3>3 DEF PageInv
  <2>6. \A b \in Managers \ {a} : PageStays(b)
    BY <1>3, <1>5 DEF PageStays
  <2> QED BY <2>1, <2>2, <2>3, <2>4, <2>5, <2>6, OnePage
<1> QED BY <1>6, <1>7

\* 409, 400, or no answer: the fields stay as they are.
LEMMA FailsStep ==
    ASSUME S!SettingsAssumption, SettingsInv, NEW a \in Managers, S!SaveFails(a)
    PROVE  SettingsInv'
<1>1. /\ form \in [Managers -> S!Forms \cup {None}] /\ sent \in [Managers -> S!Updates \cup {None}]
      /\ reply \in [Managers -> S!Replies] /\ openedWith[a] \in S!Drafts \cup {None}
      /\ busy \in [Managers -> {"no", "saving", "testing", "syncing", "synced"}]
      /\ PageInv(a) /\ revision \in Nat /\ S!TypeOK
  BY DEF SettingsInv, S!TypeOK
<1>2. RowStays /\ UNCHANGED <<env, prepared, catalogue, openedWith, loads, typedKeys>>
  BY DEF S!SaveFails, S!serverVars, S!histVars, RowStays
<1>3. form[a] \in S!Forms /\ form[a].snapshot # None /\ FormHolds(form[a], openedWith[a])
  BY <1>1 DEF PageInv, FormInv, S!SaveFails
<1>4. PICK b \in BOOLEAN : b = (form[a].revisionConflict \/ reply[a].answer = "conflict")
  BY <1>3 DEF S!Forms
<1>5. PICK f : f = [form[a] EXCEPT !.revisionConflict = b]
  OBVIOUS
<1>6. /\ f \in S!Forms /\ f.snapshot = form[a].snapshot /\ f.config = form[a].config
      /\ f.apiKey = form[a].apiKey /\ f.applied = form[a].applied /\ f.pending = form[a].pending
  BY <1>3, <1>5 DEF S!Forms
<1>7. form' = [form EXCEPT ![a] = f]
  BY <1>4, <1>5 DEF S!SaveFails
<1>8. /\ busy' = [busy EXCEPT ![a] = "no"] /\ sent' = [sent EXCEPT ![a] = None]
      /\ reply' = [reply EXCEPT ![a] = S!NoReply]
  BY DEF S!SaveFails
<1>9. S!NoReply \in S!Replies /\ S!NoReply.data = None
  BY DEF S!NoReply, S!Replies
<1>10. S!TypeOK'
  <2>1. form' \in [Managers -> S!Forms \cup {None}] /\ busy' \in [Managers -> {"no", "saving", "testing", "syncing", "synced"}]
        /\ sent' \in [Managers -> S!Updates \cup {None}] /\ reply' \in [Managers -> S!Replies]
    BY <1>1, <1>6, <1>7, <1>8, <1>9
  <2> QED BY <1>1, <1>2, <2>1 DEF S!TypeOK, RowStays
<1>11. FormInv(a)'
  <2>1. FormHolds(f, openedWith[a])
    BY <1>3, <1>6 DEF FormHolds
  <2>2. /\ UpToDate(f.snapshot.revision, f.snapshot.config)' /\ UpToDate(f.snapshot.revision, f.config)'
        /\ KeyIsOld(f.apiKey, f.snapshot.revision)'
    BY <1>1, <1>2, <1>3, <1>6, <2>1, FormStays
  <2>3. form'[a] = f /\ form'[a] # None /\ f.snapshot # None /\ openedWith'[a] = openedWith[a]
    BY <1>1, <1>2, <1>3, <1>6, <1>7, NoneTypes
  <2>4. FormHolds(form[a], openedWith[a])'
    BY <2>1, <2>2, <2>3 DEF FormHolds, UpToDate, KeyIsOld
  <2>5. openedWith[a] # None => UpToDate(openedWith[a].expected, openedWith[a].config)'
    BY <1>1, <1>2, StaysUpToDate DEF PageInv, FormInv, S!Drafts
  <2> QED BY <2>3, <2>4, <2>5 DEF FormInv, UpToDate
<1>12. LoadInv(a)'
  BY <1>1, <1>2, LoadKept DEF PageInv
<1>13. SaveInv(a)'
  BY <1>1, <1>8, <1>9 DEF SaveInv
<1>14. RowInv' /\ \A c \in Managers \ {a} : PageStays(c)
  BY <1>1, <1>2, <1>7, <1>8, RowKept DEF PageStays
<1> QED BY <1>2, <1>10, <1>11, <1>12, <1>13, <1>14, OnePage DEF PageInv

\* The assistant prepares a draft, or the service starts again.
LEMMA ServerStep ==
    ASSUME S!SettingsAssumption, SettingsInv, S!Propose \/ S!Restart
    PROVE  SettingsInv'
<1>1. RowStays /\ UNCHANGED <<form, openedWith, loads, busy, sent, reply, typedKeys, catalogue>>
  BY DEF S!Propose, S!Restart, S!pageVars, S!histVars, RowStays
<1>2. \A b \in Managers : PageStays(b)
  BY <1>1 DEF PageStays
<1>3. \A b \in Managers : PageInv(b)'
  BY <1>1, <1>2, PageUntouched DEF SettingsInv
<1>4. S!load_settings \in S!Configs /\ S!load_settings.rest = savedConfig.rest
  BY NoneTypes DEF SettingsInv, S!TypeOK, S!load_settings, S!Configs
<1>5. /\ prepared' \in S!Drafts \cup {None} /\ env' \in Directories \cup {None}
      /\ prepared' = prepared
         \/ (prepared'.expected = revision /\ savedConfig.rest \subseteq prepared'.config.rest)
  <2>1. CASE S!Propose
    <3>1. PICK c : c = [S!load_settings EXCEPT !.rest = @ \cup {"draft"}]
      OBVIOUS
    <3>2. c \in S!Configs /\ c.rest = savedConfig.rest \cup {"draft"}
      BY <1>4, <3>1 DEF S!Configs, S!Edits
    <3>3. prepared' = [expected |-> revision, config |-> c] /\ env' = env
      BY <2>1, <3>1, Zenon DEF S!Propose
    <3> QED BY <3>2, <3>3 DEF S!Drafts, SettingsInv, S!TypeOK
  <2>2. CASE S!Restart
    BY <2>2 DEF S!Restart, SettingsInv, S!TypeOK
  <2> QED BY <2>1, <2>2
<1>6. S!TypeOK'
  BY <1>1, <1>5 DEF SettingsInv, S!TypeOK, RowStays
<1>7. RowInv'
  <2>1. CASE prepared' = prepared
    BY <1>1, <2>1, RowKept
  <2>2. CASE prepared'.expected = revision /\ savedConfig.rest \subseteq prepared'.config.rest
    BY <1>1, <2>2 DEF SettingsInv, S!TypeOK, RowInv, RowStays, UpToDate
  <2> QED BY <1>5, <2>1, <2>2
<1> QED BY <1>3, <1>6, <1>7 DEF SettingsInv

LEMMA SettingsHold ==
    ASSUME S!SettingsAssumption
    PROVE  S!Spec => []SettingsInv
<1>1. S!Init => SettingsInv
  <2>1. SUFFICES ASSUME S!Init PROVE SettingsInv
    OBVIOUS
  <2>2. S!TypeOK
    <3>1. savedConfig \in S!Configs
      BY <2>1, NoneTypes DEF S!Init, S!Configs, S!Edits
    <3>2. S!NoReply \in S!Replies
      BY DEF S!NoReply, S!Replies
    <3> QED BY <2>1, <3>1, <3>2, NoneTypes DEF S!Init, S!TypeOK
  <2>3. RowInv
    BY <2>1 DEF S!Init, RowInv
  <2>4. ASSUME NEW a \in Managers PROVE PageInv(a)
    BY <2>1, <2>4 DEF S!Init, PageInv, FormInv, LoadInv, SaveInv, S!NoReply
  <2> QED BY <2>2, <2>3, <2>4 DEF SettingsInv
<1>2. SettingsInv /\ [S!Next]_S!vars => SettingsInv'
  <2>1. SUFFICES ASSUME SettingsInv, [S!Next]_S!vars PROVE SettingsInv'
    OBVIOUS
  <2>2. CASE S!Propose \/ S!Restart
    BY <2>1, <2>2, ServerStep
  <2>3. ASSUME NEW a \in Managers, S!Page(a) PROVE SettingsInv'
    BY <2>1, <2>3, EditStep, RevertStep, OpenStep, LoadStep, AnswerStep, WorkStep, ServedStep, FailsStep DEF S!Page
  <2>4. CASE UNCHANGED S!vars
    <3>1. RowStays /\ UNCHANGED <<env, prepared, catalogue, form, openedWith, loads, busy, sent, reply, typedKeys>>
      BY <2>4 DEF S!vars, RowStays
    <3>2. \A b \in Managers : PageStays(b)
      BY <3>1 DEF PageStays
    <3>3. \A b \in Managers : PageInv(b)'
      BY <2>1, <3>1, <3>2, PageUntouched DEF SettingsInv
    <3>4. S!TypeOK' /\ RowInv'
      BY <2>1, <3>1, RowKept DEF SettingsInv, S!TypeOK, RowStays
    <3> QED BY <3>3, <3>4 DEF SettingsInv
  <2> QED BY <2>1, <2>2, <2>3, <2>4 DEF S!Next
<1> QED BY <1>1, <1>2, PTL DEF S!Spec

\* service_settings.py: a provider key that was replaced or cleared never comes
\* back, although forms keep a key after a failed save and saves are repeated;
\* Settings.svelte: a draft that waits for a decision was made from an older
\* revision than the form's.
THEOREM KeysStayGone ==
    ASSUME S!SettingsAssumption
    PROVE  S!Spec => [](S!TypeOK /\ S!KeysNeverReturn /\ S!PendingIsOld)
<1>1. ASSUME SettingsInv PROVE S!PendingIsOld
  <2>1. SUFFICES ASSUME NEW a \in Managers, form[a] # None, form[a].pending
                 PROVE  openedWith[a].expected < form[a].snapshot.revision
    BY DEF S!PendingIsOld
  <2>2. FormHolds(form[a], openedWith[a])
    BY <1>1, <2>1 DEF SettingsInv, PageInv, FormInv
  <2>3. S!NewForm.pending = FALSE
    BY DEF S!NewForm
  <2> QED BY <2>1, <2>2, <2>3 DEF FormHolds
<1>2. SettingsInv => S!TypeOK /\ S!KeysNeverReturn
  BY DEF SettingsInv, RowInv, S!KeysNeverReturn
<1> QED BY <1>1, <1>2, SettingsHold, PTL

\* service_settings.py, save_settings: no save, of a form or of a draft prepared
\* long ago, drops an edit somebody else has saved; and what was accepted is in
\* force at once, whatever the environment overrides.
THEOREM SavesLoseNothing ==
    ASSUME S!SettingsAssumption
    PROVE  S!Spec => [][S!LosesNothing /\ S!InForce]_S!vars
<1>1. SettingsInv /\ [S!Next]_S!vars => [S!LosesNothing /\ S!InForce]_S!vars
  <2>1. SUFFICES ASSUME SettingsInv, S!Next PROVE S!LosesNothing /\ S!InForce
    OBVIOUS
  <2>2. CASE \E a \in Managers : S!SaveServed(a)
    BY <2>1, <2>2, ServedStep DEF S!LosesNothing, S!InForce
  <2>3. CASE ~\E a \in Managers : S!SaveServed(a)
    <3>1. UNCHANGED <<revision, savedConfig>>
      BY <2>1, <2>3 DEF S!Next, S!Page, S!Propose, S!Restart, S!Open, S!Leave, S!EditRest, S!EditPath, S!EditKey,
             S!TickClear, S!revert, S!rejectProposal, S!loadSettings, S!LoadServed, S!LoadAnswers, S!LoadFails,
             S!save, S!SavedIsRead, S!Saved, S!SaveFails, S!runSync, S!SyncServed, S!WorkEnds, S!serverVars
    <3> QED BY <3>1 DEF S!LosesNothing, S!InForce
  <2> QED BY <2>2, <2>3
<1> QED BY <1>1, SettingsHold, PTL DEF S!Spec
-----------------------------------------------------------------------------
(* The administrator's chats: replies *)

CONSTANTS Panels, Embedded, Chats, Tasks, MaxTurns, MaxAttempts

VARIABLES chats, used, turns, listed, chat, shown, selected, loading, composing, starting, reading,
          creating, deleting, sending, post, pressed, crossed

A == INSTANCE AdminChat WITH Tabs <- Panels, active <- chat, busy <- composing

\* A reply that its generator is writing, or will.
Writing == {"idle", "running", "done", "failing"}

TurnHolds(t) ==
    /\ t \in A!Turns /\ t.task = t.pressed
    /\ t.gen \in Writing => t.status = "streaming" /\ ~t.old
    /\ t.status = "complete" => t.gen = "ended"

\* What a turn may become.
Follows(t, u) ==
    /\ TurnHolds(u) /\ u.chat = t.chat
    /\ u.gen \in Writing => t.gen \in Writing
    /\ t.status = "complete" => u.status = "complete"

TurnsInv ==
    /\ turns \in Seq(A!Turns) /\ Len(turns) <= MaxTurns
    /\ \A n \in 1..Len(turns) : TurnHolds(turns[n])
    /\ \A m, n \in 1..Len(turns) :
           m # n /\ turns[m].chat = turns[n].chat => ~(turns[m].gen \in Writing /\ turns[n].gen \in Writing)

PostInv == \A w \in Panels : post[w] # None => post[w].task = post[w].pressed

\* Every turn follows what it was.
Follow == /\ turns' \in Seq(A!Turns) /\ Len(turns') = Len(turns)
          /\ \A n \in 1..Len(turns) : Follows(turns[n], turns'[n])

LEMMA FollowKeeps ==
    ASSUME TurnsInv, Follow
    PROVE  TurnsInv' /\ A!StaysComplete
<1>1. TurnsInv'
  BY DEF TurnsInv, Follow, Follows
<1>2. A!StaysComplete
  BY DEF Follow, Follows, A!StaysComplete, A!Numbers
<1> QED BY <1>1, <1>2

\* A turn follows itself, and what a function of its number makes of it is a turn.
LEMMA FollowByNumber ==
    ASSUME TurnsInv, NEW F, turns' = F, F = [n \in 1..Len(turns) |-> F[n]],
           \A n \in 1..Len(turns) : Follows(turns[n], F[n])
    PROVE  Follow
<1>1. Len(turns) \in Nat /\ \A n \in 1..Len(turns) : F[n] \in A!Turns
  BY DEF TurnsInv, Follows, TurnHolds
<1>2. F \in Seq(A!Turns) /\ Len(F) = Len(turns)
  BY <1>1
<1> QED BY <1>2 DEF Follow

LEMMA OneFollows ==
    ASSUME TurnsInv, NEW n \in 1..Len(turns), NEW u, Follows(turns[n], u),
           turns' = [turns EXCEPT ![n] = u]
    PROVE  Follow
<1>1. u \in A!Turns /\ turns \in Seq(A!Turns) /\ Len(turns) \in Nat
  BY DEF Follows, TurnHolds, TurnsInv
<1>2. turns' \in Seq(A!Turns) /\ Len(turns') = Len(turns)
  BY <1>1
<1>3. \A m \in 1..Len(turns) : Follows(turns[m], turns[m])
  BY DEF Follows, TurnsInv
<1>4. \A m \in 1..Len(turns) : turns'[m] = IF m = n THEN u ELSE turns[m]
  BY <1>1
<1> QED BY <1>2, <1>3, <1>4 DEF Follow

\* A generator goes on, or a row that was left behind gets old.
LEMMA ReplyFollows ==
    ASSUME TurnsInv, NEW n \in A!Numbers, A!Reply(n)
    PROVE  Follow
<1>1. n \in 1..Len(turns) /\ TurnHolds(turns[n]) /\ turns[n] \in A!Turns
  BY DEF A!Numbers, TurnsInv, TurnHolds
<1>2. ASSUME NEW from, NEW to, NEW status,
             turns[n].gen = from, turns' = [turns EXCEPT ![n].gen = to, ![n].status = status],
             Follows(turns[n], [turns[n] EXCEPT !.gen = to, !.status = status])
      PROVE  Follow
  <2>1. PICK u : u = [turns[n] EXCEPT !.gen = to, !.status = status]
    OBVIOUS
  <2>2. turns' = [turns EXCEPT ![n] = u]
    BY <1>2, <2>1
  <2> QED BY <1>1, <1>2, <2>1, <2>2, OneFollows
<1>3. ASSUME NEW to \in {"running", "done", "failing", "late", "ended"},
             NEW status \in {"streaming", "complete", "interrupted", "error"},
             turns[n].status # "complete",
             to \in Writing => turns[n].gen \in Writing /\ status = turns[n].status,
             status = "complete" => to = "ended"
      PROVE  Follows(turns[n], [turns[n] EXCEPT !.gen = to, !.status = status])
  BY <1>1, <1>3 DEF Follows, TurnHolds, A!Turns
<1>4. turns[n].status \in {"streaming", "complete", "interrupted", "error"}
  BY <1>1 DEF A!Turns
<1>5. CASE A!Start(n)
  BY <1>1, <1>2, <1>3, <1>4, <1>5 DEF A!Start, A!Generator, TurnHolds, Writing
<1>6. CASE A!Done(n)
  BY <1>1, <1>2, <1>3, <1>4, <1>6 DEF A!Done, A!Generator, TurnHolds, Writing
<1>7. CASE A!DoneWritten(n)
  BY <1>1, <1>2, <1>3, <1>4, <1>7 DEF A!DoneWritten, A!Generator, TurnHolds, Writing
<1>8. CASE A!Failing(n)
  BY <1>1, <1>2, <1>3, <1>4, <1>8 DEF A!Failing, A!Generator, TurnHolds, Writing
<1>9. CASE A!FailingWritten(n)
  BY <1>1, <1>2, <1>3, <1>4, <1>9 DEF A!FailingWritten, A!Generator, TurnHolds, Writing
<1>10. CASE A!Deadline(n)
  BY <1>1, <1>2, <1>3, <1>4, <1>10 DEF A!Deadline, A!Generator, TurnHolds, Writing
<1>11. CASE A!LateWritten(n)
  BY <1>1, <1>2, <1>3, <1>4, <1>11 DEF A!LateWritten, A!Generator, TurnHolds, Writing
<1>12. CASE A!Disconnect(n)
  BY <1>1, <1>2, <1>3, <1>4, <1>12 DEF A!Disconnect, A!Generator, TurnHolds, Writing
<1>13. CASE A!Age(n)
  <2>1. PICK u : u = [turns[n] EXCEPT !.old = TRUE]
    OBVIOUS
  <2>2. turns' = [turns EXCEPT ![n] = u] /\ turns[n].gen = "dead"
    BY <1>13, <2>1 DEF A!Age
  <2>3. Follows(turns[n], u)
    BY <1>1, <2>1, <2>2 DEF Follows, TurnHolds, A!Turns, Writing
  <2> QED BY <1>1, <2>2, <2>3, OneFollows
<1> QED BY <1>5, <1>6, <1>7, <1>8, <1>9, <1>10, <1>11, <1>12, <1>13 DEF A!Reply

\* The server stops; a stream loses its client.
LEMMA CrashFollows ==
    ASSUME TurnsInv, A!Crash
    PROVE  Follow
<1> DEFINE F == [n \in 1..Len(turns) |-> IF turns[n].gen \in A!Alive
                                        THEN [turns[n] EXCEPT !.gen = "dead"] ELSE turns[n]]
<1>1. turns' = F
  BY DEF A!Crash, A!Numbers
<1>2. ASSUME NEW n \in 1..Len(turns) PROVE Follows(turns[n], F[n])
  <2>1. TurnHolds(turns[n]) /\ turns[n] \in A!Turns
    BY DEF TurnsInv, TurnHolds
  <2>2. CASE turns[n].gen \in A!Alive
    BY <2>1, <2>2 DEF Follows, TurnHolds, A!Turns, A!Alive, Writing
  <2>3. CASE turns[n].gen \notin A!Alive
    BY <2>1, <2>3 DEF Follows
  <2> QED BY <2>2, <2>3
<1> HIDE DEF F
<1> QED BY <1>1, <1>2, FollowByNumber DEF F

LEMMA ClosedFollows ==
    ASSUME TurnsInv, NEW w \in Panels, A!Open(w) \/ A!Stop(w)
    PROVE  Follow
<1> DEFINE F == [n \in 1..Len(turns) |-> IF n \in {m \in 1..Len(turns) : turns'[m] # turns[m]}
                                        THEN [turns[n] EXCEPT !.open = FALSE] ELSE turns[n]]
<1>1. turns' = F
  <2>1. turns' = [n \in 1..Len(turns) |-> turns'[n]]
    BY DEF A!Open, A!Stop, A!Numbers
  <2>2. ASSUME NEW n \in 1..Len(turns) PROVE turns'[n] \in {turns[n], [turns[n] EXCEPT !.open = FALSE]}
    BY DEF A!Open, A!Stop, A!Numbers
  <2>3. ASSUME NEW n \in 1..Len(turns) PROVE turns'[n] = F[n]
    BY <2>2
  <2> QED BY <2>1, <2>3
<1>2. ASSUME NEW n \in 1..Len(turns) PROVE Follows(turns[n], F[n])
  <2>1. TurnHolds(turns[n]) /\ turns[n] \in A!Turns
    BY DEF TurnsInv, TurnHolds
  <2>2. Follows(turns[n], [turns[n] EXCEPT !.open = FALSE])
    BY <2>1 DEF Follows, TurnHolds, A!Turns
  <2>3. Follows(turns[n], turns[n])
    BY <2>1 DEF Follows
  <2> QED BY <2>2, <2>3
<1> HIDE DEF F
<1> QED BY <1>1, <1>2, FollowByNumber DEF F

\* begin_reply: a reply begins only where no other is written.
LEMMA BeginTurns ==
    ASSUME TurnsInv, NEW w \in Panels, A!Begin(w), post[w] \in A!Posts, post[w].task = post[w].pressed,
           MaxTurns \in Nat
    PROVE  TurnsInv' /\ A!StaysComplete
<1> DEFINE c == post[w].chat
           F == [n \in 1..Len(turns) |-> IF turns[n].chat = c /\ turns[n].status = "streaming"
                                        THEN [turns[n] EXCEPT !.status = "interrupted"] ELSE turns[n]]
<1>1. PICK t : /\ t \in A!Turns /\ TurnHolds(t) /\ t.chat = c
               /\ turns' = Append(F, t)
  <2>1. PICK b \in BOOLEAN : b = (sending[w] # None /\ sending[w].phase = "posting")
    OBVIOUS
  <2>2. PICK t : t = [chat |-> c, task |-> post[w].task, pressed |-> post[w].pressed, open |-> b, old |-> FALSE,
                      status |-> "streaming", gen |-> "idle"]
    OBVIOUS
  <2>3. t \in A!Turns /\ TurnHolds(t) /\ t.chat = c
    BY <2>2 DEF A!Turns, A!Posts, TurnHolds, Writing
  <2>4. turns' = Append(F, t)
    BY <2>1, <2>2 DEF A!Begin, A!Numbers
  <2> QED BY <2>3, <2>4
<1>2. ASSUME NEW n \in 1..Len(turns), turns[n].chat = c PROVE turns[n].gen \notin Writing
  BY <1>2 DEF A!Begin, A!Running, A!Numbers, TurnsInv, TurnHolds
<1>3. ASSUME NEW n \in 1..Len(turns) PROVE Follows(turns[n], F[n])
  <2>1. TurnHolds(turns[n]) /\ turns[n] \in A!Turns
    BY DEF TurnsInv, TurnHolds
  <2>2. CASE turns[n].chat = c /\ turns[n].status = "streaming"
    BY <1>2, <2>1, <2>2 DEF Follows, TurnHolds, A!Turns
  <2>3. CASE ~(turns[n].chat = c /\ turns[n].status = "streaming")
    BY <2>1, <2>3 DEF Follows
  <2> QED BY <2>2, <2>3
<1>4. \A n \in 1..Len(turns) : F[n] \in A!Turns
  BY <1>3 DEF Follows, TurnHolds
<1>5. Len(turns) \in Nat /\ Len(turns) < MaxTurns
  BY DEF TurnsInv, A!Begin
<1>6. F \in Seq(A!Turns) /\ Len(F) = Len(turns)
  BY <1>4, <1>5
<1> HIDE DEF F
<1>8. /\ turns' \in Seq(A!Turns) /\ Len(turns') = Len(turns) + 1
      /\ turns'[Len(turns) + 1] = t
      /\ \A n \in 1..Len(turns) : turns'[n] = F[n]
  BY <1>1, <1>5, <1>6
<1>9. TurnsInv'
  <2>1. \A n \in 1..Len(turns) : TurnHolds(turns'[n]) /\ turns'[n].chat = turns[n].chat
                               /\ (turns'[n].gen \in Writing => turns[n].gen \in Writing)
    BY <1>3, <1>8 DEF Follows
  <2>2. \A n \in 1..Len(turns') : n \in 1..Len(turns) \/ n = Len(turns) + 1
    BY <1>5, <1>8
  <2>3. Len(turns') <= MaxTurns
    BY <1>5, <1>8
  <2> QED BY <1>1, <1>2, <1>8, <2>1, <2>2, <2>3 DEF TurnsInv
<1>10. A!StaysComplete
  BY <1>3, <1>8 DEF A!StaysComplete, A!Numbers, Follows
<1> QED BY <1>9, <1>10

-----------------------------------------------------------------------------
(* The administrator's chats: the panel *)

CallTypes ==
    /\ chats \subseteq used /\ used \subseteq Chats
    /\ listed \in [Panels -> SUBSET Chats] /\ chat \in [Panels -> A!ChatOrNone]
    /\ shown \in [Panels -> SUBSET Chats] /\ selected \in [Panels -> A!TaskOrNone]
    /\ loading \in [Panels -> BOOLEAN] /\ composing \in [Panels -> BOOLEAN]
    /\ starting \in [Panels -> {"no", "init"}] /\ reading \in [Panels -> A!ChatOrNone]
    /\ creating \in [Panels -> {"no", "create", "send"}]
    /\ deleting \in [Panels -> SUBSET [chat : Chats, served : BOOLEAN]]
    /\ sending \in [Panels -> A!Sendings \cup {None}] /\ post \in [Panels -> A!Posts \cup {None}]
    /\ pressed \in [Panels -> A!TaskOrNone] /\ crossed \in [Panels -> BOOLEAN]

\* Unless a deletion was crossed, a panel does one thing at a time, and what it
\* sends and shows is of the chat that is open.
Alone(w) ==
    /\ shown[w] \subseteq {chat[w]}
    /\ ~loading[w] => reading[w] = None /\ creating[w] = "no" /\ starting[w] = "no"
    /\ ~composing[w] => sending[w] = None
    /\ sending[w] # None => /\ sending[w].chat = chat[w] /\ reading[w] = None
                            /\ creating[w] = "no" /\ starting[w] = "no" /\ deleting[w] = {}
    /\ deleting[w] # {} => reading[w] = None /\ creating[w] = "no" /\ starting[w] = "no"
    /\ \A d, e \in deleting[w] : d = e
    /\ reading[w] # None => creating[w] = "no" /\ starting[w] = "no"
    /\ creating[w] # "no" => starting[w] = "no"

PanelInv == \A w \in Panels : ~crossed[w] => Alone(w)

ChatInv == CallTypes /\ TurnsInv /\ PostInv /\ PanelInv

\* Another panel is left as it is.
Elsewhere(w) ==
    \A v \in Panels \ {w} :
        /\ shown'[v] = shown[v] /\ chat'[v] = chat[v] /\ loading'[v] = loading[v]
        /\ composing'[v] = composing[v] /\ starting'[v] = starting[v] /\ reading'[v] = reading[v]
        /\ creating'[v] = creating[v] /\ deleting'[v] = deleting[v] /\ sending'[v] = sending[v]
        /\ crossed'[v] = crossed[v] /\ post'[v] = post[v]

LEMMA OnePanel ==
    ASSUME ChatInv, NEW w \in Panels, CallTypes', Elsewhere(w), ~crossed'[w] => Alone(w)',
           post'[w] # None => post'[w].task = post'[w].pressed,
           (TurnsInv /\ UNCHANGED turns) \/ TurnsInv'
    PROVE  ChatInv'
<1>1. TurnsInv'
  BY DEF TurnsInv
<1>2. PanelInv'
  BY DEF ChatInv, PanelInv, Elsewhere, Alone
<1>3. PostInv'
  BY DEF ChatInv, PostInv, Elsewhere
<1> QED BY <1>1, <1>2, <1>3 DEF ChatInv

LEMMA ChatTypes ==
    ASSUME A!ChatAssumption
    PROVE  /\ None \notin Chats /\ None \notin Tasks /\ MaxTurns \in Nat /\ MaxAttempts \in Nat \ {0}
           /\ None \notin A!Sendings /\ None \notin A!Posts
BY DEF A!ChatAssumption

\* The buttons of the history and of the context.
LEMMA HistoryStep ==
    ASSUME A!ChatAssumption, ChatInv, NEW w \in Panels,
           \/ A!Opened(w) \/ A!Create(w) \/ A!Switch(w) \/ A!SelectAnswers(w)
           \/ \E c \in Chats : A!Select(w, c)
    PROVE  ChatInv'
<1>1. CallTypes /\ (~crossed[w] => Alone(w)) /\ TurnsInv
  BY DEF ChatInv, PanelInv
<1>2. UNCHANGED <<turns, post, deleting, sending>>
  BY DEF A!Opened, A!Create, A!Switch, A!SelectAnswers, A!Select, A!serverVars, A!callVars
<1>3. CallTypes' /\ Elsewhere(w) /\ (~crossed'[w] => Alone(w)')
  <2>1. CASE A!Opened(w)
    BY <1>1, <1>2, <2>1, ChatTypes DEF A!Opened, A!Selects, A!serverVars, A!histVars, CallTypes, Elsewhere, Alone, A!ChatOrNone
  <2>2. CASE A!Create(w)
    BY <1>1, <1>2, <2>2, ChatTypes DEF A!Create, A!Crossing, A!Idle, A!serverVars, CallTypes, Elsewhere, Alone, A!ChatOrNone
  <2>3. CASE A!Switch(w)
    BY <1>1, <1>2, <2>3, ChatTypes DEF A!Switch, A!serverVars, A!callVars, A!histVars, CallTypes, Elsewhere, Alone, A!TaskOrNone
  <2>4. CASE A!SelectAnswers(w)
    BY <1>1, <1>2, <2>4, ChatTypes DEF A!SelectAnswers, A!Selects, A!serverVars, A!histVars, CallTypes, Elsewhere, Alone, A!ChatOrNone
  <2>5. ASSUME NEW c \in Chats, A!Select(w, c) PROVE CallTypes' /\ Elsewhere(w) /\ (~crossed'[w] => Alone(w)')
    <3>1. PICK b \in BOOLEAN : b = (crossed[w] \/ deleting[w] # {}) /\ crossed' = [crossed EXCEPT ![w] = b]
      BY <2>5 DEF A!Select, A!Crossing
    <3>2. /\ reading' = [reading EXCEPT ![w] = c] /\ loading' = [loading EXCEPT ![w] = TRUE]
          /\ ~composing[w] /\ ~loading[w] /\ c \in A!ChatOrNone
          /\ UNCHANGED <<chats, used, listed, chat, shown, selected, composing, starting, creating, pressed>>
      BY <2>5, ChatTypes DEF A!Select, A!Selects, A!Idle, A!serverVars, A!ChatOrNone
    <3>3. CallTypes'
      BY <1>1, <1>2, <3>1, <3>2 DEF CallTypes
    <3>4. Elsewhere(w)
      BY <1>1, <1>2, <3>1, <3>2 DEF CallTypes, Elsewhere
    <3>5. ~crossed'[w] => Alone(w)'
      BY <1>1, <1>2, <3>1, <3>2 DEF CallTypes, Alone
    <3> QED BY <3>3, <3>4, <3>5
  <2> QED BY <2>1, <2>2, <2>3, <2>4, <2>5
<1> QED BY <1>1, <1>2, <1>3, OnePanel DEF ChatInv, PostInv

LEMMA RemoveStep ==
    ASSUME A!ChatAssumption, ChatInv, NEW w \in Panels,
           \/ A!RemoveServed(w) \/ \E c \in Chats : A!Remove(w, c)
           \/ \E d \in deleting[w] : A!Removed(w, d) \/ A!RemoveFails(w, d)
    PROVE  ChatInv'
<1>1. CallTypes /\ (~crossed[w] => Alone(w)) /\ TurnsInv
  BY DEF ChatInv, PanelInv
<1>2. UNCHANGED <<turns, used, post, sending, composing, creating, starting, selected, pressed>>
  BY DEF A!RemoveServed, A!Remove, A!Removed, A!RemoveFails, A!serverVars, A!callVars, A!panelVars, A!histVars
<1>3. CallTypes' /\ Elsewhere(w) /\ (~crossed'[w] => Alone(w)')
  <2>1. CASE A!RemoveServed(w)
    <3>1. PICK d \in deleting[w] :
              /\ chats' = chats \ {d.chat}
              /\ deleting' = [deleting EXCEPT ![w] = (@ \ {d}) \cup {[d EXCEPT !.served = TRUE]}]
      BY <2>1 DEF A!RemoveServed
    <3>2. UNCHANGED <<listed, chat, shown, loading, reading, crossed>>
      BY <2>1 DEF A!RemoveServed, A!panelVars, A!histVars
    <3>3. d \in [chat : Chats, served : BOOLEAN]
      BY <1>1 DEF CallTypes
    <3>4. PICK e \in [chat : Chats, served : BOOLEAN] : e = [d EXCEPT !.served = TRUE]
      BY <3>3
    <3>5. deleting' = [deleting EXCEPT ![w] = (deleting[w] \ {d}) \cup {e}]
      BY <3>1, <3>4
    <3>6. deleting' \in [Panels -> SUBSET [chat : Chats, served : BOOLEAN]]
          /\ deleting'[w] = (deleting[w] \ {d}) \cup {e} /\ \A v \in Panels \ {w} : deleting'[v] = deleting[v]
      BY <1>1, <3>5 DEF CallTypes
    <3>7. CallTypes' /\ Elsewhere(w)
      BY <1>1, <1>2, <3>1, <3>2, <3>6 DEF CallTypes, Elsewhere
    <3>8. ~crossed'[w] => Alone(w)'
      BY <1>1, <1>2, <3>1, <3>2, <3>6 DEF Alone
    <3> QED BY <3>7, <3>8
  <2>2. ASSUME NEW c \in Chats, A!Remove(w, c) PROVE CallTypes' /\ Elsewhere(w) /\ (~crossed'[w] => Alone(w)')
    <3>1. PICK b \in BOOLEAN : b = (crossed[w] \/ deleting[w] # {}) /\ crossed' = [crossed EXCEPT ![w] = b]
      BY <2>2 DEF A!Remove, A!Crossing
    <3>2. PICK e \in [chat : Chats, served : BOOLEAN] : e = [chat |-> c, served |-> FALSE]
      OBVIOUS
    <3>3. /\ deleting' = [deleting EXCEPT ![w] = @ \cup {e}]
          /\ ~composing[w] /\ ~loading[w]
          /\ UNCHANGED <<chats, listed, chat, shown, loading, reading>>
      BY <2>2, <3>2 DEF A!Remove, A!Idle, A!serverVars, A!panelVars
    <3>4. deleting' \in [Panels -> SUBSET [chat : Chats, served : BOOLEAN]]
          /\ deleting'[w] = deleting[w] \cup {e} /\ \A v \in Panels \ {w} : deleting'[v] = deleting[v]
      BY <1>1, <3>3 DEF CallTypes
    <3>5. CallTypes' /\ Elsewhere(w)
      BY <1>1, <1>2, <3>1, <3>3, <3>4 DEF CallTypes, Elsewhere
    <3>6. ~crossed'[w] => Alone(w)'
      BY <1>1, <1>2, <3>1, <3>3, <3>4 DEF CallTypes, Alone
    <3> QED BY <3>5, <3>6
  <2>3. ASSUME NEW d \in deleting[w], A!Removed(w, d) \/ A!RemoveFails(w, d)
        PROVE  CallTypes' /\ Elsewhere(w) /\ (~crossed'[w] => Alone(w)')
    <3>1. /\ deleting' = [deleting EXCEPT ![w] = @ \ {d}]
          /\ UNCHANGED <<chats, crossed>>
      BY <2>3 DEF A!Removed, A!RemoveFails, A!serverVars, A!histVars
    <3>2. deleting' \in [Panels -> SUBSET [chat : Chats, served : BOOLEAN]]
          /\ deleting'[w] = deleting[w] \ {d} /\ \A v \in Panels \ {w} : deleting'[v] = deleting[v]
      BY <1>1, <3>1 DEF CallTypes
    <3>3. /\ listed' \in [Panels -> SUBSET Chats] /\ shown' \in [Panels -> SUBSET Chats]
          /\ chat' \in [Panels -> A!ChatOrNone] /\ reading' \in [Panels -> A!ChatOrNone]
          /\ loading' \in [Panels -> BOOLEAN]
          /\ \A v \in Panels \ {w} : /\ shown'[v] = shown[v] /\ chat'[v] = chat[v]
                                     /\ reading'[v] = reading[v] /\ loading'[v] = loading[v]
          /\ \/ /\ shown'[w] = {}
                /\ \/ reading'[w] = reading[w] /\ loading'[w] = loading[w]
                   \/ loading'[w] = TRUE
             \/ /\ shown'[w] = shown[w] /\ chat'[w] = chat[w]
                /\ reading'[w] = reading[w] /\ loading'[w] = loading[w]
      <4>1. CASE A!RemoveFails(w, d)
        BY <1>1, <4>1 DEF A!RemoveFails, A!panelVars, CallTypes
      <4>2. CASE A!Removed(w, d) /\ chat[w] # d.chat
        BY <1>1, <4>2 DEF A!Removed, CallTypes
      <4>3. CASE A!Removed(w, d) /\ chat[w] = d.chat
        <5>1. /\ listed' = [listed EXCEPT ![w] = @ \ {d.chat}] /\ shown' = [shown EXCEPT ![w] = {}]
              /\ chat' = [chat EXCEPT ![w] = None]
          BY <4>3 DEF A!Removed
        <5>2. \/ UNCHANGED <<reading, loading>>
              \/ \E c \in Chats : reading' = [reading EXCEPT ![w] = c] /\ loading' = [loading EXCEPT ![w] = TRUE]
          <6>1. listed'[w] \subseteq Chats
            BY <1>1, <5>1 DEF CallTypes
          <6> QED BY <4>3, <6>1, ChatTypes DEF A!Removed, A!Selects
        <5> QED BY <1>1, <5>1, <5>2 DEF CallTypes, A!ChatOrNone
      <4> QED BY <2>3, <4>1, <4>2, <4>3
    <3>4. CallTypes' /\ Elsewhere(w)
      BY <1>1, <1>2, <3>1, <3>2, <3>3 DEF CallTypes, Elsewhere
    <3>5. ~crossed'[w] => Alone(w)'
      BY <1>1, <1>2, <3>1, <3>2, <3>3 DEF Alone
    <3> QED BY <3>4, <3>5
  <2> QED BY <2>1, <2>2, <2>3
<1> QED BY <1>1, <1>2, <1>3, OnePanel DEF ChatInv, PostInv

LEMMA OpenPanel ==
    ASSUME A!ChatAssumption, ChatInv, NEW w \in Panels, A!Open(w)
    PROVE  ChatInv'
<1>1. CallTypes /\ TurnsInv
  BY DEF ChatInv
<1>2. TurnsInv'
  BY <1>1, ClosedFollows, FollowKeeps
<1>3. CallTypes'
  BY <1>1 DEF A!Open, CallTypes, A!ChatOrNone, A!TaskOrNone
<1>4. Elsewhere(w) /\ UNCHANGED post
  BY <1>1 DEF A!Open, CallTypes, Elsewhere
<1>5. Alone(w)'
  BY <1>1 DEF A!Open, CallTypes, Alone
<1> QED BY <1>2, <1>3, <1>4, <1>5, OnePanel DEF ChatInv, PostInv

\* What send has noted down.
LEMMA Sending ==
    ASSUME A!ChatAssumption, NEW c \in Chats, NEW t \in A!TaskOrNone, NEW p \in A!TaskOrNone
    PROVE  /\ [chat |-> c, turn |-> 0, phase |-> "posting", attempt |-> 0] \in A!Sendings
           /\ [chat |-> c, task |-> t, pressed |-> p] \in A!Posts
BY ChatTypes DEF A!Sendings, A!Posts

LEMMA SendStep ==
    ASSUME A!ChatAssumption, ChatInv, NEW w \in Panels, A!Send(w)
    PROVE  ChatInv'
<1>1. CallTypes /\ (~crossed[w] => Alone(w)) /\ TurnsInv
  BY DEF ChatInv, PanelInv
<1>2. PICK b \in BOOLEAN : b = (crossed[w] \/ deleting[w] # {}) /\ crossed' = [crossed EXCEPT ![w] = b]
  BY DEF A!Send, A!Crossing
<1>3. /\ UNCHANGED <<chats, used, turns, listed, chat, selected, starting, reading, deleting>>
      /\ pressed' = [pressed EXCEPT ![w] = selected[w]] /\ ~composing[w] /\ ~loading[w]
  BY DEF A!Send, A!Idle, A!serverVars
<1>4. pressed' \in [Panels -> A!TaskOrNone] /\ pressed'[w] = selected[w] /\ selected[w] \in A!TaskOrNone
  BY <1>1, <1>3 DEF CallTypes
<1>5. CASE chat[w] # None
  <2>1. PICK x : x = [chat |-> chat[w], turn |-> 0, phase |-> "posting", attempt |-> 0]
    OBVIOUS
  <2>2. PICK q : q = [chat |-> chat[w], task |-> selected[w], pressed |-> selected[w]]
    OBVIOUS
  <2>3. /\ composing' = [composing EXCEPT ![w] = TRUE] /\ sending' = [sending EXCEPT ![w] = x]
        /\ post' = [post EXCEPT ![w] = q] /\ shown' = [shown EXCEPT ![w] = @ \cup {chat[w]}]
        /\ UNCHANGED <<loading, creating>>
    BY <1>4, <1>5, <2>1, <2>2 DEF A!Send, A!Sends
  <2>4. chat[w] \in Chats
    BY <1>1, <1>5 DEF CallTypes, A!ChatOrNone
  <2>5. x \in A!Sendings /\ x.chat = chat[w] /\ q \in A!Posts /\ q.task = q.pressed
    BY <1>4, <2>1, <2>2, <2>4, Sending
  <2>6. CallTypes'
    BY <1>1, <1>2, <1>3, <1>4, <2>3, <2>4, <2>5 DEF CallTypes
  <2>7. Elsewhere(w)
    BY <1>1, <1>2, <1>3, <2>3 DEF CallTypes, Elsewhere
  <2>8. ~crossed'[w] => Alone(w)'
    BY <1>1, <1>2, <1>3, <2>3, <2>5 DEF CallTypes, Alone
  <2>9. post'[w] = q
    BY <1>1, <2>3 DEF CallTypes
  <2> QED BY <1>1, <1>3, <2>5, <2>6, <2>7, <2>8, <2>9, OnePanel
<1>6. CASE chat[w] = None
  <2>1. /\ creating' = [creating EXCEPT ![w] = "send"] /\ loading' = [loading EXCEPT ![w] = TRUE]
        /\ UNCHANGED <<shown, composing, sending, post>>
    BY <1>6 DEF A!Send
  <2>2. CallTypes'
    BY <1>1, <1>2, <1>3, <1>4, <2>1 DEF CallTypes
  <2>3. Elsewhere(w)
    BY <1>1, <1>2, <1>3, <2>1 DEF CallTypes, Elsewhere
  <2>4. ~crossed'[w] => Alone(w)'
    BY <1>1, <1>2, <1>3, <2>1 DEF CallTypes, Alone
  <2> QED BY <1>1, <1>3, <2>1, <2>2, <2>3, <2>4, OnePanel DEF ChatInv, PostInv
<1> QED BY <1>5, <1>6

LEMMA CreatedStep ==
    ASSUME A!ChatAssumption, ChatInv, NEW w \in Panels, A!Created(w) \/ A!CreateFails(w)
    PROVE  ChatInv'
<1>1. CallTypes /\ (~crossed[w] => Alone(w)) /\ TurnsInv /\ PostInv
  BY DEF ChatInv, PanelInv
<1>2. /\ creating[w] # "no" /\ creating' = [creating EXCEPT ![w] = "no"]
      /\ loading' = [loading EXCEPT ![w] = FALSE]
      /\ UNCHANGED <<turns, starting, reading, deleting, crossed, pressed>>
  BY DEF A!Created, A!CreateFails, A!histVars
<1>3. CASE A!CreateFails(w)
  <2>1. UNCHANGED <<listed, chat, shown, selected, composing, sending, post>>
    BY <1>3 DEF A!CreateFails
  <2>2. chats' \subseteq used' /\ used' \subseteq Chats
    BY <1>1, <1>3 DEF A!CreateFails, CallTypes
  <2>3. CallTypes' /\ Elsewhere(w)
    BY <1>1, <1>2, <2>1, <2>2 DEF CallTypes, Elsewhere
  <2>4. ~crossed'[w] => Alone(w)'
    BY <1>1, <1>2, <2>1 DEF CallTypes, Alone
  <2> QED BY <1>1, <1>2, <2>1, <2>3, <2>4, OnePanel DEF PostInv
<1>4. CASE A!Created(w)
  <2>1. PICK c \in Chats \ used :
            /\ chats' = chats \cup {c} /\ used' = used \cup {c}
            /\ listed' = [listed EXCEPT ![w] = @ \cup {c}]
            /\ chat' = [chat EXCEPT ![w] = c]
            /\ \/ /\ A!Sends(w, c, A!Context(w)) /\ shown' = [shown EXCEPT ![w] = {c}]
               \/ /\ UNCHANGED <<composing, sending, post>> /\ shown' = [shown EXCEPT ![w] = {}]
    BY <1>4 DEF A!Created
  <2>2. selected' \in [Panels -> A!TaskOrNone]
    BY <1>1, <1>4 DEF A!Created, CallTypes, A!TaskOrNone
  <2>3. /\ chats' \subseteq used' /\ used' \subseteq Chats /\ listed' \in [Panels -> SUBSET Chats]
        /\ chat' \in [Panels -> A!ChatOrNone] /\ chat'[w] = c /\ pressed[w] \in A!TaskOrNone
    BY <1>1, <2>1 DEF CallTypes, A!ChatOrNone
  <2>4. CASE A!Sends(w, c, A!Context(w)) /\ shown' = [shown EXCEPT ![w] = {c}]
    <3>1. PICK x : x = [chat |-> c, turn |-> 0, phase |-> "posting", attempt |-> 0]
      OBVIOUS
    <3>2. PICK q : q = [chat |-> c, task |-> pressed[w], pressed |-> pressed[w]]
      OBVIOUS
    <3>3. x \in A!Sendings /\ x.chat = c /\ q \in A!Posts /\ q.task = q.pressed
      BY <2>3, <3>1, <3>2, Sending
    <3>4. /\ composing' = [composing EXCEPT ![w] = TRUE] /\ sending' = [sending EXCEPT ![w] = x]
          /\ post' = [post EXCEPT ![w] = q]
      BY <1>2, <2>4, <3>1, <3>2 DEF A!Sends, A!Context
    <3>5. CallTypes'
      BY <1>1, <1>2, <2>1, <2>2, <2>3, <2>4, <3>3, <3>4 DEF CallTypes
    <3>6. Elsewhere(w)
      BY <1>1, <1>2, <2>1, <2>4, <3>4 DEF CallTypes, Elsewhere
    <3>7. ~crossed'[w] => Alone(w)'
      BY <1>1, <1>2, <2>3, <2>4, <3>3, <3>4 DEF CallTypes, Alone
    <3>8. post'[w] = q
      BY <1>1, <3>4 DEF CallTypes
    <3> QED BY <1>1, <1>2, <3>3, <3>5, <3>6, <3>7, <3>8, OnePanel
  <2>5. CASE UNCHANGED <<composing, sending, post>> /\ shown' = [shown EXCEPT ![w] = {}]
    <3>1. CallTypes'
      BY <1>1, <1>2, <2>2, <2>3, <2>5 DEF CallTypes
    <3>2. Elsewhere(w)
      BY <1>1, <1>2, <2>1, <2>5 DEF CallTypes, Elsewhere
    <3>3. ~crossed'[w] => Alone(w)'
      BY <1>1, <1>2, <2>3, <2>5 DEF CallTypes, Alone
    <3> QED BY <1>1, <1>2, <2>5, <3>1, <3>2, <3>3, OnePanel DEF PostInv
  <2> QED BY <2>1, <2>4, <2>5
<1> QED BY <1>3, <1>4

\* The wait of panel w for a reply becomes x, its messages are those of sh.
WaitBecomes(w, x, sh) == sending' = [sending EXCEPT ![w] = x] /\ shown' = [shown EXCEPT ![w] = sh]

\* The wait for a reply goes on with its chat, or ends.
LEMMA WaitGoesOn ==
    ASSUME A!ChatAssumption, ChatInv, NEW w \in Panels,
           UNCHANGED <<chats, used, chat, selected, loading, starting, reading, creating, deleting, pressed, crossed>>,
           listed' \in [Panels -> SUBSET Chats], composing' \in [Panels -> BOOLEAN],
           post' \in [Panels -> A!Posts \cup {None}], post'[w] \in {post[w], None},
           NEW x \in A!Sendings \cup {None}, NEW sh \in SUBSET Chats, WaitBecomes(w, x, sh),
           x # None => sending[w] # None /\ x.chat = sending[w].chat /\ composing'[w] = composing[w],
           \A v \in Panels \ {w} : composing'[v] = composing[v] /\ post'[v] = post[v],
           ~crossed[w] /\ shown[w] \subseteq {chat[w]} /\ (sending[w] # None => sending[w].chat = chat[w])
               => sh \subseteq {chat[w]},
           UNCHANGED turns \/ TurnsInv'
    PROVE  ChatInv'
<1>1. /\ CallTypes /\ (~crossed[w] => Alone(w)) /\ TurnsInv /\ PostInv
      /\ sending' = [sending EXCEPT ![w] = x] /\ shown' = [shown EXCEPT ![w] = sh]
  BY DEF ChatInv, PanelInv, WaitBecomes
<1>2. CallTypes'
  BY <1>1 DEF CallTypes
<1>3. Elsewhere(w)
  BY <1>1 DEF CallTypes, Elsewhere
<1>4. sending'[w] = x /\ shown'[w] = sh
  BY <1>1 DEF CallTypes
<1>5. ~crossed'[w] => Alone(w)'
  BY <1>1, <1>4 DEF Alone
<1>6. post'[w] # None => post'[w].task = post'[w].pressed
  BY <1>1 DEF PostInv
<1> QED BY <1>1, <1>2, <1>3, <1>5, <1>6, OnePanel

LEMMA ReplyStep ==
    ASSUME A!ChatAssumption, ChatInv, NEW w \in Panels,
           \/ A!Event(w) \/ A!StreamEnds(w) \/ A!Stop(w) \/ A!Rereads(w) \/ A!SendEnds(w)
           \/ A!Begin(w) \/ A!PostRefused(w)
    PROVE  ChatInv'
<1>1. CallTypes /\ TurnsInv /\ PostInv
  BY DEF ChatInv
<1>2. /\ shown = [shown EXCEPT ![w] = shown[w]] /\ shown[w] \in SUBSET Chats
      /\ sending = [sending EXCEPT ![w] = sending[w]] /\ sending[w] \in A!Sendings \cup {None}
      /\ chat[w] \in Chats \cup {None} /\ post[w] \in A!Posts \cup {None}
  BY <1>1 DEF CallTypes, A!ChatOrNone
<1>3. ASSUME NEW x \in A!Sendings, NEW p \in {"rereading", "listing"}
      PROVE  [x EXCEPT !.phase = p] \in A!Sendings /\ [x EXCEPT !.phase = p].chat = x.chat
             /\ [x EXCEPT !.phase = p] # None
  <2>1. [x EXCEPT !.phase = p] \in A!Sendings /\ [x EXCEPT !.phase = p].chat = x.chat
    BY DEF A!Sendings
  <2> QED BY <2>1, ChatTypes
<1>4. UNCHANGED <<chats, used, chat, selected, loading, starting, reading, creating, deleting, pressed, crossed>>
  BY DEF A!Event, A!StreamEnds, A!Stop, A!Rereads, A!SendEnds, A!Begin, A!PostRefused, A!serverVars, A!panelVars,
         A!callVars, A!histVars
<1>5. CASE A!Event(w)
  <2>1. sending[w] \in A!Sendings /\ sending[w].chat \in Chats
    BY <1>2, <1>5 DEF A!Event, A!Phase, A!Sendings
  <2>2. PICK sh \in SUBSET Chats : sh = shown[w] \cup {sending[w].chat}
    BY <1>2, <2>1
  <2>3. /\ shown' = [shown EXCEPT ![w] = sh]
        /\ UNCHANGED <<listed, composing, post, sending, turns>>
    BY <1>5, <2>2 DEF A!Event, A!serverVars, A!callVars
  <2>4. sending' = [sending EXCEPT ![w] = sending[w]] /\ sending[w] # None
    BY <1>2, <1>5, <2>3 DEF A!Event, A!Phase
  <2>5. /\ listed' \in [Panels -> SUBSET Chats] /\ composing' \in [Panels -> BOOLEAN]
        /\ post' \in [Panels -> A!Posts \cup {None}] /\ post'[w] \in {post[w], None}
        /\ \A v \in Panels \ {w} : composing'[v] = composing[v] /\ post'[v] = post[v]
        /\ composing'[w] = composing[w]
    BY <1>1, <2>3 DEF CallTypes
  <2>6. UNCHANGED turns
    BY <2>3
  <2>w. WaitBecomes(w, sending[w], sh)
    BY <2>3, <2>4, Zenon DEF WaitBecomes
  <2> QED BY <1>2, <1>4, <2>1, <2>2, <2>3, <2>4, <2>5, <2>6, <2>w, WaitGoesOn
<1>6. CASE A!StreamEnds(w) \/ A!Stop(w)
  <2>1. sending[w] \in A!Sendings /\ sending[w] # None
    BY <1>2, <1>6 DEF A!StreamEnds, A!Stop, A!Phase
  <2>2. PICK x \in A!Sendings : x = [sending[w] EXCEPT !.phase = "rereading"] /\ x # None /\ x.chat = sending[w].chat
    BY <1>3, <2>1
  <2>3. sending' = [sending EXCEPT ![w] = x] /\ UNCHANGED <<listed, composing, post, shown>>
    BY <1>6, <2>2 DEF A!StreamEnds, A!Stop, A!Reread, A!panelVars
  <2>4. UNCHANGED turns \/ TurnsInv'
    BY <1>1, <1>6, ClosedFollows, FollowKeeps DEF A!StreamEnds, A!serverVars
  <2>5. shown' = [shown EXCEPT ![w] = shown[w]]
    BY <1>2, <2>3
  <2>6. /\ listed' \in [Panels -> SUBSET Chats] /\ composing' \in [Panels -> BOOLEAN]
        /\ post' \in [Panels -> A!Posts \cup {None}] /\ post'[w] \in {post[w], None}
        /\ \A v \in Panels \ {w} : composing'[v] = composing[v] /\ post'[v] = post[v]
        /\ composing'[w] = composing[w]
    BY <1>1, <2>3 DEF CallTypes
  <2>w. WaitBecomes(w, x, shown[w])
    BY <2>3, <2>5, Zenon DEF WaitBecomes
  <2> QED BY <1>2, <1>4, <2>1, <2>2, <2>4, <2>3, <2>6, <2>w, WaitGoesOn
<1>7. CASE A!Rereads(w)
  <2>1. sending[w] \in A!Sendings /\ sending[w] # None
    BY <1>2, <1>7 DEF A!Rereads, A!Phase
  <2>2. PICK x \in A!Sendings : x # None /\ x.chat = sending[w].chat /\ sending' = [sending EXCEPT ![w] = x]
    <3>1. CASE A!Enough(w)
      <4>1. sending' = [sending EXCEPT ![w] = [sending[w] EXCEPT !.phase = "listing"]]
        BY <1>7, <3>1 DEF A!Rereads
      <4> QED BY <1>3, <2>1, <4>1
    <3>2. CASE ~A!Enough(w)
      <4>1. PICK k \in 0..MaxAttempts : k = (sending[w].attempt + 1) % MaxAttempts
        BY <2>1, ChatTypes DEF A!Sendings
      <4>2. sending' = [sending EXCEPT ![w] = [sending[w] EXCEPT !.attempt = k]]
        BY <1>7, <3>2, <4>1 DEF A!Rereads
      <4>3. [sending[w] EXCEPT !.attempt = k] \in A!Sendings /\ [sending[w] EXCEPT !.attempt = k].chat = sending[w].chat
        BY <2>1 DEF A!Sendings
      <4> QED BY <4>2, <4>3, ChatTypes
    <3> QED BY <3>1, <3>2
  <2>3. PICK sh \in SUBSET Chats : shown' = [shown EXCEPT ![w] = sh] /\ (sh = shown[w] \/ sh \subseteq {chat[w]})
    <3>1. CASE chat[w] = sending[w].chat
      <4>1. PICK sh : sh = {c \in {chat[w]} : A!HasTurns(c)}
        OBVIOUS
      <4>2. sh \subseteq {chat[w]} /\ shown' = [shown EXCEPT ![w] = sh]
        BY <1>7, <3>1, <4>1 DEF A!Rereads
      <4>3. chat[w] \in Chats
        BY <2>1, <3>1 DEF A!Sendings
      <4> QED BY <4>2, <4>3
    <3>2. CASE chat[w] # sending[w].chat
      BY <1>2, <1>7, <3>2 DEF A!Rereads
    <3> QED BY <3>1, <3>2
  <2>4. UNCHANGED <<listed, composing, post, turns>>
    BY <1>7 DEF A!Rereads, A!serverVars
  <2>5. /\ listed' \in [Panels -> SUBSET Chats] /\ composing' \in [Panels -> BOOLEAN]
        /\ post' \in [Panels -> A!Posts \cup {None}] /\ post'[w] \in {post[w], None}
        /\ \A v \in Panels \ {w} : composing'[v] = composing[v] /\ post'[v] = post[v]
        /\ composing'[w] = composing[w] /\ UNCHANGED turns
    BY <1>1, <2>4 DEF CallTypes
  <2>w. WaitBecomes(w, x, sh)
    BY <2>2, <2>3, Zenon DEF WaitBecomes
  <2> QED BY <1>2, <1>4, <2>1, <2>2, <2>3, <2>5, <2>w, WaitGoesOn
<1>8. CASE A!SendEnds(w)
  <2>1. /\ sending' = [sending EXCEPT ![w] = None] /\ composing' = [composing EXCEPT ![w] = FALSE]
        /\ UNCHANGED <<post, shown, turns>>
    BY <1>8 DEF A!SendEnds, A!serverVars
  <2>2. listed' \in [Panels -> SUBSET Chats]
    BY <1>1, <1>8 DEF A!SendEnds, CallTypes
  <2>3. shown' = [shown EXCEPT ![w] = shown[w]]
    BY <1>2, <2>1
  <2>4. composing' \in [Panels -> BOOLEAN] /\ \A v \in Panels \ {w} : composing'[v] = composing[v]
    BY <1>1, <2>1 DEF CallTypes
  <2>5. /\ post' \in [Panels -> A!Posts \cup {None}] /\ post'[w] \in {post[w], None}
        /\ \A v \in Panels \ {w} : post'[v] = post[v]
        /\ UNCHANGED turns
    BY <1>1, <2>1 DEF CallTypes
  <2>w. WaitBecomes(w, None, shown[w])
    BY <2>1, <2>3, Zenon DEF WaitBecomes
  <2> QED BY <1>2, <1>4, <2>2, <2>4, <2>5, <2>w, WaitGoesOn
<1>9. CASE A!Begin(w) \/ A!PostRefused(w)
  <2>1. /\ post' = [post EXCEPT ![w] = None] /\ UNCHANGED <<listed, composing, shown>>
    BY <1>9 DEF A!Begin, A!PostRefused, A!panelVars
  <2>2. post' \in [Panels -> A!Posts \cup {None}] /\ post'[w] = None /\ \A v \in Panels \ {w} : post'[v] = post[v]
    BY <1>1, <2>1 DEF CallTypes
  <2>3. PICK x \in A!Sendings \cup {None} :
            /\ sending' = [sending EXCEPT ![w] = x]
            /\ x = sending[w] \/ (x # None /\ sending[w] # None /\ x.chat = sending[w].chat)
    <3>1. CASE ~(sending[w] # None /\ sending[w].phase = "posting")
      BY <1>2, <1>9, <3>1 DEF A!Begin, A!PostRefused
    <3>2. CASE A!PostRefused(w) /\ sending[w] # None /\ sending[w].phase = "posting"
      <4>1. sending' = [sending EXCEPT ![w] = [sending[w] EXCEPT !.phase = "rereading"]]
        BY <3>2 DEF A!PostRefused
      <4> QED BY <1>2, <1>3, <3>2, <4>1
    <3>3. CASE A!Begin(w) /\ sending[w] # None /\ sending[w].phase = "posting"
      <4>1. Len(turns) + 1 \in 0..MaxTurns
        BY <1>1, <3>3, ChatTypes DEF A!Begin, TurnsInv
      <4>2. PICK k \in 0..MaxTurns : k = Len(turns) + 1
        BY <4>1
      <4>3. PICK x : x = [sending[w] EXCEPT !.turn = k, !.phase = "streaming"]
        OBVIOUS
      <4>4. sending' = [sending EXCEPT ![w] = x]
        BY <3>3, <4>2, <4>3 DEF A!Begin
      <4>5. x \in A!Sendings /\ x.chat = sending[w].chat
        BY <1>2, <3>3, <4>2, <4>3 DEF A!Sendings
      <4> QED BY <3>3, <4>4, <4>5, ChatTypes
    <3> QED BY <1>9, <3>1, <3>2, <3>3
  <2>4. UNCHANGED turns \/ TurnsInv'
    <3>1. CASE A!Begin(w)
      BY <1>1, <1>2, <3>1, BeginTurns, ChatTypes DEF PostInv, A!Begin
    <3>2. CASE A!PostRefused(w)
      BY <3>2 DEF A!PostRefused, A!serverVars
    <3> QED BY <1>9, <3>1, <3>2
  <2>5. shown' = [shown EXCEPT ![w] = shown[w]]
    BY <1>2, <2>1
  <2>6. x = None \/ (x # None /\ sending[w] # None /\ x.chat = sending[w].chat)
    BY <2>3
  <2>7. /\ listed' \in [Panels -> SUBSET Chats] /\ composing' \in [Panels -> BOOLEAN]
        /\ post' \in [Panels -> A!Posts \cup {None}] /\ post'[w] \in {post[w], None}
        /\ \A v \in Panels \ {w} : composing'[v] = composing[v] /\ post'[v] = post[v]
        /\ composing'[w] = composing[w]
    BY <1>1, <2>1, <2>2 DEF CallTypes
  <2>w. WaitBecomes(w, x, shown[w])
    BY <2>3, <2>5, Zenon DEF WaitBecomes
  <2> QED BY <1>2, <1>4, <2>3, <2>4, <2>6, <2>7, <2>w, WaitGoesOn
<1> QED BY <1>5, <1>6, <1>7, <1>8, <1>9

LEMMA ChatStep ==
    ASSUME A!ChatAssumption, ChatInv, [A!Next]_A!vars
    PROVE  ChatInv'
<1>1. CallTypes /\ TurnsInv /\ PostInv /\ PanelInv
  BY DEF ChatInv
<1>2. ASSUME UNCHANGED <<chats, used, listed, chat, shown, selected, loading, composing, starting, reading, creating,
                        deleting, sending, post, pressed, crossed>>,
             TurnsInv'
      PROVE  ChatInv'
  BY <1>1, <1>2 DEF ChatInv, CallTypes, PostInv, PanelInv, Alone
<1>3. CASE A!Crash
  BY <1>1, <1>2, <1>3, CrashFollows, FollowKeeps DEF A!Crash, A!panelVars, A!callVars, A!histVars
<1>4. ASSUME NEW n \in A!Numbers, A!Reply(n) PROVE ChatInv'
  <2>1. TurnsInv'
    BY <1>1, <1>4, ReplyFollows, FollowKeeps
  <2>2. UNCHANGED <<chats, used, listed, chat, shown, selected, loading, composing, starting, reading, creating,
                    deleting, sending, post, pressed, crossed>>
    BY <1>4 DEF A!Reply, A!Start, A!Done, A!DoneWritten, A!Failing, A!FailingWritten, A!Deadline, A!LateWritten,
           A!Disconnect, A!Age, A!Generator, A!panelVars, A!callVars, A!histVars
  <2> QED BY <1>2, <2>1, <2>2
<1>5. ASSUME NEW w \in Panels, A!Answers(w) \/ A!Panel(w) PROVE ChatInv'
  BY <1>5, HistoryStep, RemoveStep, OpenPanel, SendStep, CreatedStep, ReplyStep DEF A!Answers, A!Panel
<1>6. CASE UNCHANGED A!vars
  BY <1>1, <1>2, <1>6 DEF A!vars, TurnsInv
<1> QED BY <1>3, <1>4, <1>5, <1>6 DEF A!Next

LEMMA ChatHolds ==
    ASSUME A!ChatAssumption
    PROVE  A!Spec => []ChatInv
<1>1. A!Init => ChatInv
  <2>1. SUFFICES ASSUME A!Init PROVE ChatInv
    OBVIOUS
  <2>2. CallTypes
    BY <2>1 DEF A!Init, CallTypes, A!ChatOrNone, A!TaskOrNone
  <2>3. TurnsInv
    BY <2>1, ChatTypes DEF A!Init, TurnsInv
  <2>4. PostInv
    BY <2>1 DEF A!Init, PostInv
  <2>5. PanelInv
    BY <2>1 DEF A!Init, PanelInv, Alone
  <2> QED BY <2>2, <2>3, <2>4, <2>5 DEF ChatInv
<1> QED BY <1>1, ChatStep, PTL DEF A!Spec

\* assistant.py, begin_reply: whatever is stopped, lost, repeated, timed out or
\* restarted, no chat has two replies that a provider writes at a time;
\* Assistant.svelte: switching tasks while a chat is created or a reply streams does
\* not retarget the message, and what is on display is of the chat that is open.
THEOREM OneReplyPerChat ==
    ASSUME A!ChatAssumption
    PROVE  A!Spec => [](A!TypeOK /\ A!OneReplyAtATime /\ A!ContextIsTheSenders /\ A!ShownIsActive)
<1>1. ASSUME ChatInv PROVE A!TypeOK
  BY <1>1 DEF ChatInv, CallTypes, TurnsInv, A!TypeOK
<1>2. ASSUME ChatInv PROVE A!OneReplyAtATime
  <2>1. \A n \in 1..Len(turns) : turns[n].gen \in A!Alive \ {"late"} => turns[n].gen \in Writing
    BY DEF A!Alive, Writing
  <2> QED BY <1>2, <2>1 DEF ChatInv, TurnsInv, A!OneReplyAtATime, A!Numbers
<1>3. ASSUME ChatInv PROVE A!ContextIsTheSenders
  BY <1>3 DEF ChatInv, TurnsInv, TurnHolds, A!ContextIsTheSenders, A!Numbers
<1>4. ASSUME ChatInv PROVE A!ShownIsActive
  BY <1>4 DEF ChatInv, PanelInv, Alone, A!ShownIsActive
<1> QED BY <1>1, <1>2, <1>3, <1>4, ChatHolds, PTL

\* assistant.py, stream_reply, and admin_assistant.py: a reply that has been stored
\* as complete is never called anything else by the other writers of its row.
THEOREM CompleteStays ==
    ASSUME A!ChatAssumption
    PROVE  A!Spec => [][A!StaysComplete]_A!vars
<1>1. ChatInv /\ [A!Next]_A!vars => [A!StaysComplete]_A!vars
  <2>1. SUFFICES ASSUME ChatInv, A!Next PROVE A!StaysComplete
    OBVIOUS
  <2>2. CallTypes /\ TurnsInv /\ PostInv
    BY <2>1 DEF ChatInv
  <2>3. CASE A!Crash
    BY <2>2, <2>3, CrashFollows, FollowKeeps
  <2>4. ASSUME NEW n \in A!Numbers, A!Reply(n) PROVE A!StaysComplete
    BY <2>2, <2>4, ReplyFollows, FollowKeeps
  <2>5. ASSUME NEW w \in Panels, A!Answers(w) \/ A!Panel(w) PROVE A!StaysComplete
    <3>1. CASE A!Begin(w)
      <4>1. post[w] \in A!Posts /\ post[w].task = post[w].pressed /\ MaxTurns \in Nat
        BY <2>2, <3>1, ChatTypes DEF CallTypes, PostInv, A!Begin
      <4> QED BY <2>2, <3>1, <4>1, BeginTurns
    <3>2. CASE A!Open(w) \/ A!Stop(w)
      BY <2>2, <3>2, ClosedFollows, FollowKeeps
    <3>3. CASE ~(A!Begin(w) \/ A!Open(w) \/ A!Stop(w))
      <4>1. UNCHANGED turns
        BY <2>5, <3>3 DEF A!Answers, A!Panel, A!Opened, A!SelectAnswers, A!Created, A!CreateFails, A!PostRefused,
               A!StreamEnds, A!Rereads, A!SendEnds, A!Create, A!Switch, A!Send, A!Event, A!RemoveServed, A!Select,
               A!Remove, A!Removed, A!RemoveFails, A!serverVars
      <4> QED BY <4>1 DEF A!StaysComplete
    <3> QED BY <3>1, <3>2, <3>3
  <2> QED BY <2>1, <2>3, <2>4, <2>5 DEF A!Next
<1> QED BY <1>1, ChatHolds, PTL DEF A!Spec
-----------------------------------------------------------------------------
(* The catalogue editor: texts and saves *)

CONSTANTS Task, File, Word, Proposal, User, MaxVersion, MaxActs, MaxWrites

VARIABLES server, draft, view, user, loggedIn, catalog, st, active, opened, lastDraft, waiting,
          opening, call, acts, writes, typed, origin

E == INSTANCE CatalogEditor

\* What the page keeps of a task t, s, fits its request c, the typed text y and the
\* content o the buffers stem from.
RowTypes(s, c, y, o) ==
    /\ s \in E!TaskState \cup {None} /\ c \in E!Call
    /\ y \in E!Content \cup {None} /\ o \in E!Content \cup {None}
StateFits(s, c, y, o) ==
    /\ s.studio = None <=> s.buf = None
    /\ s.loading <=> c.op = "load"
    /\ s.saving <=> c.op = "save" \/ c.then = "save"
    /\ s.validating <=> c.op = "validate"
    /\ s.studio # None => s.base # None /\ o = s.base.content
    /\ s.notice = "saved" => ~s.loadError /\ ~s.saving /\ ~s.loading
    /\ y # None => s.studio # None /\ s.buf = y /\ s.buf # s.studio.content
CallFits(t, s, c, y, o) ==
    /\ c.then # "" => c.op = "load"
    /\ c.op = "load" => y = None /\ (c.stage = "answered" => c.body \in E!Snapshot)
    /\ c.op \in {"save", "validate"} => /\ s.studio # None
                                        /\ c.body \in E!Draft /\ c.body.task = t
                                        /\ c.body.base.content = o
RowOK(t, s, c, y, o) ==
    /\ RowTypes(s, c, y, o)
    /\ s = None => c = E!NoCall /\ y = None
    /\ s # None => StateFits(s, c, y, o) /\ CallFits(t, s, c, y, o)

PendOK(s, d) == s # None /\ s.pending # None => d[s.pending] # None

RowsInv ==
    /\ st \in [Task -> E!TaskState \cup {None}] /\ call \in [Task -> E!Call]
    /\ typed \in [Task -> E!Content \cup {None}] /\ origin \in [Task -> E!Content \cup {None}]
    /\ \A t \in Task : RowOK(t, st[t], call[t], typed[t], origin[t])
    /\ \A t \in Task : PendOK(st[t], draft)
WorldInv ==
    /\ server \in [Task -> E!Snapshot] /\ draft \in [Proposal -> {None} \cup E!Draft]
    /\ view \in {"editor", "elsewhere"} /\ user \in User \cup {None} /\ loggedIn \in BOOLEAN
    /\ writes \in Nat
\* Every tab is of a task the page has a state of, and what is to be opened is there.
DeskInv ==
    /\ catalog \in {"loading", "listed", "missing"}
    /\ opened \subseteq Task \X File /\ active \in opened \cup {None}
    /\ \A doc \in opened : st[doc[1]] # None
    /\ waiting \subseteq Proposal /\ \A p \in waiting : draft[p] # None
    /\ opening # None => /\ opening \in [task : Task, file : File, draft : Proposal \cup {None}]
                         /\ opening.draft # None => draft[opening.draft] # None
EditorInv == RowsInv /\ WorldInv /\ DeskInv

LEMMA EditorTypes ==
    ASSUME E!EditorAssumption, EditorInv
    PROVE  E!TypeOK
<1>1. \A t \in Task : st[t] # None => StateFits(st[t], call[t], typed[t], origin[t])
  BY DEF EditorInv, RowsInv, RowOK
<1>2. \A t \in Task : st[t] # None =>
         /\ st[t].studio = None <=> st[t].buf = None
         /\ st[t].loading <=> call[t].op = "load"
         /\ st[t].saving <=> (call[t].op = "save" \/ call[t].then = "save")
  BY <1>1 DEF StateFits
<1> QED BY <1>2 DEF EditorInv, RowsInv, WorldInv, DeskInv, E!TypeOK

-----------------------------------------------------------------------------
(* A task's row *)

LEMMA EditorValues ==
    ASSUME E!EditorAssumption
    PROVE  /\ E!NoCall \in E!Call /\ E!EmptyState \in E!TaskState /\ E!EmptyState # None
           /\ None \notin E!TaskState /\ None \notin E!Content /\ None \notin E!Snapshot
           /\ None \notin E!Draft /\ None \notin Proposal /\ "markdown" \in File
<1>1. /\ None \notin E!TaskState /\ None \notin E!Content /\ None \notin E!Snapshot
      /\ None \notin E!Draft /\ None \notin Proposal /\ "markdown" \in File
  BY DEF E!EditorAssumption
<1>2. E!NoCall \in E!Call
  BY DEF E!NoCall, E!Call
<1>3. E!EmptyState \in E!TaskState
  BY DEF E!EmptyState, E!TaskState, E!Notice
<1> QED BY <1>1, <1>2, <1>3

LEMMA LoadCallIs ==
    ASSUME loggedIn \in BOOLEAN, NEW how \in {"", "save", "discard"}
    PROVE  /\ E!LoadCall(how) \in E!Call /\ E!LoadCall(how).op = "load"
           /\ E!LoadCall(how).then = how /\ E!LoadCall(how).stage = "sent"
BY DEF E!LoadCall, E!NoCall, E!Call

\* A load begins.
LEMMA LoadingRow ==
    ASSUME E!EditorAssumption, loggedIn \in BOOLEAN,
           NEW t, NEW s, NEW c, NEW y, NEW o, RowOK(t, s, c, y, o), s # None,
           NEW how \in {"", "save", "discard"}, s.saving <=> how = "save", ~s.validating
    PROVE  /\ RowOK(t, E!Loading(s), E!LoadCall(how), None, o)
           /\ E!Loading(s) # None /\ E!Loading(s).pending = s.pending
<1>1. s \in E!TaskState /\ o \in E!Content \cup {None} /\ StateFits(s, c, y, o)
  BY DEF RowOK, RowTypes
<1>2. PICK r : r = E!Loading(s)
  OBVIOUS
<1>3. /\ r \in E!TaskState
      /\ r.studio = s.studio /\ r.buf = s.buf /\ r.base = s.base /\ r.loading = TRUE
      /\ r.loadError = FALSE /\ r.saving = s.saving /\ r.validating = s.validating
      /\ r.pending = s.pending /\ r.notice = ""
  BY <1>1, <1>2 DEF E!Loading, E!TaskState, E!Notice
<1>4. PICK d : d = E!LoadCall(how)
  OBVIOUS
<1>5. d \in E!Call /\ d.op = "load" /\ d.then = how /\ d.stage = "sent"
  BY <1>4, LoadCallIs
<1>6. r # None
  BY <1>3, EditorValues
<1>7. StateFits(r, d, None, o)
  BY <1>1, <1>3, <1>5 DEF StateFits, E!TaskState
<1>8. CallFits(t, r, d, None, o)
  BY <1>5 DEF CallFits
<1>9. RowOK(t, r, d, None, o)
  BY <1>1, <1>3, <1>5, <1>6, <1>7, <1>8 DEF RowOK, RowTypes
<1> QED BY <1>2, <1>3, <1>4, <1>6, <1>9

\* A proposal is put before the author.
LEMMA PutDraftRow ==
    ASSUME E!EditorAssumption,
           NEW t, NEW s, NEW c, NEW y, NEW o, RowOK(t, s, c, y, o), s # None, NEW p \in Proposal
    PROVE  /\ RowOK(t, E!PutDraft(s, p), c, y, o)
           /\ E!PutDraft(s, p) # None /\ E!PutDraft(s, p).pending = p
           /\ E!PutDraft(s, p).buf = s.buf
<1>1. s \in E!TaskState /\ StateFits(s, c, y, o) /\ CallFits(t, s, c, y, o) /\ RowTypes(s, c, y, o)
  BY DEF RowOK, RowTypes
<1>2. PICK r : r = E!PutDraft(s, p)
  OBVIOUS
<1>m. PICK b \in BOOLEAN : b = ~E!Matches(s, p)
  OBVIOUS
<1>e. r = [s EXCEPT !.pending = p, !.conflict = b, !.notice = "ready"]
  BY <1>2, <1>m, Zenon DEF E!PutDraft
<1>3. /\ r \in E!TaskState
      /\ r.studio = s.studio /\ r.buf = s.buf /\ r.base = s.base /\ r.loading = s.loading
      /\ r.loadError = s.loadError /\ r.saving = s.saving /\ r.validating = s.validating
      /\ r.pending = p /\ r.notice = "ready"
  BY <1>1, <1>e DEF E!TaskState, E!Notice
<1>4. r # None
  BY <1>3, EditorValues
<1>5. StateFits(r, c, y, o)
  BY <1>1, <1>3 DEF StateFits
<1>6. CallFits(t, r, c, y, o)
  BY <1>1, <1>3 DEF CallFits
<1>7. RowOK(t, r, c, y, o)
  BY <1>1, <1>3, <1>4, <1>5, <1>6 DEF RowOK, RowTypes
<1> QED BY <1>2, <1>3, <1>4, <1>7

\* A load has ended, and what waited for it has not gone on.
ReadOK(s, o) ==
    /\ s \in E!TaskState /\ o \in E!Content \cup {None}
    /\ s.studio = None <=> s.buf = None
    /\ ~s.loading /\ ~s.validating /\ s.notice # "saved"
    /\ s.studio # None => s.base # None /\ o = s.base.content

LEMMA ThenRow ==
    ASSUME E!EditorAssumption, NEW t, NEW s, NEW o, ReadOK(s, o),
           NEW how \in {"", "save", "discard"}, s.saving <=> how = "save"
    PROVE  /\ RowOK(t, E!Then(s, how), E!NoCall, None, o)
           /\ E!Then(s, how) # None /\ E!Then(s, how).buf = s.buf
           /\ E!Then(s, how).pending \in {s.pending, None}
<1>1. PICK r : r = E!Then(s, how)
  OBVIOUS
<1>2. /\ r \in E!TaskState
      /\ r.studio = s.studio /\ r.buf = s.buf /\ r.base = s.base /\ r.loading = s.loading
      /\ r.loadError = s.loadError /\ ~r.saving /\ r.validating = s.validating
      /\ r.pending \in {s.pending, None} /\ (r.notice = "saved" => ~s.loadError)
  <2>1. CASE how = "save"
    <3>1. r = E!AfterSave(s)
      BY <1>1, <2>1 DEF E!Then
    <3> QED BY <3>1 DEF E!AfterSave, ReadOK, E!TaskState, E!Notice
  <2>2. CASE how = "discard"
    <3>1. r = E!AfterDiscard(s)
      BY <1>1, <2>2 DEF E!Then
    <3> QED BY <2>2, <3>1 DEF E!AfterDiscard, ReadOK, E!TaskState, E!Notice
  <2>3. CASE how = ""
    <3>1. r = s
      BY <1>1, <2>3 DEF E!Then
    <3> QED BY <2>3, <3>1 DEF ReadOK, E!TaskState
  <2> QED BY <2>1, <2>2, <2>3
<1>3. r # None
  BY <1>2, EditorValues
<1>4. /\ E!NoCall \in E!Call /\ E!NoCall.op = "none" /\ E!NoCall.then = ""
  BY EditorValues DEF E!NoCall
<1>5. StateFits(r, E!NoCall, None, o)
  BY <1>2, <1>4 DEF StateFits, ReadOK, E!TaskState
<1>6. CallFits(t, r, E!NoCall, None, o)
  BY <1>4 DEF CallFits
<1>7. RowOK(t, r, E!NoCall, None, o)
  BY <1>2, <1>3, <1>4, <1>5, <1>6 DEF RowOK, RowTypes, ReadOK
<1> QED BY <1>1, <1>2, <1>3, <1>7

\* A request's answer or failure.
LEMMA AnswerRow ==
    ASSUME NEW t, NEW s, NEW c, NEW y, NEW o, RowOK(t, s, c, y, o), s # None,
           NEW d \in E!Call, d.op = c.op, d.then = c.then,
           d.stage = "answered" /\ c.op = "load" => d.body \in E!Snapshot,
           c.op \in {"save", "validate"} => d.body = c.body
    PROVE  RowOK(t, s, d, y, o)
<1>1. StateFits(s, d, y, o)
  BY DEF RowOK, StateFits
<1>2. CallFits(t, s, d, y, o)
  BY DEF RowOK, CallFits
<1> QED BY <1>1, <1>2 DEF RowOK, RowTypes

\* The author's text, in a row that no request holds.
LEMMA TextRow ==
    ASSUME E!EditorAssumption, NEW t, NEW s, NEW c, NEW y, NEW o, RowOK(t, s, c, y, o), s # None,
           ~E!Busy(s), s.studio # None, NEW b \in E!Content, NEW r \in E!TaskState,
           r.studio = s.studio, r.base = s.base, r.loading = s.loading, r.saving = s.saving,
           r.loadError = s.loadError, r.validating = s.validating, r.buf = b,
           r.notice \in {s.notice, "bumped", "closed"},
           NEW z \in {b, None}, z # None => b # s.studio.content
    PROVE  RowOK(t, r, c, z, o)
<1>1. s \in E!TaskState /\ StateFits(s, c, y, o) /\ CallFits(t, s, c, y, o) /\ RowTypes(s, c, y, o)
  BY DEF RowOK, RowTypes
<1>2. ~s.loading /\ ~s.saving /\ ~s.validating
  BY DEF E!Busy
<1>3. r # None /\ None \notin E!Content
  BY EditorValues
<1>4. StateFits(r, c, z, o)
  BY <1>1, <1>2, <1>3 DEF StateFits
<1>5. c.op = "none" /\ c.then = ""
  BY <1>1, <1>2 DEF StateFits, CallFits, RowTypes, E!Call
<1>6. CallFits(t, r, c, z, o)
  BY <1>5 DEF CallFits
<1> QED BY <1>1, <1>3, <1>4, <1>6 DEF RowOK, RowTypes

-----------------------------------------------------------------------------
(* All rows, and the desk *)

RowBecomes(t, s, c, y, o) ==
    /\ st' = [st EXCEPT ![t] = s] /\ call' = [call EXCEPT ![t] = c]
    /\ typed' = [typed EXCEPT ![t] = y] /\ origin' = [origin EXCEPT ![t] = o]

\* One row changes.
LEMMA RowStep ==
    ASSUME RowsInv, UNCHANGED draft, NEW t \in Task, NEW s, NEW c, NEW y, NEW o,
           RowOK(t, s, c, y, o), s # None, PendOK(s, draft),
           st' = [st EXCEPT ![t] = s], call' = [call EXCEPT ![t] = c],
           typed' = [typed EXCEPT ![t] = y], origin' = [origin EXCEPT ![t] = o]
    PROVE  /\ RowsInv' /\ st'[t] = s
           /\ \A u \in Task : st[u] # None => st'[u] # None
<1>1. /\ st' \in [Task -> E!TaskState \cup {None}] /\ call' \in [Task -> E!Call]
      /\ typed' \in [Task -> E!Content \cup {None}] /\ origin' \in [Task -> E!Content \cup {None}]
  BY DEF RowsInv, RowOK, RowTypes
<1>2. /\ st'[t] = s /\ call'[t] = c /\ typed'[t] = y /\ origin'[t] = o
      /\ \A u \in Task \ {t} : /\ st'[u] = st[u] /\ call'[u] = call[u]
                               /\ typed'[u] = typed[u] /\ origin'[u] = origin[u]
  BY DEF RowsInv
<1>3. \A u \in Task : RowOK(u, st'[u], call'[u], typed'[u], origin'[u])
  BY <1>2 DEF RowsInv
<1>4. \A u \in Task : PendOK(st'[u], draft')
  BY <1>2 DEF RowsInv
<1> QED BY <1>1, <1>2, <1>3, <1>4 DEF RowsInv

LEMMA SameRow ==
    ASSUME RowsInv, NEW t \in Task
    PROVE  /\ UNCHANGED st => st' = [st EXCEPT ![t] = st[t]]
           /\ UNCHANGED call => call' = [call EXCEPT ![t] = call[t]]
           /\ UNCHANGED typed => typed' = [typed EXCEPT ![t] = typed[t]]
           /\ UNCHANGED origin => origin' = [origin EXCEPT ![t] = origin[t]]
BY DEF RowsInv

LEMMA RowBecoming ==
    ASSUME RowsInv, UNCHANGED draft, NEW t \in Task, NEW s, NEW c, NEW y, NEW o,
           RowOK(t, s, c, y, o), s # None, PendOK(s, draft), RowBecomes(t, s, c, y, o)
    PROVE  RowsInv' /\ st'[t] = s /\ \A u \in Task : st[u] # None => st'[u] # None
BY RowStep DEF RowBecomes

\* The rows stay, whatever is proposed meanwhile.
LEMMA RowsStay ==
    ASSUME E!EditorAssumption, RowsInv, UNCHANGED <<st, call, typed, origin>>,
           \A p \in Proposal : draft[p] # None => draft'[p] # None
    PROVE  RowsInv'
<1>1. \A u \in Task : st[u] # None /\ st[u].pending # None => st[u].pending \in Proposal
  BY DEF RowsInv, E!TaskState
<1>2. \A u \in Task : PendOK(st[u], draft)'
  BY <1>1 DEF RowsInv, PendOK
<1>3. \A u \in Task : RowOK(u, st[u], call[u], typed[u], origin[u])'
  BY DEF RowsInv
<1> QED BY <1>2, <1>3 DEF RowsInv

\* The page is left, or comes anew.
LEMMA FreshRows ==
    ASSUME E!EditorAssumption, E!Fresh
    PROVE  RowsInv'
<1>1. /\ st' = [t \in Task |-> None] /\ call' = [t \in Task |-> E!NoCall]
      /\ typed' = [t \in Task |-> None] /\ origin' = [t \in Task |-> None]
  BY DEF E!Fresh
<1>2. \A t \in Task : RowOK(t, None, E!NoCall, None, None)
  BY EditorValues DEF RowOK, RowTypes
<1>3. \A t \in Task : RowOK(t, st[t], call[t], typed[t], origin[t])'
  BY <1>1, <1>2
<1>4. \A t \in Task : PendOK(st[t], draft)'
  BY <1>1 DEF PendOK
<1> QED BY <1>1, <1>3, <1>4, EditorValues DEF RowsInv

LEMMA DeskStays ==
    ASSUME DeskInv, UNCHANGED <<catalog, opened, active, waiting, opening>>,
           \A p \in Proposal : draft[p] # None => draft'[p] # None,
           \A u \in Task : st[u] # None => st'[u] # None
    PROVE  DeskInv'
<1>1. \A doc \in opened : st'[doc[1]] # None
  BY DEF DeskInv
<1>2. opening # None => opening.draft \in Proposal \cup {None}
  BY DEF DeskInv
<1> QED BY <1>1, <1>2 DEF DeskInv

\* A file is opened, of a task that has a state.
LEMMA DeskOpens ==
    ASSUME DeskInv, UNCHANGED draft, \A u \in Task : st[u] # None => st'[u] # None,
           NEW t \in Task, NEW f \in File, st'[t] # None, E!OpenDoc(t, f), UNCHANGED catalog,
           waiting' \subseteq waiting,
           \/ opening' = opening
           \/ opening' = None
           \/ \E p \in Proposal \cup {None} : /\ opening' = [task |-> t, file |-> f, draft |-> p]
                                              /\ p # None => draft[p] # None
    PROVE  DeskInv'
<1>1. opened' = opened \cup {<<t, f>>} /\ active' = <<t, f>>
  BY DEF E!OpenDoc
<1>2. \A doc \in opened' : st'[doc[1]] # None
  BY <1>1 DEF DeskInv
<1>3. opening' # None => /\ opening' \in [task : Task, file : File, draft : Proposal \cup {None}]
                         /\ opening'.draft # None => draft[opening'.draft] # None
  BY DEF DeskInv
<1> QED BY <1>1, <1>2, <1>3 DEF DeskInv

Outside == <<server, draft, view, user, loggedIn, writes>>
LEMMA WorldStays == ASSUME WorldInv, UNCHANGED Outside PROVE WorldInv' /\ E!SavesKnown
<1>1. UNCHANGED <<server, draft, view, user, loggedIn, writes>>
  BY DEF Outside
<1> QED BY <1>1 DEF WorldInv, E!SavesKnown

-----------------------------------------------------------------------------
(* The editor's steps *)

Good == EditorInv' /\ E!SavesKnown

\* One row changes, and nothing of the desk.
LEMMA AtDesk ==
    ASSUME EditorInv, UNCHANGED Outside, UNCHANGED <<catalog, opened, active, waiting, opening>>,
           RowsInv', \A u \in Task : st[u] # None => st'[u] # None
    PROVE  Good
<1>1. UNCHANGED draft
  BY DEF Outside
<1>2. DeskInv'
  BY <1>1, DeskStays DEF EditorInv
<1>3. WorldInv' /\ E!SavesKnown
  BY WorldStays DEF EditorInv
<1> QED BY <1>2, <1>3 DEF Good, EditorInv

LEMMA Called ==
    ASSUME EditorInv, NEW t \in Task, call[t].op # "none"
    PROVE  /\ st[t] # None /\ st[t] \in E!TaskState /\ call[t] \in E!Call
           /\ RowOK(t, st[t], call[t], typed[t], origin[t])
           /\ StateFits(st[t], call[t], typed[t], origin[t])
           /\ CallFits(t, st[t], call[t], typed[t], origin[t])
           /\ PendOK(st[t], draft)
<1>1. RowOK(t, st[t], call[t], typed[t], origin[t]) /\ PendOK(st[t], draft)
  BY DEF EditorInv, RowsInv
<1>n. E!NoCall.op = "none"
  BY DEF E!NoCall
<1>2. st[t] # None
  BY <1>1, <1>n DEF RowOK
<1>3. st[t] \in E!TaskState /\ call[t] \in E!Call
  BY <1>2 DEF EditorInv, RowsInv
<1> QED BY <1>1, <1>2, <1>3 DEF RowOK

\* The active tab's task.
LEMMA OnDesk ==
    ASSUME EditorInv, NEW doc \in opened
    PROVE  /\ doc[1] \in Task /\ doc[2] \in File /\ st[doc[1]] # None
           /\ st[doc[1]] \in E!TaskState
           /\ call[doc[1]] \in E!Call
           /\ RowOK(doc[1], st[doc[1]], call[doc[1]], typed[doc[1]], origin[doc[1]])
           /\ StateFits(st[doc[1]], call[doc[1]], typed[doc[1]], origin[doc[1]])
           /\ CallFits(doc[1], st[doc[1]], call[doc[1]], typed[doc[1]], origin[doc[1]])
           /\ PendOK(st[doc[1]], draft)
<1>1. doc[1] \in Task /\ doc[2] \in File /\ st[doc[1]] # None
  BY DEF EditorInv, DeskInv
<1> QED BY <1>1 DEF EditorInv, RowsInv, RowOK


\* The requests and the server.

LEMMA Answering ==
    ASSUME E!EditorAssumption, EditorInv, NEW t \in Task, call[t].op # "none",
           NEW d \in E!Call, d.op = call[t].op, d.then = call[t].then,
           d.stage = "answered" /\ d.op = "load" => d.body \in E!Snapshot,
           d.op \in {"save", "validate"} => d.body = call[t].body,
           call' = [call EXCEPT ![t] = d], UNCHANGED <<st, typed, origin, draft>>
    PROVE  RowsInv'
<1>1. /\ st[t] # None /\ RowOK(t, st[t], call[t], typed[t], origin[t]) /\ PendOK(st[t], draft)
  BY Called
<1>2. RowOK(t, st[t], d, typed[t], origin[t])
  BY <1>1, AnswerRow
<1>3. /\ st' = [st EXCEPT ![t] = st[t]] /\ typed' = [typed EXCEPT ![t] = typed[t]]
      /\ origin' = [origin EXCEPT ![t] = origin[t]]
  BY SameRow DEF EditorInv
<1>4. RowBecomes(t, st[t], d, typed[t], origin[t])
  BY <1>3, Zenon DEF RowBecomes
<1>5. RowsInv /\ UNCHANGED draft
  BY DEF EditorInv
<1> QED BY <1>1, <1>2, <1>4, <1>5, RowBecoming

LEMMA ServerReadStep ==
    ASSUME E!EditorAssumption, EditorInv, NEW t \in Task, E!ServerLoad(t) \/ E!ServerValidate(t)
    PROVE  Good
<1>1. PICK b : /\ call' = [call EXCEPT ![t].stage = "answered", ![t].body = b]
               /\ \/ call[t].op = "load" /\ b = server[t]
                  \/ call[t].op = "validate" /\ b = call[t].body
  BY DEF E!ServerLoad, E!ServerValidate, E!Answer
<1>2. PICK d : d = [call[t] EXCEPT !.stage = "answered", !.body = b]
  OBVIOUS
<1>3. /\ UNCHANGED Outside /\ UNCHANGED <<catalog, opened, active, waiting, opening>>
      /\ UNCHANGED <<st, typed, origin, draft>>
  BY DEF E!ServerLoad, E!ServerValidate, E!ServerStay, E!Stay, E!history, Outside
<1>4. call[t] \in E!Call /\ server[t] \in E!Snapshot
  BY Called, <1>1 DEF EditorInv, WorldInv
<1>5. /\ d \in E!Call /\ d.op = call[t].op /\ d.then = call[t].then /\ d.stage = "answered"
      /\ d.body = b
  BY <1>1, <1>2, <1>4 DEF E!Call
<1>6. call' = [call EXCEPT ![t] = d]
  BY <1>1, <1>2
<1>7. d.op = "load" => d.body \in E!Snapshot
  BY <1>1, <1>4, <1>5
<1>8. call[t].op # "none" /\ (d.op \in {"save", "validate"} => d.body = call[t].body)
  BY <1>1, <1>5
<1>9. RowsInv'
  BY <1>3, <1>5, <1>6, <1>7, <1>8, Answering
<1>10. \A u \in Task : st[u] # None => st'[u] # None
  BY <1>3
<1> QED BY <1>3, <1>9, <1>10, AtDesk


LEMMA ServerSaveStep ==
    ASSUME E!EditorAssumption, EditorInv, NEW t \in Task, E!ServerSave(t)
    PROVE  Good
<1>1. /\ call[t].op = "save" /\ E!Acceptable(call[t].body)
      /\ call' = [call EXCEPT ![t].stage = "answered", ![t].body = call[t].body]
      /\ server' = [server EXCEPT ![t] = [content |-> call[t].body.content,
                                          version |-> call[t].body.content.declared]]
      /\ UNCHANGED <<draft, view, user, loggedIn, writes>>
      /\ UNCHANGED <<catalog, opened, active, waiting, opening>>
      /\ UNCHANGED <<st, typed, origin, draft>>
  BY DEF E!ServerSave, E!Answer, E!ServerStay, E!Stay, E!history
<1>2. PICK d : d = [call[t] EXCEPT !.stage = "answered", !.body = call[t].body]
  OBVIOUS
<1>3. /\ call[t] \in E!Call /\ call[t].body \in E!Draft /\ call[t].body.task = t
      /\ call[t].body.base.content = origin[t]
  BY Called, <1>1 DEF CallFits
<1>4. /\ d \in E!Call /\ d.op = call[t].op /\ d.then = call[t].then /\ d.stage = "answered"
      /\ d.body = call[t].body
  BY <1>2, <1>3 DEF E!Call
<1>5. call' = [call EXCEPT ![t] = d]
  BY <1>1, <1>2
<1>6. call[t].op # "none" /\ d.op # "load"
  BY <1>1, <1>4
<1>7. RowsInv'
  BY <1>1, <1>4, <1>5, <1>6, Answering
<1>8. DeskInv'
  BY <1>1, DeskStays DEF EditorInv
<1>9. call[t].body.base = server[t] /\ call[t].body.content.declared # E!Unset
  BY <1>1, <1>3 DEF E!Acceptable, E!Current
<1>10. call[t].body.content \in E!Content
  BY <1>3 DEF E!Draft
<1>11. [content |-> call[t].body.content, version |-> call[t].body.content.declared] \in E!Snapshot
  BY <1>9, <1>10 DEF E!Content, E!Snapshot, E!Unset, E!EditorAssumption
<1>12. WorldInv'
  BY <1>1, <1>11 DEF EditorInv, WorldInv
<1>13. server[t].content = origin[t]
  BY <1>3, <1>9
<1>14. \A u \in Task : u # t => server'[u] = server[u]
  BY <1>1 DEF EditorInv, WorldInv
<1>15. E!SavesKnown
  BY <1>13, <1>14 DEF E!SavesKnown
<1> QED BY <1>7, <1>8, <1>12, <1>15 DEF Good, EditorInv

LEMMA FailStep ==
    ASSUME E!EditorAssumption, EditorInv, NEW t \in Task, E!CallFails(t) \/ E!SessionExpired(t)
    PROVE  Good
<1>1. /\ call[t].stage \in {"sent", "answered"}
      /\ call' = [call EXCEPT ![t].stage = "failed"]
      /\ UNCHANGED <<server, draft, view, user, writes>> /\ loggedIn' \in {loggedIn, FALSE}
      /\ UNCHANGED <<catalog, opened, active, waiting, opening>>
      /\ UNCHANGED <<st, typed, origin>>
  BY DEF E!CallFails, E!SessionExpired, E!ServerStay, E!Stay, E!history
<1>2. PICK d : d = [call[t] EXCEPT !.stage = "failed"]
  OBVIOUS
<1>3. /\ call[t] \in E!Call
  BY DEF EditorInv, RowsInv
<1>4. /\ d \in E!Call /\ d.op = call[t].op /\ d.then = call[t].then /\ d.stage = "failed"
      /\ d.body = call[t].body
  BY <1>2, <1>3 DEF E!Call
<1>5. call' = [call EXCEPT ![t] = d]
  BY <1>1, <1>2
<1>6. RowOK(t, st[t], call[t], typed[t], origin[t]) /\ PendOK(st[t], draft)
  BY DEF EditorInv, RowsInv
<1>n. E!NoCall.stage = ""
  BY DEF E!NoCall
<1>7. st[t] # None
  BY <1>1, <1>6, <1>n DEF RowOK
<1>8. RowOK(t, st[t], d, typed[t], origin[t])
  BY <1>4, <1>6, <1>7, AnswerRow
<1>9. /\ st' = [st EXCEPT ![t] = st[t]] /\ typed' = [typed EXCEPT ![t] = typed[t]]
      /\ origin' = [origin EXCEPT ![t] = origin[t]]
  BY <1>1, SameRow DEF EditorInv
<1>r. RowsInv /\ UNCHANGED draft
  BY <1>1 DEF EditorInv
<1>10. RowsInv'
  BY <1>5, <1>6, <1>7, <1>8, <1>9, <1>r, RowStep
<1>11. DeskInv'
  BY <1>1, DeskStays DEF EditorInv
<1>12. WorldInv' /\ E!SavesKnown
  BY <1>1 DEF EditorInv, WorldInv, E!SavesKnown
<1> QED BY <1>10, <1>11, <1>12 DEF Good, EditorInv

LEMMA OtherWritesStep ==
    ASSUME E!EditorAssumption, EditorInv, NEW t \in Task, E!OtherWrites(t)
    PROVE  Good
<1>1. /\ writes' = writes + 1
      /\ UNCHANGED <<draft, view, user, loggedIn, catalog, opened, active, waiting, opening>>
      /\ UNCHANGED <<st, call, typed, origin>>
  BY DEF E!OtherWrites, E!page, E!history
<1>2. PICK c \in E!Content :
          /\ c.declared # E!Unset
          /\ \/ server' = [server EXCEPT ![t] = [content |-> c, version |-> c.declared]]
             \/ server' = [server EXCEPT ![t].content = c]
  BY DEF E!OtherWrites
<1>3. /\ [content |-> c, version |-> c.declared] \in E!Snapshot
      /\ [server[t] EXCEPT !.content = c] \in E!Snapshot
  BY <1>2 DEF E!Content, E!Snapshot, E!Unset, E!EditorAssumption, EditorInv, WorldInv
<1>4. server' \in [Task -> E!Snapshot]
  BY <1>2, <1>3 DEF EditorInv, WorldInv
<1>5. WorldInv' /\ E!SavesKnown
  BY <1>1, <1>4 DEF EditorInv, WorldInv, E!SavesKnown
<1>6. RowsInv'
  BY <1>1, RowsStay DEF EditorInv
<1>7. DeskInv'
  BY <1>1, DeskStays DEF EditorInv
<1> QED BY <1>5, <1>6, <1>7 DEF Good, EditorInv

LEMMA ProposeStep ==
    ASSUME E!EditorAssumption, EditorInv, NEW p \in Proposal, E!Propose(p)
    PROVE  Good
<1>1. /\ UNCHANGED <<server, view, user, loggedIn, writes, catalog, opened, active, waiting, opening>>
      /\ UNCHANGED <<st, call, typed, origin>>
  BY DEF E!Propose, E!page, E!history
<1>2. PICK t \in Task, w \in Word :
         draft' = [draft EXCEPT ![p] =
            [task |-> t, base |-> server[t],
             content |-> [text |-> [server[t].content.text EXCEPT !["markdown"] = w],
                          declared |-> server[t].content.declared]]]
  BY DEF E!Propose
<1>3. server[t] \in E!Snapshot /\ server[t].content \in E!Content
  BY DEF EditorInv, WorldInv, E!Snapshot
<1>4. [text |-> [server[t].content.text EXCEPT !["markdown"] = w],
       declared |-> server[t].content.declared] \in E!Content
  BY <1>3 DEF E!Content
<1>5. PICK d : d = [task |-> t, base |-> server[t],
             content |-> [text |-> [server[t].content.text EXCEPT !["markdown"] = w],
                          declared |-> server[t].content.declared]]
  OBVIOUS
<1>6. d \in E!Draft
  BY <1>3, <1>4, <1>5 DEF E!Draft
<1>7. draft' = [draft EXCEPT ![p] = d]
  BY <1>2, <1>5
<1>8. /\ draft' \in [Proposal -> {None} \cup E!Draft]
      /\ \A q \in Proposal : draft[q] # None => draft'[q] # None
  BY <1>6, <1>7, EditorValues DEF EditorInv, WorldInv
<1>9. WorldInv' /\ E!SavesKnown
  BY <1>1, <1>8 DEF EditorInv, WorldInv, E!SavesKnown
<1>10. RowsInv'
  BY <1>1, <1>8, RowsStay DEF EditorInv
<1>11. DeskInv'
  BY <1>1, <1>8, DeskStays DEF EditorInv
<1> QED BY <1>9, <1>10, <1>11 DEF Good, EditorInv


-----------------------------------------------------------------------------
(* What the page makes of the answers *)

LEMMA LoadEndsStep ==
    ASSUME E!EditorAssumption, EditorInv, NEW t \in Task, E!LoadEnds(t)
    PROVE  Good
<1> DEFINE s == st[t]   c == call[t]
           answered == call[t].stage = "answered"
           read == IF answered THEN E!Loaded(s, c.body) ELSE E!LoadFailed(s)
           next == E!Then(read, c.then)
           mine == opening # None /\ opening.task = t
           last == IF mine /\ opening.draft # None THEN E!PutDraft(next, opening.draft) ELSE next
           o == IF answered THEN c.body.content ELSE origin[t]
<1>1. /\ c.op = "load"
      /\ st' = [st EXCEPT ![t] = last]
      /\ call' = [call EXCEPT ![t] = E!NoCall]
      /\ UNCHANGED typed
  BY DEF E!LoadEnds
<1>2. UNCHANGED Outside /\ UNCHANGED <<catalog, waiting, draft>>
  BY DEF E!LoadEnds, E!Quiet, E!Stay, Outside
<1>3. IF mine THEN E!OpenDoc(t, opening.file) /\ opening' = None
              ELSE UNCHANGED <<opened, active, opening>>
  BY DEF E!LoadEnds
<1>4. /\ s # None /\ s \in E!TaskState /\ c \in E!Call
      /\ StateFits(s, c, typed[t], origin[t]) /\ CallFits(t, s, c, typed[t], origin[t])
      /\ RowTypes(s, c, typed[t], origin[t]) /\ PendOK(s, draft)
  BY <1>1, Called DEF RowOK
<1>5. /\ typed[t] = None /\ (answered => c.body \in E!Snapshot)
      /\ ~s.validating /\ (s.saving <=> c.then = "save") /\ s.notice # "saved"
  BY <1>1, <1>4 DEF StateFits, CallFits
<1>6. /\ c.then \in {"", "save", "discard"} /\ None \notin E!Content /\ None \notin E!Snapshot
  BY <1>4, EditorValues DEF E!Call
<1>7. /\ ReadOK(read, o) /\ (read.saving <=> c.then = "save")
      /\ read.pending \in {s.pending, None}
      /\ answered => read.buf = c.body.content
  <2>1. CASE answered
    <3>1. read = E!Loaded(s, c.body) /\ c.body \in E!Snapshot /\ c.body.content \in E!Content
      BY <2>1, <1>5 DEF E!Snapshot
    <3>2. PICK r : r = E!Loaded(s, c.body)
      OBVIOUS
    <3>3. /\ r \in E!TaskState
          /\ r.studio = c.body /\ r.buf = c.body.content /\ r.base = c.body /\ ~r.loading
          /\ r.saving = s.saving /\ r.validating = s.validating /\ r.notice = s.notice
          /\ r.pending = None
      BY <1>4, <3>1, <3>2 DEF E!Loaded, E!TaskState
    <3>4. ReadOK(r, c.body.content)
      BY <1>5, <1>6, <3>1, <3>3 DEF ReadOK
    <3> QED BY <2>1, <1>5, <3>1, <3>2, <3>3, <3>4
  <2>2. CASE ~answered
    <3>1. read = E!LoadFailed(s)
      BY <2>2
    <3>2. PICK r : r = E!LoadFailed(s)
      OBVIOUS
    <3>3. /\ r \in E!TaskState
          /\ r.studio = s.studio /\ r.buf = s.buf /\ r.base = s.base /\ ~r.loading
          /\ r.saving = s.saving /\ r.validating = s.validating /\ r.notice = s.notice
          /\ r.pending = s.pending
      BY <1>4, <3>2 DEF E!LoadFailed, E!TaskState
    <3>4. ReadOK(r, origin[t])
      BY <1>4, <1>5, <3>3 DEF ReadOK, RowTypes, StateFits
    <3> QED BY <2>2, <1>5, <3>1, <3>2, <3>3, <3>4
  <2> QED BY <2>1, <2>2
<1>8. PICK n : n = next
  OBVIOUS
<1>9. /\ RowOK(t, n, E!NoCall, None, o) /\ n # None /\ n.buf = read.buf
      /\ n.pending \in {s.pending, None}
  BY <1>6, <1>7, <1>8, ThenRow
<1>10. PICK r : r = last
  OBVIOUS
<1>11. opening # None => /\ opening.file \in File /\ opening.draft \in Proposal \cup {None}
                         /\ opening.draft # None => draft[opening.draft] # None
  BY DEF EditorInv, DeskInv
<1>12. /\ RowOK(t, r, E!NoCall, None, o) /\ r # None /\ r.buf = read.buf /\ PendOK(r, draft)
  <2>1. CASE mine /\ opening.draft # None
    <3>1. r = E!PutDraft(n, opening.draft) /\ opening.draft \in Proposal
      BY <2>1, <1>8, <1>10, <1>11
    <3>2. /\ RowOK(t, r, E!NoCall, None, o) /\ r # None /\ r.buf = n.buf /\ r.pending = opening.draft
      BY <1>9, <3>1, PutDraftRow
    <3> QED BY <2>1, <1>9, <1>11, <3>2 DEF PendOK
  <2>2. CASE ~(mine /\ opening.draft # None)
    <3>1. r = n
      BY <2>2, <1>8, <1>10
    <3> QED BY <1>4, <1>9, <3>1 DEF PendOK
  <2> QED BY <2>1, <2>2
<1>13. st' = [st EXCEPT ![t] = r] /\ st'[t] = r
  BY <1>1, <1>10 DEF EditorInv, RowsInv
<1>14. origin' = [origin EXCEPT ![t] = o]
  <2>1. origin' = IF answered /\ st'[t].buf = c.body.content
                  THEN [origin EXCEPT ![t] = c.body.content] ELSE origin
    BY DEF E!LoadEnds
  <2>2. answered => st'[t].buf = c.body.content
    BY <1>7, <1>12, <1>13
  <2>3. CASE answered
    BY <2>1, <2>2, <2>3
  <2>4. CASE ~answered
    <3>1. origin' = origin /\ o = origin[t]
      BY <2>1, <2>4
    <3> QED BY <3>1, SameRow DEF EditorInv
  <2> QED BY <2>3, <2>4
<1>15. typed' = [typed EXCEPT ![t] = None]
  BY <1>1, <1>5, SameRow DEF EditorInv
<1>16. RowsInv /\ UNCHANGED draft
  BY <1>2 DEF EditorInv
<1>b. RowBecomes(t, r, E!NoCall, None, o)
  BY <1>1, <1>13, <1>14, <1>15, Zenon DEF RowBecomes
<1>17. RowsInv' /\ \A u \in Task : st[u] # None => st'[u] # None
  BY <1>b, <1>12, <1>16, RowBecoming
<1>18. DeskInv'
  <2>1. CASE mine
    <3>1. E!OpenDoc(t, opening.file) /\ opening' = None /\ opening.file \in File
      BY <2>1, <1>3, <1>11
    <3>2. st'[t] # None /\ DeskInv /\ waiting' \subseteq waiting /\ UNCHANGED <<draft, catalog>>
      BY <1>2, <1>12, <1>13 DEF EditorInv
    <3> QED BY <1>17, <3>1, <3>2, DeskOpens
  <2>2. CASE ~mine
    <3>1. UNCHANGED <<opened, active, opening>>
      BY <2>2, <1>3
    <3> QED BY <1>2, <1>17, <3>1, DeskStays DEF EditorInv
  <2> QED BY <2>1, <2>2
<1>19. WorldInv' /\ E!SavesKnown
  BY <1>2, WorldStays DEF EditorInv
<1> QED BY <1>17, <1>18, <1>19 DEF Good, EditorInv

LEMMA ValidateEndsStep ==
    ASSUME E!EditorAssumption, EditorInv, NEW t \in Task, E!ValidateEnds(t)
    PROVE  Good
<1>1. /\ call[t].op = "validate"
      /\ st' = [st EXCEPT ![t] =
            [st[t] EXCEPT !.validating = FALSE,
                      !.result = IF call[t].stage = "answered" /\ st[t].base = call[t].body.base
                                   THEN call[t].body.content ELSE st[t].result]]
      /\ call' = [call EXCEPT ![t] = E!NoCall]
      /\ UNCHANGED Outside /\ UNCHANGED <<catalog, opened, active, waiting, opening>>
      /\ UNCHANGED <<typed, origin, draft>>
  BY DEF E!ValidateEnds, E!Quiet, E!Stay, E!history, Outside
<1>2. /\ st[t] # None /\ st[t] \in E!TaskState /\ call[t] \in E!Call
      /\ StateFits(st[t], call[t], typed[t], origin[t])
      /\ CallFits(t, st[t], call[t], typed[t], origin[t])
      /\ RowTypes(st[t], call[t], typed[t], origin[t]) /\ PendOK(st[t], draft)
  BY <1>1, Called DEF RowOK
<1>3. call[t].body \in E!Draft /\ call[t].body.content \in E!Content /\ call[t].then = ""
  BY <1>1, <1>2 DEF CallFits, E!Draft
<1>4. PICK res : res = IF call[t].stage = "answered" /\ st[t].base = call[t].body.base
                         THEN call[t].body.content ELSE st[t].result
  OBVIOUS
<1>5. PICK r : r =
            [st[t] EXCEPT !.validating = FALSE,
                      !.result = IF call[t].stage = "answered" /\ st[t].base = call[t].body.base
                                   THEN call[t].body.content ELSE st[t].result]
  OBVIOUS
<1>s. r = [st[t] EXCEPT !.validating = FALSE, !.result = res]
  BY <1>2, <1>4, <1>5 DEF E!TaskState
<1>6. st' = [st EXCEPT ![t] = r] /\ call' = [call EXCEPT ![t] = E!NoCall]
  BY <1>1, <1>5
<1>7. res \in E!Content \cup {None}
  BY <1>2, <1>3, <1>4 DEF E!TaskState
<1>8. /\ r \in E!TaskState
      /\ r.studio = st[t].studio /\ r.buf = st[t].buf /\ r.base = st[t].base
      /\ r.loading = st[t].loading /\ r.saving = st[t].saving /\ ~r.validating
      /\ r.loadError = st[t].loadError /\ r.notice = st[t].notice /\ r.pending = st[t].pending
  BY <1>2, <1>s, <1>7 DEF E!TaskState
<1>9. E!NoCall \in E!Call /\ E!NoCall.op = "none" /\ E!NoCall.then = "" /\ r # None
  BY <1>8, EditorValues DEF E!NoCall
<1>10. StateFits(r, E!NoCall, typed[t], origin[t])
  BY <1>1, <1>2, <1>3, <1>8, <1>9 DEF StateFits
<1>11. CallFits(t, r, E!NoCall, typed[t], origin[t])
  BY <1>9 DEF CallFits
<1>12. RowOK(t, r, E!NoCall, typed[t], origin[t]) /\ PendOK(r, draft)
  BY <1>2, <1>8, <1>9, <1>10, <1>11 DEF RowOK, RowTypes, PendOK
<1>13. /\ typed' = [typed EXCEPT ![t] = typed[t]] /\ origin' = [origin EXCEPT ![t] = origin[t]]
       /\ RowsInv /\ UNCHANGED draft
  BY <1>1, SameRow DEF EditorInv
<1>14. RowsInv' /\ \A u \in Task : st[u] # None => st'[u] # None
  BY <1>6, <1>9, <1>12, <1>13, RowStep
<1> QED BY <1>1, <1>14, AtDesk

LEMMA SaveEndsStep ==
    ASSUME E!EditorAssumption, EditorInv, NEW t \in Task, E!SaveEnds(t)
    PROVE  Good
<1>1. /\ call[t].op = "save"
      /\ UNCHANGED Outside /\ UNCHANGED <<catalog, opened, active, waiting, opening>>
      /\ UNCHANGED <<origin, draft>>
  BY DEF E!SaveEnds, E!Quiet, E!Stay, Outside
<1>2. /\ st[t] # None /\ st[t] \in E!TaskState /\ call[t] \in E!Call
      /\ RowOK(t, st[t], call[t], typed[t], origin[t])
      /\ StateFits(st[t], call[t], typed[t], origin[t])
      /\ CallFits(t, st[t], call[t], typed[t], origin[t])
      /\ RowTypes(st[t], call[t], typed[t], origin[t]) /\ PendOK(st[t], draft)
  BY <1>1, Called DEF RowOK
<1>3. st[t].saving /\ ~st[t].validating /\ call[t].then = ""
  BY <1>1, <1>2 DEF StateFits, CallFits
<1>4. origin' = [origin EXCEPT ![t] = origin[t]] /\ RowsInv /\ UNCHANGED draft /\ loggedIn \in BOOLEAN
  BY <1>1, SameRow DEF EditorInv, WorldInv
<1>5. CASE call[t].stage = "answered"
  <2>1. /\ st' = [st EXCEPT ![t] = E!Loading(st[t])]
        /\ call' = [call EXCEPT ![t] = E!LoadCall("save")]
        /\ typed' = [typed EXCEPT ![t] = None]
    BY <1>5 DEF E!SaveEnds, E!ForceLoad
  <2>2. /\ RowOK(t, E!Loading(st[t]), E!LoadCall("save"), None, origin[t])
        /\ E!Loading(st[t]) # None /\ E!Loading(st[t]).pending = st[t].pending
    BY <1>2, <1>3, <1>4, LoadingRow
  <2>3. PendOK(E!Loading(st[t]), draft)
    BY <1>2, <2>2 DEF PendOK
  <2>4. RowsInv' /\ \A u \in Task : st[u] # None => st'[u] # None
    BY <1>4, <2>1, <2>2, <2>3, RowStep
  <2> QED BY <1>1, <2>4, AtDesk
<1>6. CASE call[t].stage # "answered"
  <2>1. /\ st' = [st EXCEPT ![t] = E!Refused(st[t])]
        /\ call' = [call EXCEPT ![t] = E!NoCall]
        /\ UNCHANGED typed
    BY <1>6 DEF E!SaveEnds
  <2>2. PICK r : r = E!Refused(st[t])
    OBVIOUS
  <2>3. /\ r \in E!TaskState
        /\ r.studio = st[t].studio /\ r.buf = st[t].buf /\ r.base = st[t].base
        /\ r.loading = st[t].loading /\ ~r.saving /\ r.validating = st[t].validating
        /\ r.loadError = st[t].loadError /\ r.notice = st[t].notice /\ r.pending = st[t].pending
    BY <1>2, <2>2 DEF E!TaskState, E!Refused
  <2>4. E!NoCall \in E!Call /\ E!NoCall.op = "none" /\ E!NoCall.then = "" /\ r # None
    BY <2>3, EditorValues DEF E!NoCall
  <2>5. StateFits(r, E!NoCall, typed[t], origin[t])
    BY <1>1, <1>2, <1>3, <2>3, <2>4 DEF StateFits
  <2>6. CallFits(t, r, E!NoCall, typed[t], origin[t])
    BY <2>4 DEF CallFits
  <2>7. RowOK(t, r, E!NoCall, typed[t], origin[t]) /\ PendOK(r, draft)
    BY <1>2, <2>3, <2>4, <2>5, <2>6 DEF RowOK, RowTypes, PendOK
  <2>8. typed' = [typed EXCEPT ![t] = typed[t]] /\ st' = [st EXCEPT ![t] = r]
    BY <2>1, <2>2, SameRow DEF EditorInv
  <2>9. RowsInv' /\ \A u \in Task : st[u] # None => st'[u] # None
    BY <1>4, <2>1, <2>4, <2>7, <2>8, RowStep
  <2> QED BY <1>1, <2>9, AtDesk
<1> QED BY <1>5, <1>6


-----------------------------------------------------------------------------
(* Opening and loading *)

LEMMA FetchRows ==
    ASSUME E!EditorAssumption, EditorInv, NEW t \in Task, E!Fetch(t, E!StateOf(t)),
           UNCHANGED <<typed, origin, draft>>
    PROVE  RowsInv' /\ st'[t] # None /\ \A u \in Task : st[u] # None => st'[u] # None
<1>1. PICK s : s = E!StateOf(t)
  OBVIOUS
<1>2. /\ RowOK(t, st[t], call[t], typed[t], origin[t]) /\ PendOK(st[t], draft)
      /\ st[t] \in E!TaskState \cup {None}
  BY DEF EditorInv, RowsInv
<1>n. E!NoCall.op = "none" /\ E!NoCall.then = ""
  BY DEF E!NoCall
<1>3. RowOK(t, s, call[t], typed[t], origin[t]) /\ s # None /\ PendOK(s, draft)
  <2>1. CASE st[t] # None
    BY <1>1, <1>2, <2>1 DEF E!StateOf
  <2>2. CASE st[t] = None
    <3>1. s = E!EmptyState /\ s \in E!TaskState /\ s # None
      BY <1>1, <2>2, EditorValues DEF E!StateOf
    <3>2. call[t] = E!NoCall /\ typed[t] = None /\ RowTypes(st[t], call[t], typed[t], origin[t])
      BY <1>2, <2>2 DEF RowOK
    <3>3. StateFits(s, call[t], typed[t], origin[t])
      BY <1>n, <3>1, <3>2 DEF StateFits, E!EmptyState
    <3>4. CallFits(t, s, call[t], typed[t], origin[t])
      BY <1>n, <3>2 DEF CallFits
    <3>5. PendOK(s, draft)
      BY <3>1 DEF PendOK, E!EmptyState
    <3> QED BY <3>1, <3>2, <3>3, <3>4, <3>5 DEF RowOK, RowTypes
  <2> QED BY <2>1, <2>2
<1>4. /\ StateFits(s, call[t], typed[t], origin[t]) /\ CallFits(t, s, call[t], typed[t], origin[t])
      /\ s \in E!TaskState /\ call[t] \in E!Call
  BY <1>3 DEF RowOK, RowTypes
<1>5. /\ typed' = [typed EXCEPT ![t] = typed[t]] /\ origin' = [origin EXCEPT ![t] = origin[t]]
      /\ RowsInv /\ UNCHANGED draft /\ loggedIn \in BOOLEAN
  BY SameRow DEF EditorInv, WorldInv
<1>6. CASE E!NeedsLoad(t)
  <2>1. st' = [st EXCEPT ![t] = E!Loading(s)] /\ call' = [call EXCEPT ![t] = E!LoadCall("")]
    BY <1>1, <1>6 DEF E!Fetch
  <2>2. s.studio = None /\ call[t].op # "load"
    BY <1>1, <1>6 DEF E!NeedsLoad, E!StateOf, E!EmptyState
  <2>3. call[t].op = "none" /\ call[t].then = "" /\ typed[t] = None
    BY <1>4, <2>2 DEF StateFits, CallFits, E!Call
  <2>4. ~s.saving /\ ~s.validating
    BY <1>4, <2>3 DEF StateFits
  <2>5. /\ RowOK(t, E!Loading(s), E!LoadCall(""), None, origin[t])
        /\ E!Loading(s) # None /\ E!Loading(s).pending = s.pending
    BY <1>3, <1>5, <2>4, LoadingRow
  <2>6. PendOK(E!Loading(s), draft)
    BY <1>3, <2>5 DEF PendOK
  <2>7. typed' = [typed EXCEPT ![t] = None]
    BY <1>5, <2>3
  <2>b. RowBecomes(t, E!Loading(s), E!LoadCall(""), None, origin[t])
    BY <1>5, <2>1, <2>7, Zenon DEF RowBecomes
  <2>8. RowsInv' /\ st'[t] = E!Loading(s) /\ \A u \in Task : st[u] # None => st'[u] # None
    BY <1>5, <2>b, <2>5, <2>6, RowBecoming
  <2> QED BY <2>5, <2>8
<1>7. CASE ~E!NeedsLoad(t)
  <2>1. st' = [st EXCEPT ![t] = s] /\ call' = [call EXCEPT ![t] = call[t]]
    BY <1>1, <1>7, SameRow DEF E!Fetch, EditorInv
  <2>b. RowBecomes(t, s, call[t], typed[t], origin[t])
    BY <1>5, <2>1 DEF RowBecomes
  <2>2. RowsInv' /\ st'[t] = s /\ \A u \in Task : st[u] # None => st'[u] # None
    BY <1>3, <1>5, <2>b, RowBecoming
  <2> QED BY <1>3, <2>2
<1> QED BY <1>6, <1>7

LEMMA OpensExternal ==
    ASSUME E!EditorAssumption, EditorInv, NEW p \in Proposal, draft[p] # None, E!OpenExternal(p),
           UNCHANGED <<typed, origin, draft, catalog>>, waiting' \subseteq waiting
    PROVE  RowsInv' /\ DeskInv'
<1> DEFINE t == draft[p].task
<1>1. t \in Task /\ "markdown" \in File
  BY EditorValues DEF EditorInv, WorldInv, E!Draft
<1>2. E!OpenDoc(t, "markdown")
  BY DEF E!OpenExternal
<1>3. /\ RowsInv' /\ st'[t] # None /\ \A u \in Task : st[u] # None => st'[u] # None
      /\ \/ opening' = None
         \/ opening' = [task |-> t, file |-> "markdown", draft |-> p]
  <2>1. CASE st[t] # None /\ st[t].studio # None
    <3>1. /\ st' = [st EXCEPT ![t] = E!PutDraft(st[t], p)]
          /\ opening' = None /\ UNCHANGED call
      BY <2>1 DEF E!OpenExternal
    <3>2. RowOK(t, st[t], call[t], typed[t], origin[t])
      BY <1>1 DEF EditorInv, RowsInv
    <3>3. /\ RowOK(t, E!PutDraft(st[t], p), call[t], typed[t], origin[t])
          /\ E!PutDraft(st[t], p) # None /\ E!PutDraft(st[t], p).pending = p
      BY <2>1, <3>2, PutDraftRow
    <3>4. PendOK(E!PutDraft(st[t], p), draft)
      BY <3>3 DEF PendOK
    <3>5. /\ typed' = [typed EXCEPT ![t] = typed[t]] /\ origin' = [origin EXCEPT ![t] = origin[t]]
          /\ call' = [call EXCEPT ![t] = call[t]] /\ RowsInv /\ UNCHANGED draft
      BY <1>1, <3>1, SameRow DEF EditorInv
    <3>b. RowBecomes(t, E!PutDraft(st[t], p), call[t], typed[t], origin[t])
      BY <3>1, <3>5 DEF RowBecomes
    <3>6. RowsInv' /\ st'[t] = E!PutDraft(st[t], p) /\ \A u \in Task : st[u] # None => st'[u] # None
      BY <1>1, <3>3, <3>4, <3>5, <3>b, RowBecoming
    <3> QED BY <3>1, <3>3, <3>6
  <2>2. CASE ~(st[t] # None /\ st[t].studio # None)
    <3>1. /\ E!Fetch(t, E!StateOf(t))
          /\ opening' = [task |-> t, file |-> "markdown", draft |-> p]
      BY <2>2 DEF E!OpenExternal
    <3> QED BY <1>1, <3>1, FetchRows
  <2> QED BY <2>1, <2>2
<1>4. DeskInv /\ UNCHANGED draft /\ UNCHANGED catalog
  BY DEF EditorInv
<1>5. \/ opening' = opening
      \/ opening' = None
      \/ \E q \in Proposal \cup {None} : /\ opening' = [task |-> t, file |-> "markdown", draft |-> q]
                                         /\ q # None => draft[q] # None
  BY <1>3
<1>6. DeskInv'
  BY <1>1, <1>2, <1>3, <1>4, <1>5, DeskOpens
<1> QED BY <1>3, <1>6

LEMMA FocusStep ==
    ASSUME E!EditorAssumption, EditorInv, NEW t \in Task, NEW f \in File, E!FocusTask(t, f)
    PROVE  Good
<1>1. /\ UNCHANGED Outside /\ UNCHANGED <<catalog, waiting, draft, typed, origin>>
      /\ E!OpenDoc(t, f) /\ E!Fetch(t, E!StateOf(t))
      /\ opening' \in {None, [task |-> t, file |-> f, draft |-> None]}
  BY DEF E!FocusTask, E!Stay, E!history, Outside
<1>2. RowsInv' /\ st'[t] # None /\ \A u \in Task : st[u] # None => st'[u] # None
  BY <1>1, FetchRows
<1>3. \/ opening' = opening
      \/ opening' = None
      \/ \E q \in Proposal \cup {None} : /\ opening' = [task |-> t, file |-> f, draft |-> q]
                                         /\ q # None => draft[q] # None
  BY <1>1
<1>4. DeskInv /\ UNCHANGED draft /\ UNCHANGED catalog /\ waiting' \subseteq waiting
  BY <1>1 DEF EditorInv
<1>5. DeskInv'
  BY <1>1, <1>2, <1>3, <1>4, DeskOpens
<1>6. WorldInv' /\ E!SavesKnown
  BY <1>1, WorldStays DEF EditorInv
<1> QED BY <1>2, <1>5, <1>6 DEF Good, EditorInv

LEMMA ReviewStep ==
    ASSUME E!EditorAssumption, EditorInv, NEW p \in Proposal, E!ReviewTask(p)
    PROVE  Good
<1>1. /\ UNCHANGED Outside /\ UNCHANGED <<catalog, draft, typed, origin>> /\ draft[p] # None
  BY DEF E!ReviewTask, E!Stay, Outside
<1>2. RowsInv' /\ DeskInv'
  <2>1. CASE catalog = "loading"
    <3>1. waiting' = waiting \cup {p} /\ UNCHANGED <<st, active, opened, opening, call>>
      BY <2>1 DEF E!ReviewTask
    <3>2. RowsInv'
      BY <1>1, <3>1, RowsStay DEF EditorInv
    <3> QED BY <1>1, <3>1, <3>2 DEF EditorInv, DeskInv
  <2>2. CASE catalog # "loading"
    <3>1. E!OpenExternal(p) /\ waiting' \subseteq waiting
      BY <2>2 DEF E!ReviewTask
    <3> QED BY <1>1, <3>1, OpensExternal
  <2> QED BY <2>1, <2>2
<1>3. WorldInv' /\ E!SavesKnown
  BY <1>1, WorldStays DEF EditorInv
<1> QED BY <1>2, <1>3 DEF Good, EditorInv

LEMMA OpenWaitingStep ==
    ASSUME E!EditorAssumption, EditorInv, NEW p \in Proposal, E!OpenWaiting(p)
    PROVE  Good
<1>1. /\ UNCHANGED Outside /\ UNCHANGED <<catalog, draft, typed, origin>> /\ p \in waiting
      /\ waiting' \subseteq waiting /\ E!OpenExternal(p)
  BY DEF E!OpenWaiting, E!Stay, E!Quiet, E!history, Outside
<1>2. draft[p] # None
  BY <1>1 DEF EditorInv, DeskInv
<1>3. RowsInv' /\ DeskInv'
  BY <1>1, <1>2, OpensExternal
<1>4. WorldInv' /\ E!SavesKnown
  BY <1>1, WorldStays DEF EditorInv
<1> QED BY <1>3, <1>4 DEF Good, EditorInv

LEMMA CatalogStep ==
    ASSUME E!EditorAssumption, EditorInv, E!CatalogEnds \/ E!CatalogRetry
    PROVE  Good
<1>1. /\ UNCHANGED Outside /\ UNCHANGED <<draft, st, call, typed, origin>>
      /\ UNCHANGED <<opened, active, waiting, opening>> /\ catalog' \in {"loading", "listed", "missing"}
  BY DEF E!CatalogEnds, E!CatalogRetry, E!Stay, E!Quiet, E!history, Outside
<1>2. RowsInv'
  BY <1>1, RowsStay DEF EditorInv
<1>3. DeskInv'
  BY <1>1 DEF EditorInv, DeskInv
<1>4. WorldInv' /\ E!SavesKnown
  BY <1>1, WorldStays DEF EditorInv
<1> QED BY <1>2, <1>3, <1>4 DEF Good, EditorInv

LEMMA ChooseTabStep ==
    ASSUME E!EditorAssumption, EditorInv, NEW doc \in opened, E!ChooseTab(doc)
    PROVE  Good
<1>1. /\ UNCHANGED Outside /\ UNCHANGED <<draft, st, call, typed, origin>>
      /\ UNCHANGED <<catalog, opened, waiting, opening>> /\ active' = doc
  BY DEF E!ChooseTab, E!Stay, E!history, Outside
<1>2. RowsInv'
  BY <1>1, RowsStay DEF EditorInv
<1>3. DeskInv'
  BY <1>1 DEF EditorInv, DeskInv
<1>4. WorldInv' /\ E!SavesKnown
  BY <1>1, WorldStays DEF EditorInv
<1> QED BY <1>2, <1>3, <1>4 DEF Good, EditorInv

\* The task is loaded again, and the text typed so far is given up.
LEMMA ReloadStep ==
    ASSUME E!EditorAssumption, EditorInv, E!Reload \/ E!Discard
    PROVE  Good
<1> DEFINE t == active[1]
<1>1. PICK how \in {"", "discard"} :
         /\ st' = [st EXCEPT ![t] = E!Loading(st[t])]
         /\ call' = [call EXCEPT ![t] = E!LoadCall(how)]
  BY DEF E!Reload, E!Discard, E!ForceLoad
<1>2. /\ active # None /\ ~E!Busy(st[t])
      /\ UNCHANGED Outside /\ UNCHANGED <<catalog, opened, active, waiting, opening>>
      /\ UNCHANGED <<draft, origin>>
  BY DEF E!Reload, E!Discard, E!Stay, Outside
<1>3. active \in opened
  BY <1>2 DEF EditorInv, DeskInv
<1>4. /\ t \in Task /\ st[t] # None /\ st[t] \in E!TaskState
      /\ RowOK(t, st[t], call[t], typed[t], origin[t])
      /\ StateFits(st[t], call[t], typed[t], origin[t]) /\ PendOK(st[t], draft)
  BY <1>3, OnDesk
<1>5. typed' = IF E!IsTaskDirty(st[t]) THEN [typed EXCEPT ![t] = None] ELSE typed
  BY DEF E!Reload, E!Discard
<1>6. ~E!IsTaskDirty(st[t]) => typed[t] = None
  BY <1>4 DEF E!IsTaskDirty, E!Differs, StateFits
<1>7. typed' = [typed EXCEPT ![t] = None]
  BY <1>4, <1>5, <1>6 DEF EditorInv, RowsInv
<1>8. ~st[t].saving /\ ~st[t].validating
  BY <1>2, <1>4 DEF E!Busy
<1>9. /\ RowOK(t, E!Loading(st[t]), E!LoadCall(how), None, origin[t])
      /\ E!Loading(st[t]) # None /\ E!Loading(st[t]).pending = st[t].pending
  BY <1>4, <1>8, LoadingRow DEF EditorInv, WorldInv
<1>10. PendOK(E!Loading(st[t]), draft)
  BY <1>4, <1>9 DEF PendOK
<1>11. origin' = [origin EXCEPT ![t] = origin[t]] /\ RowsInv /\ UNCHANGED draft
  BY <1>2, <1>4, SameRow DEF EditorInv
<1>12. RowsInv' /\ \A u \in Task : st[u] # None => st'[u] # None
  BY <1>1, <1>4, <1>7, <1>9, <1>10, <1>11, RowStep
<1> QED BY <1>2, <1>12, AtDesk


-----------------------------------------------------------------------------
(* Editing *)

LEMMA TextStep ==
    ASSUME E!EditorAssumption, EditorInv, active # None, E!MayEdit(active[1]),
           NEW b \in E!Content, NEW n \in {st[active[1]].notice, "bumped"},
           E!EditTo(active[1], b, n)
    PROVE  Good
<1> DEFINE t == active[1]
<1>1. active \in opened
  BY DEF EditorInv, DeskInv
<1>2. /\ t \in Task /\ st[t] # None /\ st[t] \in E!TaskState
      /\ RowOK(t, st[t], call[t], typed[t], origin[t]) /\ PendOK(st[t], draft)
  BY <1>1, OnDesk
<1>3. ~E!Busy(st[t]) /\ st[t].studio # None
  BY DEF E!MayEdit, E!CanWrite
<1>4. PICK r : r = [st[t] EXCEPT !.buf = b, !.result = None, !.notice = n]
  OBVIOUS
<1>5. /\ UNCHANGED Outside /\ UNCHANGED <<catalog, opened, active, waiting, opening>>
      /\ UNCHANGED <<draft, call, origin>>
      /\ st' = [st EXCEPT ![t] = r] /\ typed' = E!Typed(t, r)
  BY <1>4 DEF E!EditTo, E!Stay, Outside
<1>6. /\ r \in E!TaskState
      /\ r.studio = st[t].studio /\ r.buf = b /\ r.base = st[t].base
      /\ r.loading = st[t].loading /\ r.saving = st[t].saving /\ r.validating = st[t].validating
      /\ r.loadError = st[t].loadError /\ r.notice = n /\ r.pending = st[t].pending
  BY <1>2, <1>4 DEF E!TaskState, E!Notice
<1>7. PICK z \in {b, None} : /\ typed' = [typed EXCEPT ![t] = z]
                             /\ z # None => b # st[t].studio.content
  BY <1>5, <1>6 DEF E!Typed, E!Differs
<1>8. r.notice \in {st[t].notice, "bumped", "closed"}
  BY <1>6
<1>9. RowOK(t, r, call[t], z, origin[t])
  BY <1>2, <1>3, <1>6, <1>7, <1>8, TextRow
<1>10. r # None /\ PendOK(r, draft)
  BY <1>2, <1>6, EditorValues DEF PendOK
<1>11. /\ call' = [call EXCEPT ![t] = call[t]] /\ origin' = [origin EXCEPT ![t] = origin[t]]
       /\ RowsInv /\ UNCHANGED draft
  BY <1>2, <1>5, SameRow DEF EditorInv
<1>b. RowBecomes(t, r, call[t], z, origin[t])
  BY <1>5, <1>7, <1>11 DEF RowBecomes
<1>12. RowsInv' /\ st'[t] = r /\ \A u \in Task : st[u] # None => st'[u] # None
  BY <1>2, <1>9, <1>10, <1>11, <1>b, RowBecoming
<1> QED BY <1>5, <1>12, AtDesk

LEMMA EditValueStep ==
    ASSUME E!EditorAssumption, EditorInv, E!EditValue
    PROVE  Good
<1> DEFINE t == active[1]   f == active[2]   buf == st[t].buf
<1>1. active # None /\ E!MayEdit(t)
  BY DEF E!EditValue
<1>2. active \in opened
  BY <1>1 DEF EditorInv, DeskInv
<1>3. /\ st[t] # None /\ st[t] \in E!TaskState /\ f \in File
      /\ StateFits(st[t], call[t], typed[t], origin[t])
  BY <1>2, OnDesk
<1>4. buf \in E!Content
  BY <1>1, <1>3, EditorValues DEF E!MayEdit, E!CanWrite, StateFits, E!TaskState
<1>5. CASE \E w \in Word : E!EditTo(t, [buf EXCEPT !.text = [@ EXCEPT ![f] = w]], st[t].notice)
  <2>1. PICK w \in Word : E!EditTo(t, [buf EXCEPT !.text = [@ EXCEPT ![f] = w]], st[t].notice)
    BY <1>5
  <2>2. [buf EXCEPT !.text = [@ EXCEPT ![f] = w]] \in E!Content
    BY <1>3, <1>4 DEF E!Content
  <2> QED BY <1>1, <2>1, <2>2, TextStep
<1>6. CASE \E v \in {0, E!Unset} : E!EditTo(t, [buf EXCEPT !.declared = v], st[t].notice)
  <2>1. PICK v \in {0, E!Unset} : E!EditTo(t, [buf EXCEPT !.declared = v], st[t].notice)
    BY <1>6
  <2>2. v \in 0 .. E!Unset
    BY DEF E!Unset, E!EditorAssumption
  <2>3. [buf EXCEPT !.declared = v] \in E!Content
    BY <1>4, <2>2 DEF E!Content
  <2> QED BY <1>1, <2>1, <2>3, TextStep
<1> QED BY <1>5, <1>6 DEF E!EditValue

LEMMA BumpStep ==
    ASSUME E!EditorAssumption, EditorInv, E!BumpPatchVersion
    PROVE  Good
<1> DEFINE t == active[1]
<1>1. /\ active # None /\ E!MayEdit(t) /\ E!Bumped(st[t]) <= MaxVersion
      /\ E!EditTo(t, [st[t].buf EXCEPT !.declared = E!Bumped(st[t])], "bumped")
  BY DEF E!BumpPatchVersion
<1>2. active \in opened
  BY <1>1 DEF EditorInv, DeskInv
<1>3. /\ st[t] # None /\ st[t] \in E!TaskState
      /\ StateFits(st[t], call[t], typed[t], origin[t])
  BY <1>2, OnDesk
<1>4. st[t].buf \in E!Content /\ st[t].studio \in E!Snapshot
  BY <1>1, <1>3, EditorValues DEF E!MayEdit, E!CanWrite, StateFits, E!TaskState
<1>5. st[t].buf.declared \in Nat /\ st[t].studio.version \in Nat
  BY <1>4 DEF E!Content, E!Snapshot
<1>6. E!Bumped(st[t]) \in 0 .. E!Unset
  BY <1>1, <1>5 DEF E!Bumped, E!Unset, E!EditorAssumption
<1>7. [st[t].buf EXCEPT !.declared = E!Bumped(st[t])] \in E!Content
  BY <1>4, <1>6 DEF E!Content
<1> QED BY <1>1, <1>7, TextStep

\* A file of the task is put back as it was loaded, and so is what was typed in it.
LEMMA CloseStep ==
    ASSUME E!EditorAssumption, EditorInv, NEW doc \in opened, E!CloseDoc(doc)
    PROVE  Good
<1> DEFINE t == doc[1]   f == doc[2]   b == E!Reverted(st[t], f)
<1>1. /\ UNCHANGED Outside /\ UNCHANGED <<catalog, waiting, opening, draft, call, origin>>
      /\ ~E!Busy(st[t]) /\ opened' = opened \ {doc}
      /\ active' \in IF active # doc THEN {active}
                     ELSE IF opened = {doc} THEN {None} ELSE opened \ {doc}
  BY DEF E!CloseDoc, E!Stay, Outside
<1>2. /\ t \in Task /\ f \in File /\ st[t] # None /\ st[t] \in E!TaskState
      /\ RowOK(t, st[t], call[t], typed[t], origin[t]) /\ PendOK(st[t], draft)
      /\ StateFits(st[t], call[t], typed[t], origin[t])
  BY OnDesk
<1>3. RowsInv' /\ \A u \in Task : st[u] # None => st'[u] # None
  <2>1. CASE ~E!FileDirty(st[t], f)
    <3>1. UNCHANGED <<st, typed>>
      BY <2>1 DEF E!CloseDoc
    <3> QED BY <1>1, <3>1, RowsStay DEF EditorInv
  <2>2. CASE E!FileDirty(st[t], f)
    <3>1. st[t].studio # None /\ st[t].studio \in E!Snapshot /\ st[t].buf \in E!Content
      BY <1>2, <2>2, EditorValues DEF E!FileDirty, StateFits, E!TaskState
    <3>2. st[t].studio.content \in E!Content
      BY <3>1 DEF E!Snapshot
    <3>3. b \in E!Content
      BY <1>2, <3>1, <3>2 DEF E!Reverted, E!Content
    <3>4. PICK r : r = [st[t] EXCEPT !.buf = b, !.notice = "closed"]
      OBVIOUS
    <3>5. /\ r \in E!TaskState
          /\ r.studio = st[t].studio /\ r.buf = b /\ r.base = st[t].base
          /\ r.loading = st[t].loading /\ r.saving = st[t].saving /\ r.validating = st[t].validating
          /\ r.loadError = st[t].loadError /\ r.notice = "closed" /\ r.pending = st[t].pending
      BY <1>2, <3>3, <3>4 DEF E!TaskState, E!Notice
    <3>6. st' = [st EXCEPT ![t] = r]
      BY <2>2, <3>4 DEF E!CloseDoc
    <3>7. PICK z \in {b, None} : /\ typed' = [typed EXCEPT ![t] = z]
                                 /\ z # None => b # st[t].studio.content
      <4>1. CASE typed[t] = None
        <5>1. typed' = typed
          BY <2>2, <4>1 DEF E!CloseDoc
        <5>2. typed' = [typed EXCEPT ![t] = None]
          BY <1>2, <4>1, <5>1, SameRow DEF EditorInv
        <5> QED BY <5>2
      <4>2. CASE typed[t] # None
        <5> DEFINE kept == [text |-> [typed[t].text EXCEPT ![f] = r.buf.text[f]],
                            declared |-> IF f = "markdown" THEN r.buf.declared ELSE typed[t].declared]
        <5>1. typed' = [typed EXCEPT ![t] = IF kept = r.studio.content THEN None ELSE kept]
          BY <2>2, <3>4, <4>2 DEF E!CloseDoc
        <5>2. typed[t] = st[t].buf
          BY <1>2, <4>2 DEF StateFits
        <5>3. /\ b.text = [st[t].buf.text EXCEPT ![f] = st[t].studio.content.text[f]]
              /\ b.declared = IF f = "markdown" THEN st[t].studio.content.declared
                              ELSE st[t].buf.declared
              /\ b = [text |-> b.text, declared |-> b.declared]
          BY DEF E!Reverted
        <5>4. b.text[f] = st[t].studio.content.text[f]
          BY <1>2, <3>1, <5>3 DEF E!Content
        <5>5. kept = b
          BY <3>5, <5>2, <5>3, <5>4
        <5> QED BY <3>5, <5>1, <5>5
      <4> QED BY <4>1, <4>2
    <3>8. r.notice \in {st[t].notice, "bumped", "closed"}
      BY <3>5
    <3>9. RowOK(t, r, call[t], z, origin[t])
      BY <1>1, <1>2, <3>1, <3>3, <3>5, <3>7, <3>8, TextRow
    <3>10. r # None /\ PendOK(r, draft)
      BY <1>2, <3>5, EditorValues DEF PendOK
    <3>11. /\ call' = [call EXCEPT ![t] = call[t]] /\ origin' = [origin EXCEPT ![t] = origin[t]]
           /\ RowsInv /\ UNCHANGED draft
      BY <1>1, <1>2, SameRow DEF EditorInv
    <3> QED BY <1>2, <3>6, <3>7, <3>9, <3>10, <3>11, RowStep
  <2> QED BY <2>1, <2>2
<1>4. DeskInv'
  <2>1. opened' \subseteq Task \X File /\ active' \in opened' \cup {None}
    BY <1>1 DEF EditorInv, DeskInv
  <2>2. \A q \in opened' : q[1] \in Task /\ st[q[1]] # None
    BY <1>1, OnDesk
  <2>3. \A q \in opened' : st'[q[1]] # None
    BY <1>3, <2>2
  <2> QED BY <1>1, <2>1, <2>3 DEF EditorInv, DeskInv
<1>5. WorldInv' /\ E!SavesKnown
  BY <1>1, WorldStays DEF EditorInv
<1> QED BY <1>3, <1>4, <1>5 DEF Good, EditorInv

LEMMA ApplyStep ==
    ASSUME E!EditorAssumption, EditorInv, E!ApplyPendingDraft
    PROVE  Good
<1> DEFINE t == active[1]   s == st[t]   p == draft[s.pending]
<1>1. /\ active # None /\ s.pending # None /\ s.studio # None /\ ~E!Busy(s)
      /\ UNCHANGED Outside /\ UNCHANGED <<catalog, opened, active, waiting, opening>>
      /\ UNCHANGED <<draft, call>>
      /\ typed' = [typed EXCEPT ![t] = None] /\ origin' = [origin EXCEPT ![t] = p.base.content]
  BY DEF E!ApplyPendingDraft, E!Stay, Outside
<1>2. active \in opened
  BY <1>1 DEF EditorInv, DeskInv
<1>3. /\ t \in Task /\ s # None /\ s \in E!TaskState /\ call[t] \in E!Call
      /\ StateFits(s, call[t], typed[t], origin[t]) /\ CallFits(t, s, call[t], typed[t], origin[t])
      /\ RowTypes(s, call[t], typed[t], origin[t]) /\ PendOK(s, draft)
  BY <1>2, OnDesk DEF RowOK
<1>4. s.pending \in Proposal /\ p # None
  BY <1>1, <1>3 DEF PendOK, E!TaskState
<1>5. p \in E!Draft /\ p.base \in E!Snapshot /\ p.content \in E!Content /\ p.base.content \in E!Content
  <2>1. p \in E!Draft
    BY <1>4 DEF EditorInv, WorldInv
  <2>2. p.base \in E!Snapshot /\ p.content \in E!Content
    BY <2>1 DEF E!Draft
  <2> QED BY <2>1, <2>2 DEF E!Snapshot
<1>6. PICK r :
         r = IF E!Matches(s, s.pending)
               THEN [s EXCEPT !.buf = p.content, !.pending = None, !.conflict = FALSE,
                              !.notice = "applied"]
               ELSE [s EXCEPT !.buf = p.content, !.base = p.base, !.pending = None,
                              !.conflict = TRUE]
  OBVIOUS
<1>7. st' = [st EXCEPT ![t] = r]
  BY <1>6 DEF E!ApplyPendingDraft
<1>8. /\ r \in E!TaskState
      /\ r.studio = s.studio /\ r.buf = p.content /\ r.base = p.base
      /\ r.loading = s.loading /\ r.saving = s.saving /\ r.validating = s.validating
      /\ r.loadError = s.loadError /\ r.notice \in {s.notice, "applied"} /\ r.pending = None
  <2>1. CASE E!Matches(s, s.pending)
    <3>1. s.base = p.base
      BY <2>1 DEF E!Matches
    <3>2. r = [s EXCEPT !.buf = p.content, !.pending = None, !.conflict = FALSE,
                              !.notice = "applied"]
      BY <1>6, <2>1
    <3> QED BY <1>3, <1>5, <3>1, <3>2 DEF E!TaskState, E!Notice
  <2>2. CASE ~E!Matches(s, s.pending)
    <3>1. r = [s EXCEPT !.buf = p.content, !.base = p.base, !.pending = None,
                              !.conflict = TRUE]
      BY <1>6, <2>2
    <3> QED BY <1>3, <1>5, <3>1 DEF E!TaskState, E!Notice
  <2> QED BY <2>1, <2>2
<1>9. r # None /\ None \notin E!Content /\ None \notin E!Snapshot
  BY <1>8, EditorValues
<1>10. StateFits(r, call[t], None, p.base.content)
  BY <1>1, <1>3, <1>5, <1>8, <1>9 DEF StateFits, E!Busy
<1>11. call[t].op = "none" /\ call[t].then = ""
  BY <1>1, <1>3 DEF StateFits, CallFits, E!Busy, E!Call
<1>12. CallFits(t, r, call[t], None, p.base.content)
  BY <1>11 DEF CallFits
<1>13. RowOK(t, r, call[t], None, p.base.content)
  BY <1>3, <1>5, <1>8, <1>9, <1>10, <1>12 DEF RowOK, RowTypes
<1>14. PendOK(r, draft)
  BY <1>8 DEF PendOK
<1>15. call' = [call EXCEPT ![t] = call[t]] /\ RowsInv /\ UNCHANGED draft
  BY <1>1, <1>3, SameRow DEF EditorInv
<1>16. RowsInv' /\ \A u \in Task : st[u] # None => st'[u] # None
  BY <1>1, <1>3, <1>7, <1>9, <1>13, <1>14, <1>15, RowStep
<1> QED BY <1>1, <1>16, AtDesk


-----------------------------------------------------------------------------
(* Checking and saving, pages and sessions *)

LEMMA SubmitStep ==
    ASSUME E!EditorAssumption, EditorInv, E!ValidateActive \/ E!SaveActive
    PROVE  Good
<1> DEFINE t == active[1]   s == st[t]
<1>1. PICK op \in {"validate", "save"} :
         /\ call' = [call EXCEPT ![t] = [op |-> op, then |-> "", auth |-> loggedIn,
                                         stage |-> "sent", body |-> E!Body(t)]]
         /\ st' = [st EXCEPT ![t] =
               IF op = "save" THEN [s EXCEPT !.saving = TRUE, !.result = None, !.notice = ""]
               ELSE [s EXCEPT !.validating = TRUE, !.result = None, !.notice = ""]]
  <2>1. CASE E!ValidateActive
    BY <2>1 DEF E!ValidateActive, E!Send
  <2>2. CASE E!SaveActive
    BY <2>2 DEF E!SaveActive, E!Send
  <2> QED BY <2>1, <2>2
<1>2. /\ active # None /\ E!Sendable(t)
      /\ UNCHANGED Outside /\ UNCHANGED <<catalog, opened, active, waiting, opening>>
      /\ UNCHANGED <<draft, typed, origin>>
  BY DEF E!ValidateActive, E!SaveActive, E!Stay, E!history, Outside
<1>3. active \in opened
  BY <1>2 DEF EditorInv, DeskInv
<1>4. /\ t \in Task /\ s # None /\ s \in E!TaskState /\ call[t] \in E!Call
      /\ StateFits(s, call[t], typed[t], origin[t]) /\ CallFits(t, s, call[t], typed[t], origin[t])
      /\ RowTypes(s, call[t], typed[t], origin[t]) /\ PendOK(s, draft)
  BY <1>3, OnDesk DEF RowOK
<1>5. ~s.loading /\ ~s.saving /\ ~s.validating /\ s.studio # None
  BY <1>2, <1>4 DEF E!Sendable, E!Busy, E!CanWrite
<1>6. /\ s.base \in E!Snapshot /\ s.buf \in E!Content /\ origin[t] = s.base.content
  BY <1>4, <1>5, EditorValues DEF StateFits, E!TaskState
<1>7. PICK d : d = [op |-> op, then |-> "", auth |-> loggedIn, stage |-> "sent", body |-> E!Body(t)]
  OBVIOUS
<1>8. E!Body(t) \in E!Draft /\ E!Body(t).task = t /\ E!Body(t).base = s.base
  BY <1>4, <1>6 DEF E!Body, E!Draft
<1>9. /\ d \in E!Call /\ d.op = op /\ d.then = "" /\ d.body = E!Body(t)
  BY <1>7, <1>8 DEF E!Call, EditorInv, WorldInv
<1>10. PICK r :
         r = IF op = "save" THEN [s EXCEPT !.saving = TRUE, !.result = None, !.notice = ""]
             ELSE [s EXCEPT !.validating = TRUE, !.result = None, !.notice = ""]
  OBVIOUS
<1>11. /\ r \in E!TaskState
       /\ r.studio = s.studio /\ r.buf = s.buf /\ r.base = s.base /\ ~r.loading
       /\ r.saving = (op = "save") /\ r.validating = (op = "validate")
       /\ r.notice = "" /\ r.pending = s.pending
  <2>1. CASE op = "save"
    BY <1>4, <1>5, <1>10, <2>1 DEF E!TaskState, E!Notice
  <2>2. CASE op = "validate"
    BY <1>4, <1>5, <1>10, <2>2 DEF E!TaskState, E!Notice
  <2> QED BY <2>1, <2>2
<1>12. RowBecomes(t, r, d, typed[t], origin[t])
  BY <1>1, <1>2, <1>4, <1>7, <1>10, SameRow DEF RowBecomes, EditorInv
<1>13. r # None
  BY <1>11, EditorValues
<1>14. StateFits(r, d, typed[t], origin[t])
  BY <1>4, <1>9, <1>11 DEF StateFits
<1>15. CallFits(t, r, d, typed[t], origin[t])
  BY <1>5, <1>6, <1>8, <1>9, <1>11 DEF CallFits
<1>16. RowOK(t, r, d, typed[t], origin[t]) /\ PendOK(r, draft)
  BY <1>4, <1>9, <1>11, <1>13, <1>14, <1>15 DEF RowOK, RowTypes, PendOK
<1>17. RowsInv /\ UNCHANGED draft
  BY <1>2 DEF EditorInv
<1>18. RowsInv' /\ st'[t] = r /\ \A u \in Task : st[u] # None => st'[u] # None
  BY <1>4, <1>12, <1>13, <1>16, <1>17, RowBecoming
<1> QED BY <1>2, <1>18, AtDesk

LEMMA FreshDesk ==
    ASSUME E!EditorAssumption, E!Fresh, UNCHANGED draft, catalog' = "loading",
           waiting' \subseteq {p \in Proposal : draft[p] # None}
    PROVE  DeskInv'
<1>1. active' = None /\ opened' = {} /\ opening' = None
  BY DEF E!Fresh
<1> QED BY <1>1 DEF DeskInv

\* Navigation, sign-in and sign-out either leave the page as it is or clear it.
LEMMA NavStep ==
    ASSUME E!EditorAssumption, EditorInv,
           \/ E!NavAway \/ E!Logout
           \/ \E p \in Proposal \cup {None} : E!NavEditor(p)
           \/ \E u \in User : E!LogIn(u)
    PROVE  Good
<1>1. /\ UNCHANGED <<server, draft, writes>> /\ view' \in {"editor", "elsewhere"}
      /\ user' \in User \cup {None} /\ loggedIn' \in BOOLEAN
  BY DEF E!NavAway, E!Logout, E!NavEditor, E!LogIn, EditorInv, WorldInv
<1>2. WorldInv' /\ E!SavesKnown
  BY <1>1 DEF EditorInv, WorldInv, E!SavesKnown
<1>3. \/ UNCHANGED <<E!page, E!history>>
      \/ E!Unmount
      \/ \E p \in Proposal \cup {None} : E!Mount(p) /\ (p # None => p \in Proposal /\ draft[p] # None)
  BY DEF E!NavAway, E!Logout, E!NavEditor, E!LogIn
<1>4. RowsInv' /\ DeskInv'
  <2>1. CASE UNCHANGED <<E!page, E!history>>
    <3>1. UNCHANGED <<catalog, st, call, typed, origin, opened, active, waiting, opening>>
      BY <2>1 DEF E!page, E!history
    <3> QED BY <1>1, <3>1, RowsStay, DeskStays DEF EditorInv
  <2>2. CASE E!Unmount
    <3>1. E!Fresh /\ catalog' = "loading" /\ waiting' = {}
      BY <2>2 DEF E!Unmount
    <3> QED BY <1>1, <3>1, FreshRows, FreshDesk
  <2>3. CASE \E p \in Proposal \cup {None} : E!Mount(p) /\ (p # None => p \in Proposal /\ draft[p] # None)
    <3>1. /\ E!Fresh /\ catalog' = "loading"
          /\ waiting' \subseteq {p \in Proposal : draft[p] # None}
      BY <2>3 DEF E!Mount
    <3> QED BY <1>1, <3>1, FreshRows, FreshDesk
  <2> QED BY <1>3, <2>1, <2>2, <2>3
<1> QED BY <1>2, <1>4 DEF Good, EditorInv

-----------------------------------------------------------------------------
(* The editor's invariant *)

LEMMA EditorStep ==
    ASSUME E!EditorAssumption, EditorInv, [E!Next]_E!vars
    PROVE  Good
<1>1. CASE \E t \in Task : E!LoadEnds(t) \/ E!ValidateEnds(t) \/ E!SaveEnds(t)
  BY <1>1, LoadEndsStep, ValidateEndsStep, SaveEndsStep
<1>2. CASE \E t \in Task : E!ServerLoad(t) \/ E!ServerValidate(t) \/ E!ServerSave(t)
  BY <1>2, ServerReadStep, ServerSaveStep
<1>3. CASE \E t \in Task : E!CallFails(t) \/ E!SessionExpired(t) \/ E!OtherWrites(t)
  BY <1>3, FailStep, OtherWritesStep
<1>4. CASE \E t \in Task, f \in File : E!FocusTask(t, f)
  BY <1>4, FocusStep
<1>5. CASE \E doc \in opened : E!ChooseTab(doc) \/ E!CloseDoc(doc)
  BY <1>5, ChooseTabStep, CloseStep
<1>6. CASE E!Reload \/ E!Discard
  BY <1>6, ReloadStep
<1>7. CASE E!EditValue \/ E!BumpPatchVersion \/ E!ApplyPendingDraft
  BY <1>7, EditValueStep, BumpStep, ApplyStep
<1>8. CASE E!ValidateActive \/ E!SaveActive
  BY <1>8, SubmitStep
<1>9. CASE \E p \in Proposal : E!Propose(p) \/ E!ReviewTask(p) \/ E!OpenWaiting(p)
  BY <1>9, ProposeStep, ReviewStep, OpenWaitingStep
<1>10. CASE E!CatalogEnds \/ E!CatalogRetry
  BY <1>10, CatalogStep
<1>11. CASE \/ E!NavAway \/ E!Logout
            \/ \E p \in Proposal \cup {None} : E!NavEditor(p)
            \/ \E u \in User : E!LogIn(u)
  BY <1>11, NavStep
<1>12. CASE UNCHANGED E!vars
  <2>1. /\ UNCHANGED Outside /\ UNCHANGED <<catalog, opened, active, waiting, opening>>
        /\ UNCHANGED <<st, call, typed, origin, draft>>
    BY <1>12 DEF E!vars, E!page, E!history, Outside
  <2>2. RowsInv'
    BY <2>1, RowsStay DEF EditorInv
  <2>3. \A u \in Task : st[u] # None => st'[u] # None
    BY <2>1
  <2> QED BY <2>1, <2>2, <2>3, AtDesk
<1> QED BY <1>1, <1>2, <1>3, <1>4, <1>5, <1>6, <1>7, <1>8, <1>9, <1>10, <1>11, <1>12 DEF E!Next

LEMMA EditorInit ==
    ASSUME E!EditorAssumption, E!Init
    PROVE  EditorInv
<1>1. PICK w \in Word :
         server = [t \in Task |-> [content |-> [text |-> [f \in File |-> w], declared |-> 0],
                                   version |-> 0]]
  BY DEF E!Init
<1>2. [content |-> [text |-> [f \in File |-> w], declared |-> 0], version |-> 0] \in E!Snapshot
  BY DEF E!Snapshot, E!Content, E!Unset, E!EditorAssumption
<1>3. WorldInv
  BY <1>1, <1>2 DEF E!Init, WorldInv
<1>4. \A t \in Task : RowOK(t, None, E!NoCall, None, None)
  BY EditorValues DEF RowOK, RowTypes
<1>5. RowsInv
  BY <1>4, EditorValues DEF E!Init, RowsInv, PendOK
<1>6. DeskInv
  BY DEF E!Init, DeskInv
<1> QED BY <1>3, <1>5, <1>6 DEF EditorInv

\* EditorWorkspace.svelte: text the author has typed and not agreed to give up is in
\* the task's buffers until the server has taken it, through loads, refused saves,
\* proposals, closed tabs and new sign-ins of the same user; and "Saved; re-read
\* from the server" is said only when that is so.
THEOREM TypedTextStays ==
    ASSUME E!EditorAssumption
    PROVE  E!Spec => [](E!TypeOK /\ E!TypedTextKept /\ E!SavedNoticeTrue)
<1>1. E!Init => EditorInv
  BY EditorInit
<1>2. EditorInv /\ [E!Next]_E!vars => EditorInv'
  BY EditorStep DEF Good
<1>3. EditorInv => E!TypeOK /\ E!TypedTextKept /\ E!SavedNoticeTrue
  <2> SUFFICES ASSUME EditorInv
               PROVE  E!TypeOK /\ E!TypedTextKept /\ E!SavedNoticeTrue
    OBVIOUS
  <2>1. \A t \in Task : /\ st[t] # None => StateFits(st[t], call[t], typed[t], origin[t])
                        /\ st[t] = None => typed[t] = None
    BY DEF EditorInv, RowsInv, RowOK
  <2>2. E!TypedTextKept
    BY <2>1 DEF E!TypedTextKept, StateFits
  <2>3. E!SavedNoticeTrue
    BY <2>1 DEF E!SavedNoticeTrue, StateFits
  <2> QED BY <2>2, <2>3, EditorTypes
<1> QED BY <1>1, <1>2, <1>3, PTL DEF E!Spec

\* admin.py, save_task_studio: a save of this tab replaces on the server only the
\* content its text stems from, whatever others wrote meanwhile.
THEOREM SavesWhatItKnows ==
    ASSUME E!EditorAssumption
    PROVE  E!Spec => [][E!SavesKnown]_E!vars
<1>1. E!Init => EditorInv
  BY EditorInit
<1>2. EditorInv /\ [E!Next]_E!vars => EditorInv' /\ E!SavesKnown
  BY EditorStep DEF Good
<1> QED BY <1>1, <1>2, PTL DEF E!Spec

=============================================================================
