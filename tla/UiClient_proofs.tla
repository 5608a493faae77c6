--------------------------- MODULE UiClient_proofs --------------------------
(***************************************************************************)
(* Proofs about UiClient: for any users, any secrets, any number of        *)
(* handlers that wait and of clicks, sessions and failures, no user is     *)
(* left with the form of another one, and a 401 costs no edit.             *)
(***************************************************************************)
EXTENDS UiClient, TLAPS

(* What a handler awaits, by what it is. *)
Fits(op, req) ==
  \/ op = "idle" /\ req = "none"
  \/ op = "recheck" /\ req = "session"
  \/ op = "boot" /\ req \in {"session", "consumers", "list"}
  \/ op = "login" /\ req = "login"
  \/ op = "logout" /\ req = "logout"
  \/ op \in {"start", "resume"} /\ req \in {"consumers", "list"}
  \/ op = "select" /\ req = "get"
  \/ op = "save" /\ req \in {"put", "list"}
  \/ op = "create" /\ req \in {"post", "list"}
  \/ op = "refresh" /\ req = "list"

(* A handler is one the page can have, with the cookie of one of n sessions. *)
Sound(t, n) ==
  /\ t \in Task
  /\ Fits(t.op, t.req)
  /\ t.as <= n
  /\ t.op \in {"select", "save", "create"} => t.name \in Names
  /\ t.op = "login" => t.by \in Users
  /\ t.op = "boot" /\ t.reply = "ok" => t.as > 0

(* What is shown or edited is a secret. *)
NamedInv == pane.kind \in {"detail", "edit"} => pane.name \in Names

TaskInv == \A i \in Slots : Sound(tasks[i], Len(sessions))

(* A form that is being saved is being saved by a handler that waits. *)
BusyInv == \A i \in pane.busy : tasks[i].op \in {"save", "create", "select"}

(* The page is booted once, before anything else can happen. *)
BootInv ==
  \A i \in Slots : tasks[i].op = "boot" /\ tasks[i].req = "session" =>
    view = "none" /\ ~ started /\ ~ resume /\ \A j \in Slots \ {i} : tasks[j] = Idle

(* Whose form is open: while a user is on screen, that user's; behind a login
   that would resume, that of the user it would resume for. *)
FormInv ==
  /\ OwnForm
  /\ resume => view = "login" /\ pane.by \in {resumeUser, Nobody}

\* What may wait while an interrupted form is kept.
Harmless(t) == t.op \in {"idle", "login", "resume", "refresh", "recheck"}

(* A form a 401 interrupted is on screen, or behind a login that would resume, and no
   handler that waits could replace it, but a login. *)
KeptInv ==
  kept # Empty =>
    /\ pane = kept /\ pane.busy = {}
    /\ started
    /\ (view = "login" /\ resume) \/ view = "app"
    /\ \A i \in Slots : Harmless(tasks[i])

-----------------------------------------------------------------------------
\* What an answer makes of a handler.

LEMMA RepliesIs ==
  ASSUME tasks \in [Slots -> Task], NEW i \in Slots, NEW code, Replies(i, code)
  PROVE  tasks' = [tasks EXCEPT ![i] = [tasks[i] EXCEPT !.reply = code]]
  BY DEF Replies, Task

LEMMA IdleSound == ASSUME NEW n \in Nat PROVE Sound(Idle, n)
  BY UiClientAssumption DEF Sound, Idle, Asks, Task, Fits, Ops, Requests, Row, NoRow

LEMMA AskSound ==
  ASSUME NEW n \in 0 .. MaxSessions, cookie \in 0 .. n,
         NEW op \in Ops, NEW req \in Requests, Fits(op, req),
         op \notin {"select", "save", "create", "login"}
  PROVE  Sound(Asks(op, req), n)
  BY UiClientAssumption DEF Sound, Asks, Task, Fits, Row, NoRow

LEMMA NoRowIsRow == NoRow \in Row
  BY UiClientAssumption DEF NoRow, Row

\* A handler that saves a form, or looks at a secret.
LEMMA NamedSound ==
  ASSUME NEW n \in 0 .. MaxSessions, cookie \in 0 .. n,
         NEW op \in {"select", "save", "create"}, NEW req \in {"get", "put", "post"}, Fits(op, req),
         NEW m \in Names, NEW r \in Row, NEW b \in Users \cup {Nobody},
         NEW q \in Names \cup {NoName}
  PROVE  /\ Sound([Asks(op, req) EXCEPT !.name = m, !.row = r, !.by = b], n)
         /\ Sound([Asks(op, req) EXCEPT !.name = m, !.by = b], n)
         /\ Sound([Asks(op, req) EXCEPT !.name = m, !.prev = q], n)
<1> DEFINE a == Asks(op, req)
<1>1. a \in Task /\ a.op = op /\ a.req = req /\ a.as <= n
  BY UiClientAssumption DEF Asks, Task, Ops, Requests, Row, NoRow
<1> HIDE DEF a
<1>2. Sound([a EXCEPT !.name = m, !.row = r, !.by = b], n)
  BY <1>1 DEF Sound, Task
<1>3. Sound([a EXCEPT !.name = m, !.by = b], n)
  BY <1>1 DEF Sound, Task
<1>4. Sound([a EXCEPT !.name = m, !.prev = q], n)
  BY <1>1 DEF Sound, Task
<1>5. QED
  BY <1>2, <1>3, <1>4 DEF a

\* One handler goes on, and the sessions become no fewer.
LEMMA OneTask ==
  ASSUME TaskInv, tasks \in [Slots -> Task], NEW i \in Slots, NEW t, Sound(t, Len(sessions')),
         tasks' = [tasks EXCEPT ![i] = t],
         Len(sessions) \in Nat, Len(sessions') \in Nat, Len(sessions) <= Len(sessions')
  PROVE  TaskInv' /\ tasks' \in [Slots -> Task]
<1>1. \A j \in Slots \ {i} : tasks'[j] = tasks[j] /\ Sound(tasks[j], Len(sessions))
  BY DEF TaskInv
<1>2. \A j \in Slots \ {i} : Sound(tasks'[j], Len(sessions'))
  BY <1>1, UiClientAssumption DEF Sound, Task
<1>3. tasks'[i] = t /\ t \in Task
  BY DEF Sound
<1>4. TaskInv'
  BY <1>2, <1>3 DEF TaskInv
<1>5. QED
  BY <1>3, <1>4

-----------------------------------------------------------------------------
(* What the pane and the handlers can hold. *)
Typed == TypeOK /\ TaskInv /\ NamedInv

\* Panes: only a form has been typed into, and only a form is being saved.
Proper(p) == p \in Panes /\ (~ IsForm(p) => p.by = Nobody /\ p.busy = {})

LEMMA PanesProper ==
  /\ Proper(Empty) /\ Proper(New)
  /\ \A n \in Names \cup {NoName}, r \in Row : Proper(Detail(n, r)) /\ Proper(Edit(n, r))
  /\ \A p : Proper(p) => \A i : Proper(Freed(i, p))
<1>1. Empty \in Panes /\ Empty.kind = "empty" /\ Empty.by = Nobody /\ Empty.busy = {}
  BY UiClientAssumption DEF Empty, Panes, Row, NoRow
<1>2. Proper(Empty) /\ Proper(New)
  BY <1>1 DEF Proper, New, Panes, IsForm
<1>3. ASSUME NEW n \in Names \cup {NoName}, NEW r \in Row PROVE Proper(Detail(n, r)) /\ Proper(Edit(n, r))
  BY <1>1 DEF Proper, Detail, Edit, Panes, IsForm
<1>4. ASSUME NEW p, Proper(p), NEW i PROVE Proper(Freed(i, p))
  BY <1>4 DEF Proper, Freed, Panes, IsForm
<1>5. QED
  BY <1>2, <1>3, <1>4

LEMMA PaneFields ==
  /\ Empty.by = Nobody /\ Empty.busy = {}
  /\ New.by = Nobody /\ New.busy = {}
  /\ \A n, r : /\ Detail(n, r).by = Nobody /\ Detail(n, r).busy = {}
              /\ Edit(n, r).by = Nobody /\ Edit(n, r).busy = {}
<1>1. Empty.by = Nobody /\ Empty.busy = {} /\ New.by = Nobody /\ New.busy = {}
  BY DEF Empty, New
<1>2. Empty \in Panes
  BY PanesProper DEF Proper
<1>3. ASSUME NEW n, NEW r
      PROVE  /\ Detail(n, r).by = Nobody /\ Detail(n, r).busy = {}
             /\ Edit(n, r).by = Nobody /\ Edit(n, r).busy = {}
  BY <1>1, <1>2 DEF Detail, Edit, Panes
<1>4. QED
  BY <1>1, <1>3

LEMMA EmptyStays == Empty' = Empty
  BY DEF Empty, NoRow

LEMMA TypeParts ==
  TypeOK <=> /\ stored \in [Names -> Row]
             /\ sessions \in Seq(Users) /\ Len(sessions) <= MaxSessions
             /\ alive \subseteq 1 .. Len(sessions)
             /\ cookie \in 0 .. Len(sessions)
             /\ view \in {"none", "login", "app"}
             /\ who \in Users \cup {Nobody} /\ resumeUser \in Users \cup {Nobody}
             /\ started \in BOOLEAN /\ resume \in BOOLEAN
             /\ selected \in Names \cup {NoName}
             /\ Proper(pane) /\ Proper(kept)
             /\ tasks \in [Slots -> Task]
             /\ clicks \in Nat /\ faults \in Nat
  BY DEF TypeOK, Proper

LEMMA TypedStart == Init => Typed
<1> SUFFICES ASSUME Init PROVE Typed
  OBVIOUS
<1>1. sessions \in Seq(Users) /\ Len(sessions) \in 0 .. 1
  <2>1. << >> \in Seq(Users) /\ Len(<< >>) = 0
    OBVIOUS
  <2>2. \A u \in Users : <<u>> \in Seq(Users) /\ Len(<<u>>) = 1
    OBVIOUS
  <2>3. sessions = << >> \/ \E u \in Users : sessions = <<u>>
    BY DEF Init
  <2>4. CASE sessions = << >>
    BY <2>1, <2>4
  <2>5. ASSUME NEW u \in Users, sessions = <<u>> PROVE sessions \in Seq(Users) /\ Len(sessions) \in 0 .. 1
    BY <2>2, <2>5
  <2>6. QED
    BY <2>3, <2>4, <2>5
<1>2. \A i \in Slots : tasks[i] \in {Asks("boot", "session"), Idle}
  BY DEF Init
<1>3. Sound(Asks("boot", "session"), Len(sessions)) /\ Sound(Idle, Len(sessions))
  BY <1>1, AskSound, IdleSound, UiClientAssumption DEF Init, Ops, Requests, Fits
<1>4. TaskInv /\ tasks \in [Slots -> Task]
  BY <1>2, <1>3 DEF TaskInv, Sound, Init
<1>5. QED
  <2>1. stored \in [Names -> Row] /\ Len(sessions) <= MaxSessions
    BY <1>1, UiClientAssumption DEF Init, Row, NoRow
  <2>2. NamedInv
    BY DEF Init, NamedInv, Empty
  <2>3. alive \subseteq 1 .. Len(sessions) /\ cookie \in 0 .. Len(sessions)
    BY <1>1 DEF Init
  <2>4. TypeOK
    BY <1>1, <1>4, <2>1, <2>3, TypeParts, PanesProper DEF Init
  <2>5. QED
    BY <1>4, <2>2, <2>4 DEF Typed

\* What the users do.
LEMMA TypedUser == Typed /\ UserActs => Typed'
<1> SUFFICES ASSUME Typed, UserActs PROVE Typed'
  OBVIOUS
<1> DEFINE n == Len(sessions)
<1>1. /\ TypeOK /\ TaskInv /\ n \in 0 .. MaxSessions /\ cookie \in 0 .. n
      /\ Proper(pane) /\ Proper(kept) /\ NamedInv
  BY TypeParts DEF Typed
<1>2. ASSUME UNCHANGED <<stored, sessions, alive, cookie, view, who, started, resume, resumeUser>>,
             selected' \in Names \cup {NoName}, Proper(pane'), Proper(kept'),
             tasks' \in [Slots -> Task], clicks' = clicks + 1, faults' = faults
      PROVE  TypeOK'
  BY <1>1, <1>2, TypeParts DEF Proper, TypeOK
<1>3. ASSUME NEW i \in Slots, NEW t, Begin(i, t), Sound(t, n), UNCHANGED sessions
      PROVE  TaskInv' /\ tasks' \in [Slots -> Task]
  <2>1. tasks' = [tasks EXCEPT ![i] = t] /\ tasks \in [Slots -> Task] /\ sessions' = sessions
    BY <1>1, <1>3 DEF Begin, TypeOK
  <2>2. n \in Nat /\ n <= n /\ Len(sessions') = n
    BY <1>1, <2>1, UiClientAssumption
  <2>3. QED
    BY <1>1, <1>3, <2>1, <2>2, OneTask
<1>4. ASSUME UNCHANGED <<sessions, tasks>> PROVE TaskInv' /\ tasks' \in [Slots -> Task]
  BY <1>1, <1>4 DEF TaskInv, TypeOK
<1>5. /\ selected \in Names \cup {NoName} /\ who \in Users \cup {Nobody}
      /\ pane.name \in Names \cup {NoName} /\ pane.row \in Row /\ pane.by \in Users \cup {Nobody}
  BY <1>1, TypeParts DEF Proper, Panes
<1>0. pane' = pane => NamedInv'
  BY <1>1 DEF NamedInv
<1>6. CASE ClickEdit
  <2>1. Proper(pane') /\ NamedInv'
    BY <1>1, <1>5, <1>6, PanesProper DEF ClickEdit, NamedInv, Edit, Detail, Empty
  <2>2. QED
    BY <1>2, <1>4, <1>5, <1>6, <2>1, PanesProper DEF ClickEdit, Click, Typed
<1>7. CASE ClickNew
  <2>1. NamedInv'
    BY <1>7 DEF ClickNew, NamedInv, New, Empty
  <2>2. QED
    BY <1>2, <1>4, <1>7, <2>1, PanesProper DEF ClickNew, Click, Typed
<1>8. CASE ClickCancel
  <2>1. ASSUME pane.kind = "edit" /\ pane' = Detail(pane.name, pane.row) PROVE Proper(pane') /\ NamedInv'
    <3>1. pane.name \in Names /\ pane'.name = pane.name
      BY <1>1, <2>1 DEF NamedInv, Detail, Empty
    <3>2. Proper(pane')
      BY <1>5, <2>1, PanesProper
    <3>3. QED
      BY <3>1, <3>2 DEF NamedInv, Detail, Empty
  <2>2. ASSUME pane' = Empty PROVE Proper(pane') /\ NamedInv'
    BY <2>2, PanesProper DEF NamedInv, Empty
  <2>3. Proper(pane') /\ NamedInv'
    BY <1>8, <2>1, <2>2 DEF ClickCancel
  <2>4. QED
    BY <1>2, <1>4, <1>5, <1>8, <2>3, PanesProper DEF ClickCancel, Click, Typed
<1>9. CASE TypeIntoForm
  <2>1. Proper(pane') /\ NamedInv'
    BY <1>1, <1>5, <1>9 DEF TypeIntoForm, NamedInv, Proper, Panes, IsForm
  <2>2. QED
    BY <1>2, <1>4, <1>5, <1>9, <2>1, PanesProper DEF TypeIntoForm, Click, Typed
<1>10. ASSUME NEW i \in Slots, ClickLogout(i) PROVE Typed'
  <2>1. Sound(Asks("logout", "logout"), n)
    BY <1>1, AskSound DEF Fits, Ops, Requests
  <2>2. QED
    BY <1>0, <1>1, <1>2, <1>3, <1>5, <1>10, <2>1, PanesProper DEF ClickLogout, Click, Typed
<1>11. ASSUME NEW i \in Slots, ClickSave(i) PROVE Typed'
  <2> DEFINE t == [Asks("save", "put") EXCEPT !.name = pane.name, !.row = pane.row, !.by = pane.by]
  <2>1. pane.kind = "edit" /\ pane.name \in Names /\ pane' = [pane EXCEPT !.busy = {i}]
    BY <1>1, <1>11 DEF ClickSave, NamedInv
  <2>2. Sound(t, n)
    BY <1>1, <1>5, <2>1, NamedSound DEF Fits
  <2>3. Proper(pane') /\ NamedInv'
    BY <1>1, <2>1 DEF Proper, Panes, IsForm, NamedInv
  <2>4. QED
    BY <1>2, <1>3, <1>5, <1>11, <2>2, <2>3, PanesProper DEF ClickSave, Click, Typed
<1>12. ASSUME NEW i \in Slots, ChooseTag(i) PROVE Typed'
  <2>1. Sound(Asks("refresh", "list"), n)
    BY <1>1, AskSound DEF Fits, Ops, Requests
  <2>2. QED
    BY <1>0, <1>1, <1>2, <1>3, <1>5, <1>12, <2>1, PanesProper DEF ChooseTag, Click, Typed
<1>13. ASSUME NEW i \in Slots, Recheck(i) PROVE Typed'
  <2>1. Sound(Asks("recheck", "session"), n)
    BY <1>1, AskSound DEF Fits, Ops, Requests
  <2>2. QED
    BY <1>0, <1>1, <1>2, <1>3, <1>5, <1>13, <2>1 DEF Recheck, browser, Typed
<1>14. ASSUME NEW i \in Slots, NEW u \in Users, SubmitLogin(i, u) PROVE Typed'
  <2>1. Sound([Asks("login", "login") EXCEPT !.by = u], n)
    BY <1>1, UiClientAssumption DEF Sound, Asks, Task, Fits, Ops, Requests, Row, NoRow
  <2>2. QED
    BY <1>0, <1>1, <1>2, <1>3, <1>5, <1>14, <2>1 DEF SubmitLogin, browser, Typed
<1>15. ASSUME NEW i \in Slots, NEW m \in Names, SelectSecret(i, m) PROVE Typed'
  <2>1. Sound([Asks("select", "get") EXCEPT !.name = m, !.prev = selected], n)
    BY <1>1, <1>5, NamedSound, NoRowIsRow DEF Fits
  <2>2. QED
    BY <1>0, <1>1, <1>2, <1>3, <1>5, <1>15, <2>1, PanesProper DEF SelectSecret, Click, Typed
<1>16. ASSUME NEW i \in Slots, NEW m \in Names, ClickCreate(i, m) PROVE Typed'
  <2> DEFINE t == [Asks("create", "post") EXCEPT !.name = m, !.by = pane.by]
  <2>1. pane.kind = "new" /\ pane' = [pane EXCEPT !.busy = {i}]
    BY <1>16 DEF ClickCreate
  <2>2. Sound(t, n)
    BY <1>1, <1>5, NamedSound, NoRowIsRow DEF Fits
  <2>3. Proper(pane') /\ NamedInv'
    BY <1>1, <2>1 DEF Proper, Panes, IsForm, NamedInv
  <2>4. QED
    BY <1>2, <1>3, <1>5, <1>16, <2>2, <2>3, PanesProper DEF ClickCreate, Click, Typed
<1>17. QED
  BY <1>6, <1>7, <1>8, <1>9, <1>10, <1>11, <1>12, <1>13, <1>14, <1>15, <1>16 DEF UserActs

\* A handler that hears something, with n sessions.
LEMMA HeardSound ==
  ASSUME NEW n \in Nat, NEW t, Sound(t, n), NEW code \in {"awaited", "ok", "401", "failed"},
         t.op = "boot" /\ code = "ok" => t.as > 0
  PROVE  /\ Sound([t EXCEPT !.reply = code], n)
         /\ \A r \in Row : Sound([t EXCEPT !.reply = code, !.row = r], n)
<1>1. [t EXCEPT !.reply = code] \in Task
  BY DEF Sound, Task
<1>2. \A r \in Row : [t EXCEPT !.reply = code, !.row = r] \in Task
  BY DEF Sound, Task
<1>3. Sound([t EXCEPT !.reply = code], n)
  BY <1>1 DEF Sound, Task
<1>4. ASSUME NEW r \in Row PROVE Sound([t EXCEPT !.reply = code, !.row = r], n)
  BY <1>2 DEF Sound, Task
<1>5. QED
  BY <1>3, <1>4

\* What the server does.
LEMMA TypedServer == Typed /\ ServerActs => Typed'
<1> SUFFICES ASSUME Typed, ServerActs PROVE Typed'
  OBVIOUS
<1> DEFINE n == Len(sessions)
<1>1. TypeOK /\ TaskInv /\ NamedInv /\ n \in 0 .. MaxSessions /\ n \in Nat /\ tasks \in [Slots -> Task]
  BY TypeParts, UiClientAssumption DEF Typed
<1>2. ASSUME UNCHANGED <<sessions, browser, clicks>>, stored' \in [Names -> Row],
             alive' \subseteq alive, TaskInv', tasks' \in [Slots -> Task], faults' \in Nat
      PROVE  Typed'
  BY <1>1, <1>2 DEF Typed, TypeOK, NamedInv, browser
<1>3. ASSUME NEW i \in Slots, NEW code \in {"ok", "401", "failed"}, Replies(i, code),
             tasks[i].op = "boot" /\ code = "ok" => tasks[i].as > 0, UNCHANGED sessions
      PROVE  TaskInv' /\ tasks' \in [Slots -> Task]
  <2>1. tasks' = [tasks EXCEPT ![i] = [tasks[i] EXCEPT !.reply = code]]
    BY <1>1, <1>3, RepliesIs
  <2>2. Sound([tasks[i] EXCEPT !.reply = code], n)
    BY <1>1, <1>3, HeardSound DEF TaskInv
  <2>3. Len(sessions') = n /\ n <= n
    BY <1>1, <1>3
  <2>4. QED
    BY <1>1, <2>1, <2>2, <2>3, OneTask
<1>4. \A i \in Slots : tasks[i] \in Task /\ Sound(tasks[i], n)
  BY <1>1 DEF TaskInv
<1>5. stored \in [Names -> Row] /\ faults \in Nat /\ alive \subseteq 1 .. n
  BY <1>1, TypeParts
<1>6. ASSUME NEW t, EndSession(t) PROVE Typed'
  <2>1. TaskInv' /\ tasks' \in [Slots -> Task]
    BY <1>1, <1>6 DEF EndSession, TaskInv
  <2>2. QED
    BY <1>2, <1>5, <1>6, <2>1 DEF EndSession
<1>7. ASSUME NEW i \in Slots, ServeLogin(i) PROVE Typed'
  <2> DEFINE t == [tasks[i] EXCEPT !.reply = "ok", !.as = n + 1]
  <2>1. tasks[i].op = "login" /\ tasks[i].by \in Users
    BY <1>4, <1>7 DEF ServeLogin, Awaited, Sound, Fits
  <2>2. sessions' \in Seq(Users) /\ Len(sessions') = n + 1 /\ n + 1 <= MaxSessions
    BY <1>1, <1>7, <2>1, UiClientAssumption DEF ServeLogin, TypeOK
  <2>3. tasks' = [tasks EXCEPT ![i] = t]
    BY <1>1, <1>7 DEF ServeLogin, Task
  <2>4. t \in Task
    <3>1. n + 1 \in 0 .. MaxSessions
      BY <1>1, <2>2, UiClientAssumption
    <3>2. tasks[i] \in Task
      BY <1>4
    <3>3. QED
      BY <3>1, <3>2 DEF Task
  <2>5. Sound(t, n + 1)
    BY <1>1, <1>4, <2>1, <2>4 DEF Sound, Task
  <2>6. TaskInv' /\ tasks' \in [Slots -> Task]
    <3>1. Len(sessions') \in Nat /\ n <= Len(sessions') /\ Sound(t, Len(sessions'))
      BY <1>1, <2>2, <2>5
    <3>2. QED
      BY <1>1, <2>3, <3>1, OneTask
  <2>7. alive' \subseteq 1 .. Len(sessions') /\ cookie \in 0 .. Len(sessions')
    BY <1>1, <1>5, <1>7, <2>2 DEF ServeLogin, TypeOK
  <2>8. QED
    BY <1>1, <1>7, <2>2, <2>6, <2>7 DEF ServeLogin, Typed, TypeOK, NamedInv, browser
<1>8. ASSUME NEW i \in Slots, ServeLogout(i) PROVE Typed'
  <2>1. tasks[i].op # "boot"
    BY <1>4, <1>8 DEF ServeLogout, Awaited, Sound, Fits
  <2>2. QED
    BY <1>2, <1>3, <1>5, <1>8, <2>1 DEF ServeLogout
<1>9. ASSUME NEW i \in Slots, ServeRefusal(i) PROVE Typed'
  BY <1>2, <1>3, <1>5, <1>9 DEF ServeRefusal
<1>10. ASSUME NEW i \in Slots, ServeQuery(i) PROVE Typed'
  <2>1. tasks[i].as > 0
    <3>1. tasks[i].as \in alive
      BY <1>10 DEF ServeQuery, Accepts
    <3>2. tasks[i].as \in 1 .. n
      BY <1>5, <3>1
    <3>3. QED
      BY <1>1, <3>2
  <2>2. QED
    BY <1>2, <1>3, <1>5, <1>10, <2>1 DEF ServeQuery
<1>11. ASSUME NEW i \in Slots, ServeGet(i) PROVE Typed'
  <2>1. tasks[i].op = "select" /\ tasks[i].name \in Names
    BY <1>4, <1>11 DEF ServeGet, Awaited, Sound, Fits
  <2>2. CASE Replies(i, "failed")
    BY <1>2, <1>3, <1>5, <1>11, <2>1, <2>2 DEF ServeGet
  <2>3. CASE tasks' = [tasks EXCEPT ![i].reply = "ok", ![i].row = stored[tasks[i].name]]
    <3> DEFINE r == stored[tasks[i].name]
               t == [tasks[i] EXCEPT !.reply = "ok", !.row = r]
    <3>1. r \in Row
      BY <1>5, <2>1
    <3>2. tasks' = [tasks EXCEPT ![i] = t]
      BY <1>1, <2>3 DEF Task
    <3>3. Sound(t, n)
      BY <1>1, <1>4, <2>1, <3>1, HeardSound
    <3>4. Len(sessions') = n /\ n <= n
      BY <1>1, <1>11 DEF ServeGet
    <3>5. TaskInv' /\ tasks' \in [Slots -> Task]
      BY <1>1, <3>2, <3>3, <3>4, OneTask
    <3>6. QED
      BY <1>2, <1>5, <1>11, <3>5 DEF ServeGet
  <2>4. QED
    BY <1>11, <2>2, <2>3 DEF ServeGet
<1>12. ASSUME NEW i \in Slots, ServePost(i) PROVE Typed'
  <2>1. tasks[i].op # "boot" /\ tasks[i].name \in Names
    BY <1>4, <1>12 DEF ServePost, Awaited, Sound, Fits
  <2>2. stored' \in [Names -> Row]
    BY <1>5, <1>12, <2>1, UiClientAssumption DEF ServePost, Created, Row
  <2>3. TaskInv' /\ tasks' \in [Slots -> Task]
    BY <1>3, <1>12, <2>1 DEF ServePost
  <2>4. QED
    BY <1>2, <1>5, <1>12, <2>2, <2>3 DEF ServePost
<1>13. ASSUME NEW i \in Slots, NEW newValue \in BOOLEAN, ServePut(i, newValue) PROVE Typed'
  <2>1. tasks[i].op # "boot" /\ tasks[i].name \in Names
    BY <1>4, <1>13 DEF ServePut, Awaited, Sound, Fits
  <2>2. stored' \in [Names -> Row]
    <3> DEFINE r == stored[tasks[i].name]
               grown == r.version + (IF newValue THEN 1 ELSE 0)
    <3>1. r \in Row
      BY <1>5, <2>1
    <3>2. newValue => r.version < MaxVersion
      BY <1>13 DEF ServePut
    <3>3. grown \in 0 .. MaxVersion
      BY <3>1, <3>2, UiClientAssumption DEF Row
    <3>4. [r EXCEPT !.version = grown] \in Row
      BY <3>1, <3>3 DEF Row
    <3>5. stored' = stored \/ stored' = [stored EXCEPT ![tasks[i].name] = [r EXCEPT !.version = grown]]
      BY <1>5, <1>13, <2>1, <3>1 DEF ServePut, Row
    <3>6. QED
      BY <1>5, <3>4, <3>5
  <2>3. TaskInv' /\ tasks' \in [Slots -> Task]
    BY <1>3, <1>13, <2>1 DEF ServePut
  <2>4. QED
    BY <1>2, <1>5, <1>13, <2>2, <2>3 DEF ServePut
<1>14. ASSUME NEW i \in Slots, Break(i) PROVE Typed'
  BY <1>2, <1>3, <1>5, <1>14 DEF Break
<1>15. QED
  BY <1>6, <1>7, <1>8, <1>9, <1>10, <1>11, <1>12, <1>13, <1>14 DEF ServerActs

\* A handler that asks for something more, with the cookie c.
LEMMA AskingSound ==
  ASSUME NEW n \in 0 .. MaxSessions, NEW t, Sound(t, n), NEW c \in 0 .. n,
         NEW op \in Ops, NEW req \in Requests, Fits(op, req),
         op \in {"select", "save", "create"} => t.name \in Names,
         op # "login"
  PROVE  Sound([t EXCEPT !.op = op, !.req = req, !.as = c, !.reply = "awaited"], n)
<1> DEFINE u == [t EXCEPT !.op = op, !.req = req, !.as = c, !.reply = "awaited"]
<1>1. t \in Task /\ c \in 0 .. MaxSessions /\ c <= n
  BY UiClientAssumption DEF Sound
<1>2. u \in Task
  BY <1>1 DEF Task
<1>3. u.op = op /\ u.req = req /\ u.as = c /\ u.name = t.name
  BY <1>1 DEF Task
<1>4. QED
  BY <1>1, <1>2, <1>3 DEF Sound

\* What the page makes of the answers.
LEMMA TypedPage == Typed /\ PageActs => Typed'
<1> SUFFICES ASSUME Typed, PageActs PROVE Typed'
  OBVIOUS
<1> DEFINE n == Len(sessions)
<1>1. /\ TypeOK /\ TaskInv /\ NamedInv /\ n \in 0 .. MaxSessions /\ n \in Nat /\ n <= n
      /\ tasks \in [Slots -> Task] /\ cookie \in 0 .. n
  BY TypeParts, UiClientAssumption DEF Typed
<1>2. /\ Proper(pane) /\ Proper(kept) /\ selected \in Names \cup {NoName}
      /\ who \in Users \cup {Nobody} /\ resumeUser \in Users \cup {Nobody}
      /\ view \in {"none", "login", "app"} /\ started \in BOOLEAN /\ resume \in BOOLEAN
  BY <1>1, TypeParts
<1>3. \A i \in Slots : tasks[i] \in Task /\ Sound(tasks[i], n)
  BY <1>1 DEF TaskInv
<1>4. ASSUME UNCHANGED <<stored, sessions, alive, clicks, faults>>, TaskInv', tasks' \in [Slots -> Task],
             cookie' \in 0 .. n, Proper(pane'), Proper(kept'), selected' \in Names \cup {NoName},
             who' \in Users \cup {Nobody}, resumeUser' \in Users \cup {Nobody},
             view' \in {"none", "login", "app"}, started' \in BOOLEAN, resume' \in BOOLEAN, NamedInv'
      PROVE  Typed'
  BY <1>1, <1>4 DEF Typed, TypeOK, Proper
<1>5. ASSUME NEW i \in Slots, Finish(i), UNCHANGED sessions PROVE TaskInv' /\ tasks' \in [Slots -> Task]
  <2>1. Sound(Idle, n) /\ Len(sessions') = n
    BY <1>1, <1>5, IdleSound
  <2>2. QED
    BY <1>1, <1>5, <2>1, OneTask DEF Finish
<1>6. ASSUME NEW i \in Slots, NEW op \in Ops, NEW req \in Requests, NEW c \in 0 .. n,
             Awaits(i, op, req, c), Fits(op, req), UNCHANGED sessions,
             op \in {"select", "save", "create"} => tasks[i].name \in Names,
             op # "login"
      PROVE  TaskInv' /\ tasks' \in [Slots -> Task]
  <2> DEFINE t == [tasks[i] EXCEPT !.op = op, !.req = req, !.as = c, !.reply = "awaited"]
  <2>1. tasks' = [tasks EXCEPT ![i] = t]
    BY <1>1, <1>6 DEF Awaits, Task
  <2>2. Sound(t, n)
    BY <1>1, <1>3, <1>6, AskingSound
  <2>3. Len(sessions') = n
    BY <1>6
  <2>4. QED
    BY <1>1, <2>1, <2>2, <2>3, OneTask
<1>7. (\E i \in Slots : pane' = Freed(i, pane)) \/ pane' = pane => Proper(pane') /\ NamedInv'
  <2>1. ASSUME NEW i \in Slots, pane' = Freed(i, pane) PROVE Proper(pane') /\ NamedInv'
    BY <1>1, <1>2, <2>1, PanesProper DEF NamedInv, Freed, Proper, Panes
  <2>2. QED
    BY <1>1, <1>2, <2>1 DEF NamedInv
<1>8. ASSUME NEW i \in Slots, Unauthorized(i) PROVE Typed'
  <2>1. Proper(kept') /\ resume' \in BOOLEAN
    BY <1>2, <1>7, <1>8 DEF Unauthorized, Resumable, Interrupts
  <2>2. selected' \in Names \cup {NoName}
    BY <1>2, <1>3, <1>8 DEF Unauthorized, Task
  <2>3. TaskInv' /\ tasks' \in [Slots -> Task]
    BY <1>5, <1>8 DEF Unauthorized, Arrives
  <2>4. QED
    BY <1>1, <1>2, <1>4, <1>7, <1>8, <2>1, <2>2, <2>3 DEF Unauthorized, Arrives
<1>9. ASSUME NEW i \in Slots, Failed(i) PROVE Typed'
  <2>1. TaskInv' /\ tasks' \in [Slots -> Task]
    BY <1>5, <1>9 DEF Failed, Arrives
  <2>2. QED
    BY <1>1, <1>2, <1>4, <1>7, <1>9, <2>1 DEF Failed, Arrives
<1>10. ASSUME NEW i \in Slots, Booted(i) PROVE Typed'
  <2>1. tasks[i].as \in 1 .. n
    <3>1. tasks[i].op = "boot" /\ tasks[i].reply = "ok" /\ Sound(tasks[i], n)
      BY <1>3, <1>10 DEF Booted, Arrives
    <3>2. tasks[i].as \in 0 .. MaxSessions /\ tasks[i].as <= n /\ tasks[i].as > 0
      BY <3>1 DEF Sound, Task
    <3>3. QED
      BY <1>1, <3>2, UiClientAssumption
  <2>2. sessions[tasks[i].as] \in Users
    BY <1>1, <2>1 DEF TypeOK
  <2>3. TaskInv' /\ tasks' \in [Slots -> Task]
    BY <1>1, <1>6, <1>10 DEF Booted, Arrives, StartSession, Ops, Requests, Fits
  <2>4. QED
    BY <1>1, <1>2, <1>4, <1>7, <1>10, <2>2, <2>3 DEF Booted, Arrives, StartSession
<1>11. ASSUME NEW i \in Slots, LoggedIn(i) PROVE Typed'
  <2>1. tasks[i].as \in 0 .. n /\ tasks[i].by \in Users
    BY <1>1, <1>3, <1>11 DEF LoggedIn, Arrives, Sound, Task
  <2>2. cookie' = tasks[i].as /\ UNCHANGED sessions
    BY <1>11 DEF LoggedIn, Arrives
  <2>3. TaskInv' /\ tasks' \in [Slots -> Task]
    BY <1>6, <1>11, <2>1, <2>2 DEF LoggedIn, StartSession, Ops, Requests, Fits
  <2>4. Proper(kept')
    BY <1>2, <1>11, PanesProper DEF LoggedIn
  <2>5. QED
    BY <1>1, <1>2, <1>4, <1>7, <1>11, <2>1, <2>3, <2>4 DEF LoggedIn, Arrives, StartSession
<1>12. ASSUME NEW i \in Slots, LoggedOut(i) PROVE Typed'
  <2>1. TaskInv' /\ tasks' \in [Slots -> Task]
    BY <1>5, <1>12 DEF LoggedOut, Arrives
  <2>2. cookie' \in 0 .. n /\ Proper(kept')
    BY <1>1, <1>12, PanesProper DEF LoggedOut
  <2>3. QED
    BY <1>2, <1>4, <1>7, <1>12, <2>1, <2>2 DEF LoggedOut, Arrives
<1>13. ASSUME NEW i \in Slots, ConsumersLoaded(i) PROVE Typed'
  <2>1. tasks[i].op \in {"boot", "start", "resume"}
    BY <1>3, <1>13 DEF ConsumersLoaded, Sound, Fits
  <2>2. TaskInv' /\ tasks' \in [Slots -> Task]
    BY <1>1, <1>6, <1>13, <2>1 DEF ConsumersLoaded, Arrives, Ops, Requests, Fits
  <2>3. QED
    BY <1>1, <1>2, <1>4, <1>7, <1>13, <2>2 DEF ConsumersLoaded, Arrives, browser
<1>14. ASSUME NEW i \in Slots, StartEnds(i) PROVE Typed'
  <2>1. TaskInv' /\ tasks' \in [Slots -> Task]
    BY <1>5, <1>14 DEF StartEnds, Arrives
  <2>2. Proper(pane') /\ NamedInv'
    BY <1>14, PanesProper DEF StartEnds, PaneAfterStart, NamedInv, Empty
  <2>3. QED
    BY <1>1, <1>2, <1>4, <1>14, <2>1, <2>2 DEF StartEnds, Arrives
<1>15. ASSUME NEW i \in Slots, ReloadEnds(i) PROVE Typed'
  <2>1. TaskInv' /\ tasks' \in [Slots -> Task]
    BY <1>5, <1>15 DEF ReloadEnds, Arrives
  <2>2. QED
    BY <1>1, <1>2, <1>4, <1>7, <1>15, <2>1 DEF ReloadEnds, Arrives, browser
<1>16. ASSUME NEW i \in Slots, Written(i) PROVE Typed'
  <2>1. tasks[i].op \in {"save", "create"} /\ tasks[i].name \in Names
    BY <1>3, <1>16 DEF Written, Sound, Fits
  <2>2. TaskInv' /\ tasks' \in [Slots -> Task]
    BY <1>1, <1>6, <1>16, <2>1 DEF Written, Arrives, Ops, Requests, Fits
  <2>3. QED
    BY <1>1, <1>2, <1>4, <1>7, <1>16, <2>2 DEF Written, Arrives, browser
<1>17. ASSUME NEW i \in Slots, ShowWritten(i) PROVE Typed'
  <2> DEFINE t == [Asks("select", "get") EXCEPT !.name = tasks[i].name, !.prev = selected]
  <2>1. tasks[i].name \in Names
    BY <1>3, <1>17 DEF ShowWritten, Sound
  <2>2. Sound(t, n)
    BY <1>1, <1>2, <2>1, NamedSound, NoRowIsRow DEF Fits
  <2>3. tasks' = [tasks EXCEPT ![i] = t] /\ Len(sessions') = n
    BY <1>17 DEF ShowWritten, Arrives
  <2>4. TaskInv' /\ tasks' \in [Slots -> Task]
    BY <1>1, <2>2, <2>3, OneTask
  <2>5. QED
    BY <1>1, <1>2, <1>4, <1>7, <1>17, <2>1, <2>4 DEF ShowWritten, Arrives
<1>18. ASSUME NEW i \in Slots, Shown(i) PROVE Typed'
  <2>1. tasks[i].name \in Names /\ tasks[i].row \in Row
    BY <1>3, <1>18 DEF Shown, Sound, Fits, Task
  <2>2. Proper(pane') /\ NamedInv'
    BY <1>18, <2>1, PanesProper DEF Shown, NamedInv, Detail, Empty
  <2>3. TaskInv' /\ tasks' \in [Slots -> Task]
    BY <1>5, <1>18 DEF Shown, Arrives
  <2>4. QED
    BY <1>1, <1>2, <1>4, <1>18, <2>2, <2>3, PanesProper DEF Shown, Arrives
<1>19. QED
  BY <1>8, <1>9, <1>10, <1>11, <1>12, <1>13, <1>14, <1>15, <1>16, <1>17, <1>18 DEF PageActs

-----------------------------------------------------------------------------
\* How the steps of each side move the handlers.

LEMMA IdleFields == Idle.op = "idle" /\ Idle.req = "none" /\ Idle.reply = "awaited" /\ Idle' = Idle
  BY DEF Idle, Asks

LEMMA ServerMoves ==
  Typed /\ ServerActs =>
    /\ UNCHANGED browser
    /\ \A j \in Slots : /\ tasks'[j].op = tasks[j].op /\ tasks'[j].req = tasks[j].req
                        /\ tasks[j] = Idle => tasks'[j] = Idle
<1> SUFFICES ASSUME Typed, ServerActs
             PROVE  /\ UNCHANGED browser
                    /\ \A j \in Slots : /\ tasks'[j].op = tasks[j].op /\ tasks'[j].req = tasks[j].req
                                        /\ tasks[j] = Idle => tasks'[j] = Idle
  OBVIOUS
<1>1. tasks \in [Slots -> Task]
  BY TypeParts DEF Typed
<1>2. ASSUME NEW t, EndSession(t) PROVE UNCHANGED <<browser, tasks>>
  BY <1>2 DEF EndSession
<1>3. ASSUME NEW i \in Slots,
             \/ ServeLogin(i) \/ ServeLogout(i) \/ ServeRefusal(i) \/ ServeQuery(i)
             \/ ServeGet(i) \/ ServePost(i) \/ Break(i)
             \/ \E newValue \in BOOLEAN : ServePut(i, newValue)
      PROVE  /\ UNCHANGED browser /\ tasks[i] # Idle
             /\ tasks'[i].op = tasks[i].op /\ tasks'[i].req = tasks[i].req
             /\ \A j \in Slots \ {i} : tasks'[j] = tasks[j]
  <2>1. UNCHANGED browser
    BY <1>3 DEF ServeLogin, ServeLogout, ServeRefusal, ServeQuery, ServeGet, ServePost, ServePut, Break
  <2>2. tasks[i] # Idle
    BY <1>3, IdleFields
       DEF ServeLogin, ServeLogout, ServeRefusal, ServeQuery, ServeGet, ServePost, ServePut, Break, Awaited
  <2>3. tasks'[i].op = tasks[i].op /\ tasks'[i].req = tasks[i].req /\ \A j \in Slots \ {i} : tasks'[j] = tasks[j]
    <3>1. \A code : Replies(i, code) =>
            tasks'[i].op = tasks[i].op /\ tasks'[i].req = tasks[i].req /\ \A j \in Slots \ {i} : tasks'[j] = tasks[j]
      BY <1>1 DEF Replies, Task
    <3>2. CASE ServeLogin(i)
      BY <1>1, <3>2 DEF ServeLogin, Task
    <3>3. CASE ServeGet(i)
      BY <1>1, <3>1, <3>3 DEF ServeGet, Task
    <3>4. CASE \/ ServeLogout(i) \/ ServeRefusal(i) \/ ServeQuery(i) \/ ServePost(i) \/ Break(i)
               \/ \E newValue \in BOOLEAN : ServePut(i, newValue)
      BY <3>1, <3>4 DEF ServeLogout, ServeRefusal, ServeQuery, ServePost, ServePut, Break
    <3>5. QED
      BY <1>3, <3>2, <3>3, <3>4
  <2>4. QED
    BY <2>1, <2>2, <2>3
<1>4. QED
  BY <1>2, <1>3 DEF ServerActs

\* A handler that a user starts.
Started(t) == t.op \in {"login", "logout", "select", "save", "create", "refresh", "recheck"}

LEMMA UserMoves ==
  Typed /\ UserActs =>
    /\ view \in {"login", "app"} /\ view' = view
    /\ UNCHANGED <<who, started, resume, resumeUser>>
    /\ \A j \in Slots : tasks'[j] = tasks[j] \/ (tasks[j] = Idle /\ Started(tasks'[j]))
<1> SUFFICES ASSUME Typed, UserActs
             PROVE  /\ view \in {"login", "app"} /\ view' = view
                    /\ UNCHANGED <<who, started, resume, resumeUser>>
                    /\ \A j \in Slots : tasks'[j] = tasks[j] \/ (tasks[j] = Idle /\ Started(tasks'[j]))
  OBVIOUS
<1>1. tasks \in [Slots -> Task]
  BY TypeParts DEF Typed
<1>2. CASE ClickEdit \/ ClickNew \/ ClickCancel \/ TypeIntoForm
  BY <1>2 DEF ClickEdit, ClickNew, ClickCancel, TypeIntoForm, Click
<1>3. ASSUME NEW i \in Slots, NEW t, Begin(i, t), Started(t)
      PROVE  \A j \in Slots : tasks'[j] = tasks[j] \/ (tasks[j] = Idle /\ Started(tasks'[j]))
  BY <1>1, <1>3 DEF Begin
<1>4. ASSUME NEW i \in Slots, ClickLogout(i) \/ ChooseTag(i)
      PROVE  \A j \in Slots : tasks'[j] = tasks[j] \/ (tasks[j] = Idle /\ Started(tasks'[j]))
  BY <1>3, <1>4 DEF ClickLogout, ChooseTag, Asks, Started
<1>5. ASSUME NEW i \in Slots, Recheck(i)
      PROVE  \A j \in Slots : tasks'[j] = tasks[j] \/ (tasks[j] = Idle /\ Started(tasks'[j]))
  BY <1>3, <1>5 DEF Recheck, Asks, Started
<1>6. ASSUME NEW i \in Slots, ClickSave(i)
      PROVE  \A j \in Slots : tasks'[j] = tasks[j] \/ (tasks[j] = Idle /\ Started(tasks'[j]))
  BY <1>3, <1>6 DEF ClickSave, Asks, Started
<1>7. ASSUME NEW i \in Slots, NEW u \in Users, SubmitLogin(i, u)
      PROVE  \A j \in Slots : tasks'[j] = tasks[j] \/ (tasks[j] = Idle /\ Started(tasks'[j]))
  BY <1>3, <1>7 DEF SubmitLogin, Asks, Started
<1>8. ASSUME NEW i \in Slots, NEW n \in Names, SelectSecret(i, n) \/ ClickCreate(i, n)
      PROVE  \A j \in Slots : tasks'[j] = tasks[j] \/ (tasks[j] = Idle /\ Started(tasks'[j]))
  BY <1>3, <1>8 DEF SelectSecret, ClickCreate, Asks, Started
<1>9. ASSUME NEW i \in Slots,
             \/ ClickLogout(i) \/ ClickSave(i) \/ ChooseTag(i) \/ Recheck(i)
             \/ \E u \in Users : SubmitLogin(i, u)
             \/ \E n \in Names : SelectSecret(i, n) \/ ClickCreate(i, n)
      PROVE  /\ view \in {"login", "app"} /\ view' = view
             /\ UNCHANGED <<who, started, resume, resumeUser>>
  BY <1>9 DEF ClickLogout, ClickSave, ChooseTag, Recheck, SubmitLogin, SelectSecret, ClickCreate,
     Click, browser
<1>10. QED
  BY <1>2, <1>4, <1>5, <1>6, <1>7, <1>8, <1>9 DEF UserActs

\* The answer to handler i: what it awaited, and what it is next.
Heard(i) ==
  \/ Unauthorized(i) /\ tasks' = [tasks EXCEPT ![i] = Idle]
  \/ Failed(i) /\ tasks' = [tasks EXCEPT ![i] = Idle]
  \/ Booted(i) /\ tasks[i].op = "boot" /\ tasks[i].req = "session" /\ tasks'[i].req = "consumers"
  \/ LoggedIn(i) /\ tasks[i].op = "login" /\ tasks'[i].op \in {"start", "resume"}
  \/ LoggedOut(i) /\ tasks[i].op = "logout" /\ tasks' = [tasks EXCEPT ![i] = Idle]
  \/ /\ ConsumersLoaded(i) /\ tasks[i].op \in {"boot", "start", "resume"}
     /\ tasks'[i].op = tasks[i].op /\ tasks'[i].req = "list"
  \/ StartEnds(i) /\ tasks[i].op \in {"boot", "start"} /\ tasks' = [tasks EXCEPT ![i] = Idle]
  \/ ReloadEnds(i) /\ tasks[i].op \in {"resume", "refresh", "recheck"} /\ tasks' = [tasks EXCEPT ![i] = Idle]
  \/ Written(i) /\ tasks[i].op \in {"save", "create"} /\ tasks'[i].op = tasks[i].op
  \/ ShowWritten(i) /\ tasks[i].op \in {"save", "create"} /\ tasks'[i].op = "select"
  \/ Shown(i) /\ tasks[i].op = "select" /\ tasks' = [tasks EXCEPT ![i] = Idle]

LEMMA PageMoves ==
  Typed /\ PageActs =>
    \E i \in Slots : Heard(i) /\ tasks[i] # Idle /\ \A j \in Slots \ {i} : tasks'[j] = tasks[j]
<1> SUFFICES ASSUME Typed, NEW i \in Slots,
                    \/ Unauthorized(i) \/ Failed(i) \/ Booted(i) \/ LoggedIn(i) \/ LoggedOut(i)
                    \/ ConsumersLoaded(i) \/ StartEnds(i) \/ ReloadEnds(i)
                    \/ Written(i) \/ ShowWritten(i) \/ Shown(i)
             PROVE  Heard(i) /\ tasks[i] # Idle /\ \A j \in Slots \ {i} : tasks'[j] = tasks[j]
  BY DEF PageActs
<1>1. tasks \in [Slots -> Task] /\ Fits(tasks[i].op, tasks[i].req)
  BY TypeParts DEF Typed, TaskInv, Sound
<1>2. tasks[i] # Idle
  BY IdleFields DEF Unauthorized, Failed, Booted, LoggedIn, LoggedOut, ConsumersLoaded, StartEnds,
     ReloadEnds, Written, ShowWritten, Shown, Arrives
<1>3. CASE Unauthorized(i) \/ Failed(i) \/ LoggedOut(i) \/ StartEnds(i) \/ ReloadEnds(i) \/ Shown(i)
  BY <1>1, <1>2, <1>3 DEF Heard, Unauthorized, Failed, LoggedOut, StartEnds, ReloadEnds, Shown,
     Finish, Fits
<1>4. CASE Booted(i) \/ LoggedIn(i)
  BY <1>1, <1>2, <1>4 DEF Heard, Booted, LoggedIn, StartSession, Awaits, Task
<1>5. CASE ConsumersLoaded(i) \/ Written(i)
  BY <1>1, <1>2, <1>5 DEF Heard, ConsumersLoaded, Written, Awaits, Task, Fits
<1>6. CASE ShowWritten(i)
  BY <1>1, <1>2, <1>6 DEF Heard, ShowWritten, Asks
<1>7. QED
  BY <1>3, <1>4, <1>5, <1>6

-----------------------------------------------------------------------------
\* The first handler of the page is alone.

LEMMA BootStep == Typed /\ BootInv /\ Next => BootInv'
<1> SUFFICES ASSUME Typed, BootInv, Next, NEW b \in Slots,
                    tasks'[b].op = "boot" /\ tasks'[b].req = "session"
             PROVE  view' = "none" /\ ~ started' /\ ~ resume' /\ \A j \in Slots \ {b} : tasks'[j] = Idle
  BY IdleFields DEF BootInv
<1>1. CASE UserActs
  <2>1. ~ (tasks[b].op = "boot" /\ tasks[b].req = "session")
    BY <1>1, UserMoves DEF BootInv
  <2>2. QED
    BY <1>1, <2>1, UserMoves DEF Started
<1>2. CASE ServerActs
  BY <1>2, ServerMoves DEF BootInv, browser
<1>3. CASE PageActs
  <2>1. PICK i \in Slots : Heard(i) /\ tasks[i] # Idle /\ \A j \in Slots \ {i} : tasks'[j] = tasks[j]
    BY <1>3, PageMoves
  <2>2. ~ (tasks'[i].op = "boot" /\ tasks'[i].req = "session")
    BY <2>1, IdleFields, TypeParts DEF Heard, Typed
  <2>3. b # i /\ tasks[b].op = "boot" /\ tasks[b].req = "session"
    BY <2>1, <2>2
  <2>4. QED
    BY <2>1, <2>3 DEF BootInv
<1>4. QED
  BY <1>1, <1>2, <1>3 DEF Next

-----------------------------------------------------------------------------
\* Whose form is open.

LEMMA FormUser == FormInv /\ Typed /\ UserActs => FormInv'
<1> SUFFICES ASSUME FormInv, Typed, UserActs PROVE FormInv'
  OBVIOUS
<1>1. view' = view /\ UNCHANGED <<who, started, resume, resumeUser>>
  BY UserMoves
<1>2. \/ pane'.by \in {pane.by, Nobody}
      \/ view = "app" /\ pane'.by = who
  <2>1. CASE ClickEdit \/ ClickNew \/ ClickCancel
    BY <2>1, PaneFields DEF ClickEdit, ClickNew, ClickCancel
  <2>2. CASE TypeIntoForm
    BY <2>2, TypeParts DEF TypeIntoForm, Typed, Proper, Panes
  <2>3. ASSUME NEW i \in Slots, ClickSave(i) \/ \E n \in Names : ClickCreate(i, n)
        PROVE  pane'.by = pane.by
    BY <2>3, TypeParts DEF ClickSave, ClickCreate, Typed, Proper, Panes
  <2>4. ASSUME NEW i \in Slots,
               \/ ClickLogout(i) \/ ChooseTag(i) \/ Recheck(i)
               \/ \E u \in Users : SubmitLogin(i, u)
               \/ \E n \in Names : SelectSecret(i, n)
        PROVE  pane'.by = pane.by
    BY <2>4 DEF ClickLogout, ChooseTag, Recheck, SubmitLogin, SelectSecret, browser
  <2>5. QED
    BY <2>1, <2>2, <2>3, <2>4 DEF UserActs
<1>3. QED
  BY <1>1, <1>2 DEF FormInv, OwnForm

LEMMA FormPage == FormInv /\ BootInv /\ Typed /\ PageActs => FormInv'
<1> SUFFICES ASSUME FormInv, BootInv, Typed, NEW i \in Slots, Heard(i) PROVE FormInv'
  BY PageMoves
<1>1. pane \in Panes
  BY TypeParts DEF Typed, Proper
<1>2. Freed(i, pane).by = pane.by
  BY <1>1 DEF Freed, Panes
<1>3. CASE Unauthorized(i)
  <2>1. view' = "login" /\ pane'.by = pane.by /\ resume' = Resumable(resume)
        /\ resumeUser' = IF Interrupts THEN who ELSE resumeUser
    BY <1>2, <1>3 DEF Unauthorized
  <2>2. CASE Interrupts
    BY <2>1, <2>2 DEF FormInv, OwnForm, Interrupts
  <2>3. CASE ~ Interrupts
    BY <2>1, <2>3 DEF FormInv, OwnForm, Resumable
  <2>4. QED
    BY <2>2, <2>3
<1>4. CASE Failed(i)
  BY <1>2, <1>4 DEF FormInv, OwnForm, Failed
<1>5. CASE Booted(i) /\ tasks[i].op = "boot" /\ tasks[i].req = "session"
  BY <1>5 DEF FormInv, OwnForm, BootInv, Booted, StartSession
<1>6. CASE LoggedIn(i)
  BY <1>6 DEF FormInv, OwnForm, LoggedIn, StartSession
<1>7. CASE LoggedOut(i)
  BY <1>7 DEF FormInv, OwnForm, LoggedOut
<1>8. CASE ConsumersLoaded(i) \/ ReloadEnds(i) \/ Written(i)
  BY <1>8 DEF FormInv, OwnForm, ConsumersLoaded, ReloadEnds, Written, browser
<1>9. CASE StartEnds(i)
  BY <1>9 DEF FormInv, OwnForm, StartEnds, PaneAfterStart, Empty
<1>10. CASE ShowWritten(i)
  BY <1>10 DEF FormInv, OwnForm, ShowWritten
<1>11. CASE Shown(i)
  BY <1>11 DEF FormInv, OwnForm, Shown, Detail, Empty
<1>12. QED
  BY <1>3, <1>4, <1>5, <1>6, <1>7, <1>8, <1>9, <1>10, <1>11 DEF Heard

LEMMA FormStep == FormInv /\ BootInv /\ Typed /\ Next => FormInv'
<1>1. FormInv /\ Typed /\ ServerActs => FormInv'
  BY ServerMoves DEF FormInv, OwnForm, browser
<1>2. QED
  BY <1>1, FormUser, FormPage DEF Next

-----------------------------------------------------------------------------
\* Forms that are being saved, and forms that a 401 interrupted.

LEMMA BusyStep == BusyInv /\ Typed /\ Next => BusyInv'
<1> SUFFICES ASSUME BusyInv, Typed, Next PROVE BusyInv'
  OBVIOUS
<1>1. tasks \in [Slots -> Task] /\ pane \in Panes /\ pane.busy \subseteq Slots
  BY TypeParts DEF Typed, Proper, Panes
<1>2. CASE UserActs
  <2>1. pane'.busy \subseteq pane.busy \/ \E i \in Slots :
          pane'.busy = {i} /\ tasks'[i].op \in {"save", "create"}
    <3>1. CASE ClickEdit \/ ClickNew \/ ClickCancel
      BY <3>1, PaneFields DEF ClickEdit, ClickNew, ClickCancel
    <3>2. CASE TypeIntoForm
      BY <1>1, <3>2 DEF TypeIntoForm, Panes
    <3>3. ASSUME NEW i \in Slots, ClickSave(i) \/ \E n \in Names : ClickCreate(i, n)
          PROVE  pane'.busy = {i} /\ tasks'[i].op \in {"save", "create"}
      <4>1. pane'.busy = {i}
        BY <1>1, <3>3 DEF ClickSave, ClickCreate, Panes
      <4>2. CASE ClickSave(i)
        BY <1>1, <4>1, <4>2 DEF ClickSave, Begin, Asks
      <4>3. ASSUME NEW n \in Names, ClickCreate(i, n) PROVE tasks'[i].op = "create"
        BY <1>1, <4>3 DEF ClickCreate, Begin, Asks
      <4>4. QED
        BY <3>3, <4>1, <4>2, <4>3
    <3>4. ASSUME NEW i \in Slots,
                 \/ ClickLogout(i) \/ ChooseTag(i) \/ Recheck(i)
                 \/ \E u \in Users : SubmitLogin(i, u)
                 \/ \E n \in Names : SelectSecret(i, n)
          PROVE  pane' = pane
      BY <3>4 DEF ClickLogout, ChooseTag, Recheck, SubmitLogin, SelectSecret, browser
    <3>5. QED
      BY <1>2, <3>1, <3>2, <3>3, <3>4 DEF UserActs
  <2>2. \A j \in pane.busy : tasks'[j] = tasks[j]
    BY <1>1, <1>2, UserMoves, IdleFields DEF BusyInv
  <2>3. QED
    BY <2>1, <2>2 DEF BusyInv
<1>3. CASE ServerActs
  BY <1>1, <1>3, ServerMoves DEF BusyInv, browser
<1>4. CASE PageActs
  <2>1. PICK i \in Slots : Heard(i) /\ \A j \in Slots \ {i} : tasks'[j] = tasks[j]
    BY <1>4, PageMoves
  <2>2. CASE Unauthorized(i) \/ Failed(i)
    <3>1. pane'.busy = pane.busy \ {i}
      BY <1>1, <2>2 DEF Unauthorized, Failed, Freed, Panes
    <3>2. QED
      BY <1>1, <2>1, <3>1 DEF BusyInv
  <2>3. CASE StartEnds(i) \/ Shown(i)
    BY <2>3, PaneFields DEF BusyInv, StartEnds, PaneAfterStart, Shown
  <2>4. CASE pane' = pane /\ tasks[i].op \notin {"save", "create", "select"}
    BY <1>1, <2>1, <2>4 DEF BusyInv
  <2>5. CASE pane' = pane /\ tasks'[i].op \in {"save", "create", "select"}
    BY <1>1, <2>1, <2>5 DEF BusyInv
  <2>6. QED
    BY <2>1, <2>2, <2>3, <2>4, <2>5 DEF Heard, Booted, LoggedIn, LoggedOut, ConsumersLoaded,
       ReloadEnds, Written, ShowWritten, browser
<1>5. QED
  BY <1>2, <1>3, <1>4 DEF Next

LEMMA KeptUser == KeptInv /\ Typed /\ UserActs => KeptInv'
<1> SUFFICES ASSUME KeptInv, Typed, UserActs, kept' # Empty PROVE KeptInv'
  BY EmptyStays DEF KeptInv
<1>1. tasks \in [Slots -> Task]
  BY TypeParts DEF Typed
<1>2. UNCHANGED browser /\ \A j \in Slots : tasks'[j] = tasks[j] \/ Harmless(tasks'[j])
  <2>1. ASSUME NEW i \in Slots, NEW u \in Users, SubmitLogin(i, u)
        PROVE  UNCHANGED browser /\ \A j \in Slots : tasks'[j] = tasks[j] \/ Harmless(tasks'[j])
    BY <1>1, <2>1 DEF SubmitLogin, Begin, Asks, Harmless
  <2>2. ASSUME NEW i \in Slots, Recheck(i)
        PROVE  UNCHANGED browser /\ \A j \in Slots : tasks'[j] = tasks[j] \/ Harmless(tasks'[j])
    BY <1>1, <2>2 DEF Recheck, Begin, Asks, Harmless
  <2>3. ~ Click
    BY DEF Click
  <2>4. QED
    BY <2>1, <2>2, <2>3 DEF UserActs, ClickEdit, ClickNew, ClickCancel, TypeIntoForm, ClickLogout,
       ClickSave, ChooseTag, SelectSecret, ClickCreate
<1>3. QED
  BY <1>2, EmptyStays DEF KeptInv, browser, Harmless

\* The 401 that interrupts a form, or finds one interrupted.
LEMMA KeptUnauthorized ==
  ASSUME KeptInv, BusyInv, Typed, NEW i \in Slots, Unauthorized(i), tasks' = [tasks EXCEPT ![i] = Idle]
  PROVE  KeptInv'
<1>1. tasks \in [Slots -> Task] /\ pane \in Panes /\ pane.busy \subseteq Slots
  BY TypeParts DEF Typed, Proper, Panes
<1>2. tasks'[i] = Idle /\ \A j \in Slots \ {i} : tasks'[j] = tasks[j]
  BY <1>1
<1>3. /\ view' = "login" /\ started' = started /\ resume' = Resumable(resume)
      /\ pane' = Freed(i, pane)
      /\ kept' = IF Interrupts /\ OnlyHandler(i) THEN pane' ELSE kept
  BY DEF Unauthorized
<1>4. pane'.busy = pane.busy \ {i}
  BY <1>1, <1>3 DEF Freed, Panes
<1>5. CASE Interrupts /\ OnlyHandler(i)
  <2>1. \A j \in Slots \ {i} : Harmless(tasks[j])
    BY <1>1, <1>5 DEF OnlyHandler, Renders, Harmless, Task, Ops
  <2>2. pane'.busy = {}
    BY <1>1, <1>4, <2>1 DEF BusyInv, Harmless
  <2>3. started' /\ resume'
    BY <1>3, <1>5 DEF Interrupts, Resumable
  <2>4. QED
    BY <1>2, <1>3, <1>5, <2>1, <2>2, <2>3, IdleFields DEF KeptInv, Harmless
<1>6. CASE ~ (Interrupts /\ OnlyHandler(i)) /\ kept # Empty
  <2>1. pane' = pane
    BY <1>1, <1>3, <1>6 DEF KeptInv, Freed, Panes
  <2>2. resume'
    BY <1>3, <1>6 DEF KeptInv, Resumable, Interrupts
  <2>3. QED
    BY <1>2, <1>3, <1>6, <2>1, <2>2, IdleFields DEF KeptInv, Harmless
<1>7. CASE ~ (Interrupts /\ OnlyHandler(i)) /\ kept = Empty
  BY <1>3, <1>7, EmptyStays DEF KeptInv
<1>8. QED
  BY <1>5, <1>6, <1>7

LEMMA KeptPage == KeptInv /\ BusyInv /\ Typed /\ PageActs => KeptInv'
<1> SUFFICES ASSUME KeptInv, BusyInv, Typed, NEW i \in Slots, Heard(i),
                    \A j \in Slots \ {i} : tasks'[j] = tasks[j]
             PROVE  KeptInv'
  BY PageMoves
<1>1. tasks \in [Slots -> Task] /\ pane \in Panes
  BY TypeParts DEF Typed, Proper
<1>2. CASE Unauthorized(i) /\ tasks' = [tasks EXCEPT ![i] = Idle]
  BY <1>2, KeptUnauthorized
<1>3. CASE kept' = Empty
  BY <1>3, EmptyStays DEF KeptInv
<1>4. ASSUME kept # Empty, kept' = kept, pane' = pane, started' = started,
             (view' = view /\ resume' = resume) \/ view' = "app", Harmless(tasks'[i])
      PROVE  KeptInv'
  BY <1>4, EmptyStays DEF KeptInv, Harmless
<1>5. kept # Empty => Harmless(tasks[i])
  BY DEF KeptInv, Harmless
<1>6. CASE Failed(i) /\ tasks' = [tasks EXCEPT ![i] = Idle] /\ kept' # Empty
  <2>1. kept' = kept /\ kept # Empty
    BY <1>6, EmptyStays DEF Failed
  <2>2. pane' = pane
    BY <1>1, <1>6, <2>1 DEF KeptInv, Failed, Freed, Panes
  <2>3. QED
    BY <1>1, <1>4, <1>5, <1>6, <2>1, <2>2, IdleFields DEF Failed, Harmless
<1>7. CASE LoggedIn(i) /\ kept' # Empty
  <2>1. kept' = kept /\ kept # Empty /\ tasks[i].by = resumeUser /\ view = "login"
    BY <1>7, EmptyStays DEF LoggedIn
  <2>2. resume
    BY <2>1 DEF KeptInv
  <2>3. tasks'[i].op = "resume" /\ view' = "app" /\ started' = started /\ pane' = pane
    BY <1>1, <1>7, <2>1, <2>2 DEF LoggedIn, StartSession, Awaits, Task
  <2>4. QED
    BY <1>4, <2>1, <2>3 DEF Harmless
<1>8. CASE LoggedOut(i) \/ Shown(i)
  BY <1>3, <1>8, EmptyStays DEF LoggedOut, Shown
<1>9. CASE \/ ConsumersLoaded(i) /\ tasks'[i].op = tasks[i].op
           \/ ReloadEnds(i) /\ tasks' = [tasks EXCEPT ![i] = Idle]
  <2>1. UNCHANGED browser
    BY <1>9 DEF ConsumersLoaded, ReloadEnds
  <2>2. kept # Empty => Harmless(tasks'[i])
    BY <1>1, <1>5, <1>9, IdleFields DEF Harmless
  <2>3. QED
    BY <1>3, <1>4, <2>1, <2>2 DEF browser
<1>10. CASE \/ Booted(i) /\ tasks[i].op = "boot"
            \/ StartEnds(i) /\ tasks[i].op \in {"boot", "start"}
            \/ Written(i) /\ tasks[i].op \in {"save", "create"}
            \/ ShowWritten(i) /\ tasks[i].op \in {"save", "create"}
  <2>1. kept = Empty
    BY <1>5, <1>10 DEF Harmless
  <2>2. kept' = kept
    BY <1>10 DEF Booted, StartEnds, Written, ShowWritten, browser
  <2>3. QED
    BY <1>3, <2>1, <2>2
<1>11. QED
  BY <1>2, <1>3, <1>6, <1>7, <1>8, <1>9, <1>10, EmptyStays DEF Heard

LEMMA KeptStep == KeptInv /\ BusyInv /\ Typed /\ Next => KeptInv'
<1>1. KeptInv /\ Typed /\ ServerActs => KeptInv'
  BY ServerMoves, EmptyStays DEF KeptInv, Harmless, browser
<1>2. QED
  BY <1>1, KeptUser, KeptPage DEF Next

-----------------------------------------------------------------------------
\* The theorems.

PageInv == Typed /\ BootInv /\ FormInv /\ BusyInv /\ KeptInv

LEMMA PageStart == Init => PageInv
<1> SUFFICES ASSUME Init PROVE PageInv
  OBVIOUS
<1>1. Typed
  BY TypedStart
<1>2. PICK i \in Slots : tasks = [j \in Slots |-> IF j = i THEN Asks("boot", "session") ELSE Idle]
  BY DEF Init
<1>3. BootInv
  BY <1>2, IdleFields DEF Init, BootInv
<1>4. FormInv /\ BusyInv /\ KeptInv
  BY PaneFields DEF Init, FormInv, OwnForm, BusyInv, KeptInv
<1>5. QED
  BY <1>1, <1>3, <1>4 DEF PageInv

LEMMA PageStep == PageInv /\ [Next]_vars => PageInv'
<1> SUFFICES ASSUME PageInv, [Next]_vars PROVE PageInv'
  OBVIOUS
<1>1. CASE Next
  <2>1. Typed'
    BY <1>1, TypedUser, TypedServer, TypedPage DEF PageInv, Next
  <2>2. QED
    BY <1>1, <2>1, BootStep, FormStep, BusyStep, KeptStep DEF PageInv
<1>2. CASE UNCHANGED vars
  BY <1>2, EmptyStays, IdleFields DEF vars, browser, PageInv, Typed, TypeOK, TaskInv, NamedInv, BootInv,
     FormInv, OwnForm, BusyInv, KeptInv
<1>3. QED
  BY <1>1, <1>2

\* The page, the server and the handlers keep to their types, for any number of users,
\* secrets, handlers, sessions and failures.
THEOREM UiTypeCorrect == Spec => []TypeOK
  BY PageStart, PageStep, PTL DEF Spec, PageInv, Typed

\* Once the page has started for a user, the form on screen is of nobody else, whatever
\* answers of the session before come late.
THEOREM UiOwnForm == Spec => []OwnForm
  BY PageStart, PageStep, PTL DEF Spec, PageInv, FormInv

\* A form that a 401 interrupts survives any further 401s, failures and attempts to log
\* in, until its user is back.
THEOREM UiEditKept == Spec => []EditKept
<1>1. KeptInv => EditKept
  BY DEF KeptInv, EditKept
<1>2. QED
  BY <1>1, PageStart, PageStep, PTL DEF Spec, PageInv
=============================================================================
