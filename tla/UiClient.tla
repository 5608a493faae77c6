------------------------------ MODULE UiClient ------------------------------
(***************************************************************************)
(* One tab of the browser UI (src/ui/public/app.js) and the server it      *)
(* talks to (src/ui/routes.ts), as far as the tab can tell.                *)
(*                                                                         *)
(* A handler of the page runs to its next await; what it awaits is always  *)
(* one request.  A task is a handler that waits: for which request, sent   *)
(* with which cookie, and with what it remembers.  The server answers the  *)
(* requests of different tasks in any order, and the answers arrive in any *)
(* order: a user may click, or the session may die, between any two.       *)
(***************************************************************************)
EXTENDS Naturals, Sequences, FiniteSets

CONSTANTS
  Users,        \* users of the UI
  Nobody,       \* no user
  Names,        \* names a secret may have
  NoName,       \* no secret
  Slots,        \* bound: handlers that wait at a time
  MaxSessions,  \* bound: logins that succeed
  MaxClicks,    \* bound: what the users do
  MaxFaults,    \* bound: requests that fail
  MaxVersion    \* bound: versions and creations of a secret

ASSUME UiClientAssumption ==
  /\ Nobody \notin Users
  /\ NoName \notin Names
  /\ MaxSessions \in Nat \ {0} /\ MaxClicks \in Nat /\ MaxFaults \in Nat /\ MaxVersion \in Nat

VARIABLES
  stored,     \* stored[n]: which row has the name n, and its version
  sessions,   \* sessions[t]: the user of session t
  alive,      \* sessions the server accepts
  cookie,     \* the session in the browser's cookie, 0 for none
  view,       \* the section that is not hidden
  who,        \* #session-user
  started,    \* state.started
  resume,     \* state.resume
  resumeUser, \* state.resumeUser
  selected,   \* state.selected
  pane,       \* #detail: what it shows, and who typed into its form
  tasks,      \* tasks[i]: the handler that waits in slot i
  kept,       \* ghost: the form a 401 interrupted
  clicks,     \* ghost: what the users did so far
  faults      \* ghost: failures so far

browser == <<cookie, view, who, started, resume, resumeUser, selected, pane, kept>>
vars == <<stored, sessions, alive, browser, tasks, clicks, faults>>

----------------------------------------------------------------------------

Row == [born : 0 .. MaxVersion, version : 0 .. MaxVersion]

IsStored(r) == r.version > 0

NoRow == [born |-> 0, version |-> 0]

Panes == [kind : {"empty", "detail", "edit", "new"}, name : Names \cup {NoName},
          row : Row, by : Users \cup {Nobody}, busy : SUBSET Slots]

\* showEmpty, renderDetail, renderEdit and renderNew.
Empty == [kind |-> "empty", name |-> NoName, row |-> NoRow, by |-> Nobody, busy |-> {}]

Detail_Uncleared(n, r) == [pane EXCEPT !.kind = "detail", !.name = n, !.row = r]

Detail(n, r) == [Empty EXCEPT !.kind = "detail", !.name = n, !.row = r]

Edit(n, r) == [Detail(n, r) EXCEPT !.kind = "edit"]

New == [Empty EXCEPT !.kind = "new"]

IsForm(p) == p.kind \in {"edit", "new"}

Ops == {"idle", "boot", "login", "logout", "start", "resume", "select", "save",
        "create", "refresh", "recheck"}

Requests == {"none", "session", "login", "logout", "consumers", "list", "get", "put", "post"}

Task == [op : Ops, req : Requests, as : 0 .. MaxSessions, reply : {"awaited", "ok", "401", "failed"},
         name : Names \cup {NoName}, row : Row, prev : Names \cup {NoName},
         by : Users \cup {Nobody}]

\* A handler that awaits its first request, sent with the cookie of the moment.
Asks(op, req) ==
  [op |-> op, req |-> req, as |-> cookie, reply |-> "awaited",
   name |-> NoName, row |-> NoRow, prev |-> NoName, by |-> Nobody]

Idle == [Asks("idle", "none") EXCEPT !.as = 0]

Begin(i, t) == tasks[i] = Idle /\ tasks' = [tasks EXCEPT ![i] = t]

Finish(i) == tasks' = [tasks EXCEPT ![i] = Idle]

\* The next request of handler i, with the cookie c of that moment.
Awaits(i, op, req, c) ==
  tasks' = [tasks EXCEPT ![i].op = op, ![i].req = req, ![i].as = c, ![i].reply = "awaited"]

\* The page is loaded, with a cookie or without; boot asks for the session.
Init ==
  /\ stored = [n \in Names |-> NoRow]
  /\ sessions \in {<< >>} \cup {<<u>> : u \in Users}
  /\ alive = 1 .. Len(sessions)
  /\ cookie = Len(sessions)
  /\ view = "none"
  /\ who = Nobody
  /\ started = FALSE /\ resume = FALSE /\ resumeUser = Nobody
  /\ selected = NoName
  /\ pane = Empty
  /\ \E i \in Slots :
       tasks = [j \in Slots |-> IF j = i THEN Asks("boot", "session") ELSE Idle]
  /\ kept = Empty
  /\ clicks = 0 /\ faults = 0

----------------------------------------------------------------------------
\* What a user does.

Click ==
  /\ clicks < MaxClicks
  /\ clicks' = clicks + 1
  /\ kept' = Empty
  /\ UNCHANGED <<stored, sessions, alive, cookie, view, who, started, resume, resumeUser, faults>>

SubmitLogin(i, u) ==
  /\ clicks < MaxClicks
  /\ clicks' = clicks + 1
  /\ view = "login"
  /\ Begin(i, [Asks("login", "login") EXCEPT !.by = u])
  /\ UNCHANGED <<stored, sessions, alive, browser, faults>>

ClickLogout(i) ==
  /\ Click
  /\ view = "app"
  /\ Begin(i, Asks("logout", "logout"))
  /\ UNCHANGED <<selected, pane>>

\* selectSecret, of a list that may be old: the highlight moves before the answer.
SelectSecret(i, n) ==
  /\ Click
  /\ view = "app"
  /\ Begin(i, [Asks("select", "get") EXCEPT !.name = n, !.prev = selected])
  /\ selected' = n
  /\ UNCHANGED pane

ClickEdit ==
  /\ Click
  /\ view = "app" /\ pane.kind = "detail"
  /\ pane' = Edit(pane.name, pane.row)
  /\ UNCHANGED <<selected, tasks>>

ClickNew ==
  /\ Click
  /\ view = "app"
  /\ pane' = New
  /\ selected' = NoName
  /\ UNCHANGED tasks

ClickCancel ==
  /\ Click
  /\ view = "app"
  /\ \/ pane.kind = "edit" /\ pane' = Detail(pane.name, pane.row) /\ UNCHANGED selected
     \/ pane.kind = "new" /\ pane' = Empty /\ selected' = NoName
  /\ UNCHANGED tasks

TypeIntoForm ==
  /\ Click
  /\ view = "app" /\ IsForm(pane) /\ pane.by = Nobody
  /\ pane' = [pane EXCEPT !.by = who]
  /\ UNCHANGED <<selected, tasks>>

\* saveExisting: the version the form was made from goes with it.
ClickSave(i) ==
  /\ Click
  /\ view = "app" /\ pane.kind = "edit" /\ pane.busy = {}
  /\ Begin(i, [Asks("save", "put") EXCEPT !.name = pane.name, !.row = pane.row, !.by = pane.by])
  /\ pane' = [pane EXCEPT !.busy = {i}]
  /\ UNCHANGED selected

\* createSecret: a name and a value are required.
ClickCreate(i, n) ==
  /\ Click
  /\ view = "app" /\ pane.kind = "new" /\ pane.by # Nobody /\ pane.busy = {}
  /\ Begin(i, [Asks("create", "post") EXCEPT !.name = n, !.by = pane.by])
  /\ pane' = [pane EXCEPT !.busy = {i}]
  /\ UNCHANGED selected

ChooseTag(i) ==
  /\ Click
  /\ view = "app"
  /\ Begin(i, Asks("refresh", "list"))
  /\ UNCHANGED <<selected, pane>>

\* recheckSession, when the tab comes back into view.
Recheck(i) ==
  /\ clicks < MaxClicks
  /\ clicks' = clicks + 1
  /\ view = "app"
  /\ Begin(i, Asks("recheck", "session"))
  /\ UNCHANGED <<stored, sessions, alive, browser, faults>>

----------------------------------------------------------------------------
\* The server.

Accepts(i) == tasks[i].as \in alive

Replies(i, code) == tasks' = [tasks EXCEPT ![i].reply = code]

Awaited(i, req) == tasks[i].req = req /\ tasks[i].reply = "awaited"

\* The password is right; a wrong one is a failure like any other.
ServeLogin(i) ==
  /\ Awaited(i, "login")
  /\ Len(sessions) < MaxSessions
  /\ sessions' = Append(sessions, tasks[i].by)
  /\ alive' = alive \cup {Len(sessions) + 1}
  /\ tasks' = [tasks EXCEPT ![i].reply = "ok", ![i].as = Len(sessions) + 1]
  /\ UNCHANGED <<stored, browser, clicks, faults>>

ServeLogout(i) ==
  /\ Awaited(i, "logout")
  /\ alive' = alive \ {tasks[i].as}
  /\ Replies(i, "ok")
  /\ UNCHANGED <<stored, sessions, browser, clicks, faults>>

\* The gate of every other route.
ServeRefusal(i) ==
  /\ tasks[i].reply = "awaited" /\ tasks[i].req \notin {"none", "login", "logout"}
  /\ ~ Accepts(i)
  /\ Replies(i, "401")
  /\ UNCHANGED <<stored, sessions, alive, browser, clicks, faults>>

ServeQuery(i) ==
  /\ \E req \in {"session", "consumers", "list"} : Awaited(i, req)
  /\ Accepts(i)
  /\ Replies(i, "ok")
  /\ UNCHANGED <<stored, sessions, alive, browser, clicks, faults>>

ServeGet(i) ==
  /\ Awaited(i, "get")
  /\ Accepts(i)
  /\ IF IsStored(stored[tasks[i].name])
     THEN tasks' = [tasks EXCEPT ![i].reply = "ok", ![i].row = stored[tasks[i].name]]
     ELSE Replies(i, "failed")
  /\ UNCHANGED <<stored, sessions, alive, browser, clicks, faults>>

\* POST: a name that is taken is a conflict.
Created(r) == IF IsStored(r) THEN r ELSE [born |-> r.born + 1, version |-> 1]

ServePost(i) ==
  /\ Awaited(i, "post")
  /\ Accepts(i)
  /\ stored[tasks[i].name].born < MaxVersion
  /\ Replies(i, IF IsStored(stored[tasks[i].name]) THEN "failed" ELSE "ok")
  /\ stored' = [stored EXCEPT ![tasks[i].name] = Created(@)]
  /\ UNCHANGED <<sessions, alive, browser, clicks, faults>>

IsCurrent_Unchecked(r, expected) == IsStored(r)

\* expected_version.
IsCurrent(r, expected) == IsStored(r) /\ r.version = expected

\* PUT of a form; only a new value makes a new version.
ServePut(i, newValue) ==
  /\ Awaited(i, "put")
  /\ Accepts(i)
  /\ newValue => tasks[i].by # Nobody /\ stored[tasks[i].name].version < MaxVersion
  /\ IF IsCurrent(stored[tasks[i].name], tasks[i].row.version)
     THEN /\ Replies(i, "ok")
          /\ stored' = [stored EXCEPT ![tasks[i].name].version = @ + (IF newValue THEN 1 ELSE 0)]
     ELSE Replies(i, "failed") /\ UNCHANGED stored
  /\ UNCHANGED <<sessions, alive, browser, clicks, faults>>

\* The request fails, before the server has done what it asked for or after that.
Break(i) ==
  /\ faults < MaxFaults
  /\ faults' = faults + 1
  /\ tasks[i] # Idle /\ tasks[i].reply \in {"awaited", "ok"}
  /\ Replies(i, "failed")
  /\ UNCHANGED <<stored, sessions, alive, browser, clicks>>

\* A session ends by its time limits or elsewhere.
EndSession(t) ==
  /\ t \in alive
  /\ faults < MaxFaults
  /\ faults' = faults + 1
  /\ alive' = alive \ {t}
  /\ UNCHANGED <<stored, sessions, browser, tasks, clicks>>

----------------------------------------------------------------------------
\* The answers arrive.

Arrives(i, code) ==
  /\ tasks[i].reply = code
  /\ UNCHANGED <<stored, sessions, alive, clicks, faults>>

\* The button of the form that handler i has saved works again, if it is still there.
Freed(i, p) == [p EXCEPT !.busy = @ \ {i}]

\* Handlers that may replace the pane when they go on.
Renders(t) == t.op \in {"boot", "login", "logout", "start", "select", "save", "create"}

OnlyHandler(i) == \A j \in Slots \ {i} : ~ Renders(tasks[j])

Interrupts == view = "app" /\ started

Resumable_Assigned(old) == Interrupts

\* A second 401, with the login on screen, must not undo the first.
Resumable(old) == Interrupts \/ old

\* api(), for a 401: whatever handler it was, the login comes up.
Unauthorized(i) ==
  /\ Arrives(i, "401")
  /\ resume' = Resumable(resume)
  /\ resumeUser' = IF Interrupts THEN who ELSE resumeUser
  /\ view' = "login"
  /\ selected' = IF tasks[i].op = "select" THEN tasks[i].prev ELSE selected
  /\ pane' = Freed(i, pane)
  /\ kept' = IF Interrupts /\ OnlyHandler(i) THEN pane' ELSE kept
  /\ Finish(i)
  /\ UNCHANGED <<cookie, who, started>>

\* Any other failure is shown somewhere and changes nothing, but that boot falls
\* back to the login, also when it is its start that fails.
Failed(i) ==
  /\ Arrives(i, "failed")
  /\ view' = IF tasks[i].op = "boot" THEN "login" ELSE view
  /\ pane' = Freed(i, pane)
  /\ Finish(i)
  /\ UNCHANGED <<cookie, who, started, resume, resumeUser, selected, kept>>

\* The first steps of start and of resumeSession.
StartSession(i, u, op, c) ==
  /\ view' = "app"
  /\ who' = u
  /\ Awaits(i, op, "consumers", c)

Booted(i) ==
  /\ Arrives(i, "ok")
  /\ tasks[i].op = "boot" /\ tasks[i].req = "session"
  /\ StartSession(i, sessions[tasks[i].as], "boot", cookie)
  /\ UNCHANGED <<cookie, started, resume, resumeUser, selected, pane, kept>>

LoggedIn(i) ==
  /\ Arrives(i, "ok")
  /\ tasks[i].op = "login"
  /\ cookie' = tasks[i].as
  /\ resume' = FALSE
  /\ IF resume /\ tasks[i].by = resumeUser
     THEN StartSession(i, tasks[i].by, "resume", cookie') /\ UNCHANGED started
     ELSE StartSession(i, tasks[i].by, "start", cookie') /\ started' = FALSE
  /\ kept' = IF tasks[i].by = resumeUser /\ view = "login" THEN kept ELSE Empty
  /\ UNCHANGED <<resumeUser, selected, pane>>

\* The pane is left as it is.
LoggedOut(i) ==
  /\ Arrives(i, "ok")
  /\ tasks[i].op = "logout"
  /\ cookie' = 0
  /\ view' = "login"
  /\ selected' = NoName
  /\ resume' = FALSE
  /\ kept' = Empty
  /\ Finish(i)
  /\ UNCHANGED <<who, started, resumeUser, pane>>

ConsumersLoaded(i) ==
  /\ Arrives(i, "ok")
  /\ tasks[i].req = "consumers"
  /\ Awaits(i, tasks[i].op, "list", cookie)
  /\ UNCHANGED browser

PaneAfterStart_Kept == pane

\* start ends with showEmpty.
PaneAfterStart == Empty

StartEnds(i) ==
  /\ Arrives(i, "ok")
  /\ tasks[i].op \in {"boot", "start"} /\ tasks[i].req = "list"
  /\ pane' = PaneAfterStart
  /\ selected' = NoName
  /\ started' = TRUE
  /\ Finish(i)
  /\ UNCHANGED <<cookie, view, who, resume, resumeUser, kept>>

\* resumeSession, a tag or a recheck: the pane is left alone.
ReloadEnds(i) ==
  /\ Arrives(i, "ok")
  /\ \/ tasks[i].op \in {"resume", "refresh"} /\ tasks[i].req = "list"
     \/ tasks[i].op = "recheck"
  /\ Finish(i)
  /\ UNCHANGED browser

\* A write that succeeded: the list again, and then the secret itself.
Written(i) ==
  /\ Arrives(i, "ok")
  /\ tasks[i].req \in {"put", "post"}
  /\ Awaits(i, tasks[i].op, "list", cookie)
  /\ UNCHANGED browser

ShowWritten(i) ==
  /\ Arrives(i, "ok")
  /\ tasks[i].op \in {"save", "create"} /\ tasks[i].req = "list"
  /\ tasks' = [tasks EXCEPT ![i] = [Asks("select", "get") EXCEPT
                              !.name = tasks[i].name, !.prev = selected]]
  /\ selected' = tasks[i].name
  /\ UNCHANGED <<cookie, view, who, started, resume, resumeUser, pane, kept>>

\* The answer is rendered whatever is selected, or open, by now.
Shown(i) ==
  /\ Arrives(i, "ok")
  /\ tasks[i].req = "get"
  /\ pane' = Detail(tasks[i].name, tasks[i].row)
  /\ kept' = Empty
  /\ Finish(i)
  /\ UNCHANGED <<cookie, view, who, started, resume, resumeUser, selected>>

----------------------------------------------------------------------------

UserActs ==
  \/ ClickEdit \/ ClickNew \/ ClickCancel \/ TypeIntoForm
  \/ \E i \in Slots :
       \/ ClickLogout(i) \/ ClickSave(i) \/ ChooseTag(i) \/ Recheck(i)
       \/ \E u \in Users : SubmitLogin(i, u)
       \/ \E n \in Names : SelectSecret(i, n) \/ ClickCreate(i, n)

ServerActs ==
  \/ \E t \in 1 .. MaxSessions : EndSession(t)
  \/ \E i \in Slots :
       \/ ServeLogin(i) \/ ServeLogout(i) \/ ServeRefusal(i) \/ ServeQuery(i)
       \/ ServeGet(i) \/ ServePost(i) \/ Break(i)
       \/ \E newValue \in BOOLEAN : ServePut(i, newValue)

PageActs ==
  \E i \in Slots :
    \/ Unauthorized(i) \/ Failed(i) \/ Booted(i) \/ LoggedIn(i) \/ LoggedOut(i)
    \/ ConsumersLoaded(i) \/ StartEnds(i) \/ ReloadEnds(i)
    \/ Written(i) \/ ShowWritten(i) \/ Shown(i)

Next == UserActs \/ ServerActs \/ PageActs

Spec == Init /\ [][Next]_vars
----------------------------------------------------------------------------
TypeOK ==
  /\ stored \in [Names -> Row]
  /\ sessions \in Seq(Users) /\ Len(sessions) <= MaxSessions
  /\ alive \subseteq 1 .. Len(sessions)
  /\ cookie \in 0 .. Len(sessions)
  /\ view \in {"none", "login", "app"}
  /\ {who, resumeUser} \subseteq Users \cup {Nobody}
  /\ {started, resume} \subseteq BOOLEAN
  /\ selected \in Names \cup {NoName}
  /\ {pane, kept} \subseteq Panes
  /\ \A p \in {pane, kept} : ~ IsForm(p) => p.by = Nobody /\ p.busy = {}
  /\ tasks \in [Slots -> Task]
  /\ clicks \in Nat /\ faults \in Nat

\* Once the page has started for a user, no form on screen holds what another user
\* typed, whatever answers were under way when the first session ended.
OwnForm == view = "app" /\ started => pane.by \in {who, Nobody}

\* The comment on the login handler: whoever logs in sees nothing the session before typed.
StartsClean == view = "app" => pane.by \in {who, Nobody}

\* A form that a 401 interrupts, with nothing else under way, is still there when the
\* same user is back, after any further 401s and failed attempts.
EditKept == kept # Empty => pane = kept
=============================================================================
