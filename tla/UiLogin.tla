------------------------------ MODULE UiLogin -------------------------------
(***************************************************************************)
(* The password login and the sessions of the browser UI                   *)
(* (src/ui/routes.ts, src/ui/session.ts, src/ui/credentials.ts) with the   *)
(* lockout of src/core/lockout.ts.                                         *)
(*                                                                         *)
(* A login asks the lockout first, then awaits the hash of the password,   *)
(* then records a failure or clears the record and makes a session: other  *)
(* requests run while it waits.  Everything else is one step.  Sessions    *)
(* are rows of the database and outlive the process; the lockout is in     *)
(* its memory.                                                             *)
(***************************************************************************)
EXTENDS Lockout, FiniteSets

CONSTANTS
  Ips,          \* source addresses
  Requests,     \* bound: logins that can be waiting for the hash at one time
  Tokens,       \* bound: session tokens that can be minted
  Ttls,         \* settings a start of the server may have: [absolute, idle], 0 is off
  MaxTime,      \* bound: the clock
  MaxRestarts   \* bound: restarts of the server

ASSUME UiLoginAssumption ==
  /\ Window <= LockoutTime
  /\ IsFiniteSet(Requests)
  /\ Ttls \subseteq [absolute : Nat, idle : Nat]
  /\ MaxTime \in Nat
  /\ MaxRestarts \in Nat

VARIABLES
  now,         \* the clock
  configured,  \* a UI password is set
  buckets,     \* buckets[ip]: the lockout entry of ip in scope 'ui'
  calls,       \* calls[r]: the login that waits for its hash
  sessions,    \* sessions[t]: the row of ui_sessions with the hash of t
  ttls,        \* the settings of the running server
  fails,       \* ghost: fails[ip]: the failures of the last window, since a success or a restart
  issue,       \* ghost: issue[t]: when t was minted and under which ceiling
  over,        \* ghost: over[t]: how t came to be refused
  restarts     \* ghost: restarts of the server

vars == <<now, configured, buckets, calls, sessions, ttls, fails, issue, over, restarts>>

lockoutVars == <<buckets, fails>>
sessionVars == <<sessions, issue, over>>

----------------------------------------------------------------------------

Times == 0 .. MaxTime

NoCall == [ip |-> "none", ok |-> FALSE, since |-> 0]

Calls == [ip : Ips, ok : BOOLEAN, since : Times] \cup {NoCall}

\* The sentinel of a session with no ceiling lies after every moment.
Never == MaxTime + 1

NoSession == [expires |-> 0, seen |-> 0]

Unissued == [at |-> MaxTime + 1, ceiling |-> 0]

\* A failure in a set of them: its time, and its number among them.
Marks == Times \X Nat

Marked(S) == S \cup {<<now, Cardinality(S) + 1>>}

Init ==
  /\ now = 0
  /\ configured \in BOOLEAN
  /\ buckets = [ip \in Ips |-> NoEntry]
  /\ calls = [r \in Requests |-> NoCall]
  /\ sessions = [t \in Tokens |-> NoSession]
  /\ ttls \in Ttls
  /\ fails = [ip \in Ips |-> {}]
  /\ issue = [t \in Tokens |-> Unissued]
  /\ over = [t \in Tokens |-> "no"]
  /\ restarts = 0

----------------------------------------------------------------------------
\* POST /login.

Refuses_Never(ip) == FALSE

\* The lockout answers 429 before the password is looked at.
Refuses(ip) == IsLocked(buckets[ip], now)

\* The gate of a login: what is left of the entry when it is let through.
Admit(ip) ==
  /\ configured
  /\ ~ Refuses(ip)
  /\ buckets' = [buckets EXCEPT ![ip] = AfterCheck(@, now)]

\* The stored hash is read before the await, so what the wait will say is settled here.
StartLogin(r, ip, ok) ==
  /\ calls[r] = NoCall
  /\ Admit(ip)
  /\ calls' = [calls EXCEPT ![r] = [ip |-> ip, ok |-> ok, since |-> now]]
  /\ UNCHANGED <<now, configured, fails, sessionVars, ttls, restarts>>

Counted(ip) == fails' = [fails EXCEPT ![ip] = Marked(@)]

\* A missing user or password fails without an await.
EmptyLogin(ip) ==
  /\ configured
  /\ ~ Refuses(ip)
  /\ buckets' = [buckets EXCEPT ![ip] = AfterFailure(AfterCheck(@, now), now)]
  /\ Counted(ip)
  /\ UNCHANGED <<now, configured, calls, sessionVars, ttls, restarts>>

RejectLogin(r) ==
  /\ calls[r] # NoCall /\ ~ calls[r].ok
  /\ LET ip == calls[r].ip
     IN  /\ buckets' = [buckets EXCEPT ![ip] = AfterFailure(@, now)]
         /\ Counted(ip)
  /\ calls' = [calls EXCEPT ![r] = NoCall]
  /\ UNCHANGED <<now, configured, sessionVars, ttls, restarts>>

ExpiresAt_NoSentinel(t) == t + ttls.absolute

\* No ceiling: the far-future sentinel, which no sweep reaches.
ExpiresAt(t) == IF ttls.absolute > 0 THEN t + ttls.absolute ELSE Never

Expired(row) == now >= row.expires

\* Minting a token sweeps the rows past their ceiling first.
Minted(t) ==
  [s \in Tokens |->
     IF s = t THEN [expires |-> ExpiresAt(now), seen |-> now]
     ELSE IF Expired(sessions[s]) THEN NoSession
     ELSE sessions[s]]

\* clearFailures.
Cleared(ip) == [buckets EXCEPT ![ip] = NoEntry]

AcceptLogin(r) ==
  /\ calls[r] # NoCall /\ calls[r].ok
  /\ buckets' = Cleared(calls[r].ip)
  /\ fails' = [fails EXCEPT ![calls[r].ip] = {}]
  /\ \E t \in Tokens :
       /\ issue[t] = Unissued
       /\ sessions' = Minted(t)
       /\ issue' = [issue EXCEPT ![t] = [at |-> now, ceiling |-> ttls.absolute]]
  /\ calls' = [calls EXCEPT ![r] = NoCall]
  /\ UNCHANGED <<now, configured, ttls, over, restarts>>

----------------------------------------------------------------------------
\* A gated request, and POST /logout.

IsIdle(row) == ttls.idle > 0 /\ now - row.seen >= ttls.idle

Touched_Sliding(row) == [expires |-> ExpiresAt(now), seen |-> now]

Touched_Deadline(row) == [row EXCEPT !.seen = now + ttls.idle]

Touched(row) == [row EXCEPT !.seen = now]

AfterRejection_Kept(t) == sessions

\* A row that is found past a rule is deleted on the spot.
AfterRejection(t) == [sessions EXCEPT ![t] = NoSession]

\* inspectSession for a token that was minted; any other is refused and changes nothing.
Inspect(t) ==
  /\ issue[t] # Unissued
  /\ LET row == sessions[t]
         live == row # NoSession /\ ~ Expired(row) /\ ~ IsIdle(row)
     IN  \/ /\ live
            /\ sessions' = [sessions EXCEPT ![t] = Touched(row)]
            /\ UNCHANGED over
         \/ /\ ~ live
            /\ sessions' = AfterRejection(t)
            /\ over' = [over EXCEPT ![t] = IF @ = "no" THEN "refused" ELSE @]
  /\ UNCHANGED <<now, configured, lockoutVars, calls, ttls, issue, restarts>>

Logout(t) ==
  /\ issue[t] # Unissued
  /\ sessions' = [sessions EXCEPT ![t] = NoSession]
  /\ over' = [over EXCEPT ![t] = "logout"]
  /\ UNCHANGED <<now, configured, lockoutVars, calls, ttls, issue, restarts>>

----------------------------------------------------------------------------
\* `gateway ui set-password` in another process.
SetPassword ==
  /\ ~ configured
  /\ configured' = TRUE
  /\ UNCHANGED <<now, lockoutVars, calls, sessionVars, ttls, restarts>>

\* The server stops and starts, maybe with other settings: logins in flight and
\* the lockout are lost, sessions are kept.
Restart ==
  /\ restarts < MaxRestarts
  /\ restarts' = restarts + 1
  /\ ttls' \in Ttls
  /\ calls' = [r \in Requests |-> NoCall]
  /\ buckets' = [ip \in Ips |-> NoEntry]
  /\ fails' = [ip \in Ips |-> {}]
  /\ UNCHANGED <<now, configured, sessionVars>>

\* The ghost forgets what is a window old.
Tick ==
  /\ now < MaxTime
  /\ now' = now + 1
  /\ fails' = [ip \in Ips |-> {m \in fails[ip] : m[1] + Window > now + 1}]
  /\ UNCHANGED <<configured, buckets, calls, sessionVars, ttls, restarts>>

Next ==
  \/ \E ip \in Ips :
       \/ EmptyLogin(ip)
       \/ \E r \in Requests, ok \in BOOLEAN : StartLogin(r, ip, ok)
  \/ \E r \in Requests : RejectLogin(r) \/ AcceptLogin(r)
  \/ \E t \in Tokens : Inspect(t) \/ Logout(t)
  \/ SetPassword
  \/ Restart
  \/ Tick

Spec == Init /\ [][Next]_vars
----------------------------------------------------------------------------
TypeOK ==
  /\ now \in Times
  /\ configured \in BOOLEAN
  /\ buckets \in [Ips -> Entry]
  /\ calls \in [Requests -> Calls]
  /\ sessions \in [Tokens -> [expires : Nat, seen : Times]]
  /\ ttls \in Ttls
  /\ fails \in [Ips -> SUBSET Marks] /\ \A ip \in Ips : IsFiniteSet(fails[ip])
  /\ issue \in [Tokens -> [at : 0 .. MaxTime + 1, ceiling : Nat]]
  /\ over \in [Tokens -> {"no", "logout", "refused"}]
  /\ restarts \in Nat

\* A lockout of an address lasts until its time has come.  Only a login that had
\* passed the gate before the lockout began can end it earlier, by succeeding, or
\* the server being started again.
LockoutHolds ==
  [][\A ip \in Ips :
       LET e == buckets[ip]
       IN  IsLocked(e, now) /\ ~ IsLocked(buckets'[ip], now') =>
             \/ now' >= e.lockedUntil
             \/ restarts' # restarts
             \/ \E r \in Requests :
                  /\ calls[r] # NoCall /\ calls'[r] = NoCall
                  /\ calls[r].ip = ip /\ calls[r].ok
                  /\ calls[r].since + LockoutTime <= e.lockedUntil]_vars

\* The guesses an address has in any stretch of one window, however its logins
\* overlap: the fixed window lets the limit pass twice, and the logins that wait
\* for their hash when the lockout starts are counted on top of it.
FailuresPerWindow ==
  \A ip \in Ips : Cardinality(fails[ip]) <= 2 * FailureLimit + Cardinality(Requests)

\* A session is used within the ceiling it was issued under, however often it is
\* used and whatever the setting became when the server was started again.
CeilingKept ==
  \A t \in Tokens :
    sessions[t] # NoSession /\ issue[t].ceiling > 0 =>
      sessions[t].seen < issue[t].at + issue[t].ceiling

\* A token that was once refused, or logged out, is refused for good: no later
\* setting and no login of anyone brings its row back.
RefusedForGood == \A t \in Tokens : over[t] # "no" => sessions[t] = NoSession

\* A session ends by its own logout or by a rule of time, and by nothing else:
\* not by the sweep of another login and not by a restart.
SessionsSurvive ==
  [][\A t \in Tokens :
       sessions[t] # NoSession /\ sessions'[t] = NoSession =>
         \/ over'[t] = "logout"
         \/ issue[t].ceiling > 0 /\ now >= issue[t].at + issue[t].ceiling
         \/ IsIdle(sessions[t])]_vars
=============================================================================
