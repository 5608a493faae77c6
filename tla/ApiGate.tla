------------------------------ MODULE ApiGate -------------------------------
(***************************************************************************)
(* The REST API from the address of a caller to the answer it gets:        *)
(* bearer keys, the lockout and the rate limits (src/api/middleware.ts,    *)
(* src/core/auth.ts), the routes (src/api/routes.ts) with what the service *)
(* answers, and the alerts of the audit log (src/core/audit.ts).           *)
(*                                                                         *)
(* The hooks of a request are one step, with one SELECT in it.  A request  *)
(* with a body then waits for it while the server serves others; a handler *)
(* runs to its end without an await, but other processes may change the    *)
(* database between two of its SELECTs, so each of these is a step.        *)
(* Lockout, rate limits and the alert limiter are the memory of the        *)
(* server.                                                                 *)
(***************************************************************************)
EXTENDS Lockout, FiniteSets

CONSTANTS
  Consumers,    \* names a consumer may have
  Keys,         \* bound: API keys that can be issued
  Ips,          \* source addresses
  Secrets,      \* names a secret may have
  Requests,     \* bound: requests the server has at one time
  Reports,      \* routes that only report: list, history, audit, rotation-report, ...
  Spellings,    \* ways to write a path in a URL
  Urls,         \* bound: the URLs that are asked for
  RateLimit,    \* RATE_LIMITS: the limit of each kind of request, as its URL is written
  RateWindow,   \* windowMs of a rate limit
  Toggles,      \* actions whose alert is switched on
  MinSeverity,  \* minSeverity, as SEVERITY_ORDER counts it
  AlertMax,     \* rateLimitMax
  AlertWindow,  \* rateLimitWindowSec
  Admin,        \* the consumer `gateway init` made
  Grants,       \* bound: consumer lists that are asked for
  Expiries,     \* bound: expiries that are asked for
  MaxTime,      \* bound: the clock
  MaxCalls,     \* bound: requests that reach the gate
  MaxChanges,   \* bound: commands of other processes and restarts
  MaxEvents     \* bound: all of these together

OfOneSecret == {"read", "update", "delete"}

Kinds == OfOneSecret \cup {"batch", "env", "create"} \cup Reports

\* The path of a route: for some it has the name of a secret in it.
Paths == (OfOneSecret \X Secrets) \cup ((Kinds \ OfOneSecret) \X {"all"})

ASSUME ApiGateAssumption ==
  /\ Reports \cap (OfOneSecret \cup {"batch", "env", "create"}) = {}
  /\ Urls \subseteq Paths \X Spellings
  /\ RateLimit \in [Kinds \X Spellings -> Nat \ {0}]
  /\ RateWindow \in Nat \ {0}
  /\ MinSeverity \in 1 .. 5
  /\ AlertMax \in Nat
  /\ AlertWindow \in Nat
  /\ MaxTime \in Nat /\ MaxCalls \in Nat /\ MaxChanges \in Nat /\ MaxEvents \in Nat
  /\ Admin \in Consumers
  /\ Grants \subseteq SUBSET Consumers
  /\ Expiries \subseteq 0 .. MaxTime + 1

VARIABLES
  now,        \* the clock
  consumers,  \* consumers[c]: the row of c
  secrets,    \* secrets[n]: who may read n, and whether it has a superseded version
  buckets,    \* buckets[ip]: the lockout entry of ip in scope 'api'
  windows,    \* consumerWindows
  recent,     \* rateLimitBuckets: the moments of the last alerts
  flight,     \* flight[r]: a request that is past the hooks
  barred,     \* ghost: keys that were replaced or whose consumer was revoked
  served,     \* ghost: when requests were let through, in the last window
  fails,      \* ghost: when wrong keys came, in the last window
  sent,       \* ghost: when alerts were sent, in the last window
  calls,      \* ghost: requests so far
  changes     \* ghost: commands and restarts so far

gate == <<buckets, windows, served, fails, calls>>

vars == <<now, consumers, secrets, recent, flight, barred, sent, changes, gate>>

----------------------------------------------------------------------------

Times == 0 .. MaxTime

\* expires_at of a key that does not expire.
Never == MaxTime + 1

Row == [key : Keys, admin : BOOLEAN, active : BOOLEAN, expires : 0 .. Never]

NoRow == [key |-> "none", admin |-> FALSE, active |-> FALSE, expires |-> 0]

Secret == [stored : BOOLEAN, granted : SUBSET Consumers, archived : BOOLEAN]

Absent == [stored |-> FALSE, granted |-> {}, archived |-> FALSE]

Stored(granted, archived) == [stored |-> TRUE, granted |-> granted, archived |-> archived]

\* A URL as it is written, without the query: one path may be written in several ways,
\* by percent-encoding for one.
KindOf(u) == u[1][1]

\* getLimitForRequest: the patterns are matched against the URL as it is written.
LimitOf(u) == RateLimit[<<KindOf(u), u[2]>>]

NoWindow == [count |-> 0, resetAt |-> 0]

\* A request waits for its body under the name of its route; the rest are the places
\* of a handler between two SELECTs.
Waiting == {"batch", "create", "update", "delete"}

Running == {"list", "read", "find", "grant"}

Flight == [at : Waiting \cup Running, key : Keys, caller : Consumers, admin : BOOLEAN,
           todo : SUBSET Secrets, got : SUBSET Secrets]

NoFlight == [at |-> "none", key |-> "none", caller |-> "none", admin |-> FALSE,
             todo |-> {}, got |-> {}]

\* A moment in a set of them: its time, and its number among them.
Marks == Times \X Nat

MarkedAt(S, t, n) == S \cup {<<t, Cardinality(S) + i>> : i \in 1 .. n}

Marked(S) == MarkedAt(S, now, 1)

InitialRow(k) == [key |-> k, admin |-> TRUE, active |-> TRUE, expires |-> Never]

Init ==
  /\ now = 0
  /\ \E k \in Keys : consumers = [c \in Consumers |-> IF c = Admin THEN InitialRow(k) ELSE NoRow]
  /\ secrets = [n \in Secrets |-> Absent]
  /\ buckets = [ip \in Ips |-> NoEntry]
  /\ windows = [c \in Consumers |-> [u \in Urls |-> NoWindow]]
  /\ recent = {}
  /\ flight = [r \in Requests |-> NoFlight]
  /\ barred = {}
  /\ served = [c \in Consumers |-> [u \in Urls |-> {}]]
  /\ fails = [ip \in Ips |-> {}]
  /\ sent = {}
  /\ calls = 0
  /\ changes = 0

----------------------------------------------------------------------------
\* The hooks.

Left == calls + changes + now < MaxEvents

\* The server has one thread: a handler that has begun runs to its end.
Free == \A r \in Requests : flight[r].at \notin Running

HasKey(c, k) == consumers[c] # NoRow /\ consumers[c].key = k

HolderOf(k) == CHOOSE c \in Consumers : HasKey(c, k)

\* authenticate: a key is good until its expiry has passed.
Standing(k) ==
  IF \A c \in Consumers : ~ HasKey(c, k) THEN "invalid"
  ELSE IF ~ consumers[HolderOf(k)].active THEN "revoked"
  ELSE IF consumers[HolderOf(k)].expires < now THEN "expired"
  ELSE "ok"

Barred_ByLockout(ip) == IsLocked(buckets[ip], now)

Received ==
  /\ Free
  /\ Left /\ calls < MaxCalls
  /\ calls' = calls + 1
  /\ UNCHANGED <<now, consumers, secrets, recent, barred, sent, changes>>

\* The hooks look at the URL as it is written and return if it does not begin with
\* /v1/; the router decodes it afterwards.  No consumer is attached to such a request:
\* the routes that read throw, requireAdmin refuses, and the history of a secret,
\* which asks for no consumer, names versions only.
PassBy == Received /\ UNCHANGED <<flight, buckets, windows, served, fails>>

\* A request that gets past the lockout drops an entry that has lapsed.
Enter(ip) == Received /\ ~ Barred_ByLockout(ip)

\* What a refused key leaves of the entry of its address.
AfterBadKey(e) == AfterFailure(AfterCheck(e, now), now)

NoKey_Counted(ip) ==
  /\ Enter(ip)
  /\ buckets' = [buckets EXCEPT ![ip] = AfterBadKey(@)]
  /\ UNCHANGED <<flight, windows, served, fails>>

\* No bearer header: refused, and not counted.
NoKey(ip) ==
  /\ Enter(ip)
  /\ buckets' = [buckets EXCEPT ![ip] = AfterCheck(@, now)]
  /\ UNCHANGED <<flight, windows, served, fails>>

BadKey(ip, k) ==
  /\ Enter(ip)
  /\ Standing(k) # "ok"
  /\ buckets' = [buckets EXCEPT ![ip] = AfterBadKey(@)]
  /\ fails' = [fails EXCEPT ![ip] = Marked(@)]
  /\ UNCHANGED <<flight, windows, served>>

----------------------------------------------------------------------------
\* The rate limit: a fixed window for each consumer, method and URL.

Lapsed(w) == w = NoWindow \/ now >= w.resetAt

AfterRate_Unscaled(w) ==
  IF Lapsed(w) THEN [count |-> 1, resetAt |-> now]
  ELSE [w EXCEPT !.count = @ + 1]

AfterRate(w) ==
  IF Lapsed(w) THEN [count |-> 1, resetAt |-> now + RateWindow]
  ELSE [w EXCEPT !.count = @ + 1]

Limited(w, u) == ~ Lapsed(w) /\ w.count + 1 > LimitOf(u)

\* The caller c of a request with key k ...
Caller(k, c) == Standing(k) = "ok" /\ c = HolderOf(k)

\* ... is past the lockout.
Authenticated(ip, k, c, u) ==
  /\ Enter(ip)
  /\ Caller(k, c)
  /\ buckets' = [buckets EXCEPT ![ip] = AfterCheck(@, now)]
  /\ windows' = [windows EXCEPT ![c][u] = AfterRate(@)]
  /\ UNCHANGED fails

Throttled(ip, k, c, u) ==
  /\ Authenticated(ip, k, c, u)
  /\ Limited(windows[c][u], u)
  /\ UNCHANGED <<flight, served>>

\* Both hooks let the request through to its route.
Admitted(ip, k, c, u) ==
  /\ Authenticated(ip, k, c, u)
  /\ ~ Limited(windows[c][u], u)
  /\ served' = [served EXCEPT ![c][u] = Marked(@)]

\* Routes that report names, versions, entries or counts: no value is decrypted,
\* nothing is logged, and a reader is refused the admin's or answered alike.
Report(ip, k, c, u) ==
  /\ KindOf(u) \in Reports
  /\ Admitted(ip, k, c, u)
  /\ UNCHANGED flight

\* The request goes on to wait for its body, or to its handler, with the row of its
\* consumer as it was read here.
Begin(ip, k, c, u, r, at) ==
  /\ flight[r] = NoFlight
  /\ Admitted(ip, k, c, u)
  /\ flight' = [flight EXCEPT ![r] =
       [at |-> at, key |-> k, caller |-> c, admin |-> consumers[c].admin,
        todo |-> {u[1][2]} \cap Secrets, got |-> {}]]

\* Where the handler of a kind of request begins: a GET is of the present version or
\* of an old one.
Entries(kind) ==
  CASE kind = "read" -> {"read", "find"}
    [] kind = "env" -> {"list"}
    [] kind \in Waiting -> {kind}
    [] OTHER -> {}

\* A request with a good key, to any route.
Call(ip, k, c) ==
  /\ Caller(k, c)
  /\ \E u \in Urls :
       \/ Throttled(ip, k, c, u)
       \/ Report(ip, k, c, u)
       \/ \E r \in Requests, at \in Entries(KindOf(u)) : Begin(ip, k, c, u, r, at)

----------------------------------------------------------------------------
\* The audit log and its alerts.

SeverityOf(action) ==
  CASE action = "read" -> 1
    [] action = "create" -> 2
    [] action = "update" -> 3
    [] action = "delete" -> 4

\* buildNotification and the threshold of maybeNotify.
Alerts(action) == action \in Toggles /\ SeverityOf(action) >= MinSeverity

InWindow_HalfOpen(t) == t + AlertWindow > now

InWindow(t) == t + AlertWindow >= now

Kept == {m \in recent : InWindow(m[1])}

AfterAlert_Deadlines == MarkedAt(recent, now + AlertWindow, 1)

\* The sliding window after one more alert.
AfterAlert == Marked(Kept)

\* log: an entry, and an alert if there is room for it; one that is dropped still
\* clears the window of what is older.
Log(action) ==
  IF ~ Alerts(action) THEN UNCHANGED <<recent, sent>>
  ELSE IF Cardinality(Kept) >= AlertMax THEN recent' = Kept /\ sent' = sent
  ELSE recent' = AfterAlert /\ sent' = Marked(sent)

----------------------------------------------------------------------------
\* Handlers that read.

Handle(r, at) ==
  /\ flight[r].at = at
  /\ UNCHANGED <<now, consumers, barred, changes, gate>>

Readable(f, n) == f.admin \/ f.caller \in secrets[n].granted

MayRead_OnceGranted(f, n) == secrets[n].stored /\ (Readable(f, n) \/ f.got # {})

\* getSecret: the grant is asked before the cache.
MayRead(f, n) == secrets[n].stored /\ Readable(f, n)

\* A read is logged whether it is granted or not.
GetSecret(r, n) ==
  /\ Handle(r, "read")
  /\ n \in flight[r].todo
  /\ flight' = [flight EXCEPT ![r].todo = @ \ {n},
                              ![r].got = @ \cup {x \in {n} : MayRead(flight[r], x)}]
  /\ Log("read")
  /\ UNCHANGED secrets

\* batchGet: one read for each name that is asked.
ParseBatch(r, names) ==
  /\ Free
  /\ Handle(r, "batch")
  /\ flight' = [flight EXCEPT ![r].at = "read", ![r].todo = names]
  /\ UNCHANGED <<secrets, recent, sent>>

\* listSecrets and listAllSecrets.
Listed(f) == {n \in Secrets : MayRead(f, n)}

\* getEnv: one read for each secret of the list that is wanted.
ListEnv(r, names) ==
  /\ Handle(r, "list")
  /\ flight' = [flight EXCEPT ![r].at = "read", ![r].todo = Listed(flight[r]) \cap names]
  /\ UNCHANGED <<secrets, recent, sent>>

\* getVersion: the row in the history, which an admin is handed ...
FindVersion(r, n) ==
  /\ Handle(r, "find")
  /\ n \in flight[r].todo
  /\ \/ /\ secrets[n].archived /\ ~ flight[r].admin
        /\ flight' = [flight EXCEPT ![r].at = "grant"]
        /\ UNCHANGED <<recent, sent>>
     \/ /\ flight[r].admin \/ ~ secrets[n].archived
        /\ flight' = [flight EXCEPT ![r].at = "read", ![r].todo = {},
                                    ![r].got = {x \in {n} : secrets[x].archived}]
        /\ Log("read")
  /\ UNCHANGED secrets

\* ... and for a reader the grant of the secret there is now.
GrantVersion(r, n) ==
  /\ Handle(r, "grant")
  /\ n \in flight[r].todo
  /\ flight' = [flight EXCEPT ![r].at = "read", ![r].todo = {},
                              ![r].got = {x \in {n} : MayRead(flight[r], x)}]
  /\ Log("read")
  /\ UNCHANGED secrets

\* The values go to the caller.
Reply(r) ==
  /\ Handle(r, "read")
  /\ flight[r].todo = {}
  /\ flight' = [flight EXCEPT ![r] = NoFlight]
  /\ UNCHANGED <<secrets, recent, sent>>

----------------------------------------------------------------------------
\* Handlers that change something: each is refused to a reader by requireAdmin.
\* SecretStore has the statements of an update.

Changed(r, n, action, s) ==
  IF flight[r].admin
  THEN secrets' = [secrets EXCEPT ![n] = s] /\ Log(action)
  ELSE UNCHANGED <<secrets, recent, sent>>

\* The handler, to its reply.
Serve(r, at) ==
  /\ Free
  /\ Handle(r, at)
  /\ flight' = [flight EXCEPT ![r] = NoFlight]

\* A name that is taken is a conflict.
CreateSecret(r, n, granted) ==
  /\ Serve(r, "create")
  /\ IF ~ secrets[n].stored
     THEN Changed(r, n, "create", Stored(granted, FALSE))
     ELSE UNCHANGED <<secrets, recent, sent>>

\* A new value archives the old one; a name that is missing throws.
UpdateSecret(r, n, granted, newValue) ==
  /\ Serve(r, "update")
  /\ n \in flight[r].todo
  /\ IF secrets[n].stored
     THEN Changed(r, n, "update", Stored(granted, secrets[n].archived \/ newValue))
     ELSE UNCHANGED <<secrets, recent, sent>>

\* A delete is logged whether there was anything to delete or not.
DeleteSecret(r, n) ==
  /\ Serve(r, "delete")
  /\ n \in flight[r].todo
  /\ Changed(r, n, "delete", Absent)

\* The body is malformed or names nothing that could be served.
Refuse(r) ==
  /\ \E at \in Waiting : Serve(r, at)
  /\ UNCHANGED <<secrets, recent, sent>>

Handler(r) ==
  \/ Reply(r) \/ Refuse(r)
  \/ \E names \in SUBSET Secrets : ParseBatch(r, names) \/ ListEnv(r, names)
  \/ \E n \in Secrets :
       \/ GetSecret(r, n)
       \/ FindVersion(r, n)
       \/ GrantVersion(r, n)
       \/ DeleteSecret(r, n)
       \/ \E granted \in Grants :
            \/ CreateSecret(r, n, granted)
            \/ \E newValue \in BOOLEAN : UpdateSecret(r, n, granted, newValue)

----------------------------------------------------------------------------
\* `gateway consumer` and `gateway secret`, in processes of their own.

Command ==
  /\ Left /\ changes < MaxChanges
  /\ changes' = changes + 1
  /\ UNCHANGED <<now, recent, flight, sent, gate>>

\* Keys that no one was given yet: they are random.
IsFresh(k) == k \notin barred /\ \A c \in Consumers : ~ HasKey(c, k)

\* The UNIQUE constraint keeps the name of a revoked consumer taken.
AddConsumer(c, k, admin, expires) ==
  /\ Command
  /\ consumers[c] = NoRow
  /\ IsFresh(k)
  /\ consumers' = [consumers EXCEPT ![c] =
                     [key |-> k, admin |-> admin, active |-> TRUE, expires |-> expires]]
  /\ UNCHANGED <<secrets, barred>>

RevokeConsumer(c) ==
  /\ Command
  /\ consumers[c] # NoRow
  /\ consumers' = [consumers EXCEPT ![c].active = FALSE]
  /\ barred' = barred \cup {consumers[c].key}
  /\ UNCHANGED secrets

Rotated_Reactivated(row, k, expires) == [row EXCEPT !.key = k, !.expires = expires, !.active = TRUE]

\* is_active stays as it is: a revoked consumer gets a key that is refused.
Rotated(row, k, expires) == [row EXCEPT !.key = k, !.expires = expires]

\* Without --expires the expiry stays as it is, even if it has passed.
RotateKey(c, k, expires) ==
  /\ Command
  /\ consumers[c] # NoRow
  /\ IsFresh(k)
  /\ consumers' = [consumers EXCEPT ![c] = Rotated(@, k, expires)]
  /\ barred' = barred \cup {consumers[c].key}
                      \cup (IF consumers[c].key \in barred THEN {k} ELSE {})
  /\ UNCHANGED secrets

\* `secret set` and `secret grant`.
SetLocally(n, granted, newValue) ==
  /\ Command
  /\ secrets' = [secrets EXCEPT ![n] = Stored(granted, @.archived \/ (@.stored /\ newValue))]
  /\ UNCHANGED <<consumers, barred>>

DeleteLocally(n) ==
  /\ Command
  /\ secrets' = [secrets EXCEPT ![n] = Absent]
  /\ UNCHANGED <<consumers, barred>>

Administer ==
  \/ \E c \in Consumers :
       \/ RevokeConsumer(c)
       \/ \E k \in Keys, expires \in Expiries :
            \/ \E admin \in BOOLEAN : AddConsumer(c, k, admin, expires)
            \/ RotateKey(c, k, expires)
  \/ \E n \in Secrets :
       \/ DeleteLocally(n)
       \/ \E granted \in Grants, newValue \in BOOLEAN : SetLocally(n, granted, newValue)

\* The server is started again: what it had in memory is gone.
Restart ==
  /\ Left /\ changes < MaxChanges
  /\ changes' = changes + 1
  /\ buckets' = [ip \in Ips |-> NoEntry]
  /\ windows' = [c \in Consumers |-> [u \in Urls |-> NoWindow]]
  /\ recent' = {}
  /\ flight' = [r \in Requests |-> NoFlight]
  /\ served' = [c \in Consumers |-> [u \in Urls |-> {}]]
  /\ fails' = [ip \in Ips |-> {}]
  /\ sent' = {}
  /\ UNCHANGED <<now, consumers, secrets, barred, calls>>

\* The ghosts forget what is a window old.
Tick ==
  /\ Left /\ now < MaxTime
  /\ now' = now + 1
  /\ served' = [c \in Consumers |-> [u \in Urls |->
                  {m \in served[c][u] : m[1] + RateWindow > now + 1}]]
  /\ fails' = [ip \in Ips |-> {m \in fails[ip] : m[1] + Window > now + 1}]
  /\ sent' = {m \in sent : m[1] + AlertWindow >= now + 1}
  /\ UNCHANGED <<consumers, secrets, buckets, windows, recent, flight, barred, calls, changes>>

Next ==
  \/ PassBy
  \/ \E ip \in Ips :
       \/ NoKey(ip)
       \/ \E k \in Keys :
            \/ BadKey(ip, k)
            \/ \E c \in Consumers : Call(ip, k, c)
  \/ \E r \in Requests : Handler(r)
  \/ Administer
  \/ Restart
  \/ Tick

Spec == Init /\ [][Next]_vars
----------------------------------------------------------------------------
TypeOK ==
  /\ now \in Times
  /\ consumers \in [Consumers -> Row \cup {NoRow}]
  /\ secrets \in [Secrets -> Secret]
  /\ buckets \in [Ips -> Entry]
  /\ windows \in [Consumers -> [Urls -> [count : Nat, resetAt : Nat]]]
  /\ recent \in SUBSET Marks
  /\ flight \in [Requests -> Flight \cup {NoFlight}]
  /\ barred \subseteq Keys
  /\ served \in [Consumers -> [Urls -> SUBSET Marks]]
  /\ fails \in [Ips -> SUBSET Marks]
  /\ sent \in SUBSET Marks
  /\ calls \in Nat
  /\ changes \in Nat

Arriving(r) == flight[r] = NoFlight /\ flight'[r] # NoFlight

\* A request gets past the hooks with a key of the caller it is taken for, which was
\* neither replaced, nor revoked, nor expired by then, whatever keys were rotated
\* before; and each value it is handed, of a batch or an environment too, is one its
\* caller may read when that secret is read, whatever was granted when the request
\* came, when it was listed or when the others were read.  A key that is withdrawn
\* while its request is under way still gets the answer.
ValuesGuarded ==
  [][\A r \in Requests :
       /\ Arriving(r) =>
            LET f == flight'[r] IN
            /\ HasKey(f.caller, f.key) /\ f.key \notin barred
            /\ now <= consumers[f.caller].expires
            /\ f.admin => consumers[f.caller].admin
       /\ \A n \in flight'[r].got \ flight[r].got :
            flight[r].admin \/ flight[r].caller \in secrets[n].granted]_vars

\* In any stretch of one window a consumer gets less than two limits of requests
\* through under one URL as it is written: the windows are fixed, so two of them can
\* meet in it, but the first request of the earlier one is over by then.  (Another way
\* to write the same path has windows of its own.)
RequestsPerWindow ==
  \A c \in Consumers : \A u \in Urls : Cardinality(served[c][u]) < 2 * LimitOf(u)

\* An address is locked out by wrong keys alone, more of them than the limit within
\* one window: valid callers, missing headers and failures of long ago do not add up.
LockoutEarned ==
  [][\A ip \in Ips :
       ~ HasLock(buckets[ip]) /\ HasLock(buckets'[ip]) => Cardinality(fails'[ip]) > FailureLimit]_vars

\* No stretch of one alert window, its two ends included, holds more alerts than
\* the limit, however many entries one request logs.
AlertsPerWindow == Cardinality(sent) <= AlertMax
=============================================================================
