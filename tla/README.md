# Ciphergate, specified in TLA+

Ciphergate is a self-hosted secrets gateway: an encrypted SQLite store behind a
REST API, a browser UI, an MCP server and a CLI, with an MCP proxy that injects
secrets into other servers, a backup job and a health watchdog.  This directory
holds TLA+ modules translated from its TypeScript, TLC configurations that check
them on small instances, and TLAPS proofs of what matters most for all
instances.  Paths below are relative to the repository.

## How to run

    tlc -workers 2 -config MCSecretStore_gateway.cfg MCSecretStore
    tlapm SecretStore_proofs.tla

Every run is listed, with the properties it checks, in `PROJECT.json`; `map`
there names the source lines of every definition.

## 1. The system

| Component | State | Operations | What makes it correct |
|---|---|---|---|
| Storage (`src/storage/sqlite.ts`) | tables `secrets`, `secret_history`, `consumers`, `audit_log`, `ui_sessions`, `meta` in one file | one SQL statement each; no transactions | versions grow by one with each value; the history holds the superseded versions, capped, of the row that is there now |
| Service (`src/core/secrets-service.ts`) | none of its own | create, update, delete, get, get version, export, reports | what a read returns is the current value; each change has an audit entry |
| Cache (`src/core/cache.ts`) | a map of decrypted values with versions and deadlines, per process | get, set, invalidate, clear | never answers for a value that is not current |
| Encryption (`src/storage/crypto.ts`, `src/server.ts`) | a salt in `meta`, a key in memory | derive, encrypt, decrypt | one salt for the life of the file |
| API gate (`src/core/auth.ts`, `src/api/middleware.ts`) | consumers; rate-limit map | authenticate, rate limit, admin check | an expired key is refused; failures are counted; limits hold |
| Lockout (`src/core/lockout.ts`) | a map of failures by scope and address | isLockedOut, recordFailure, clearFailures | a bounded number of guesses; a lockout lasts |
| Audit and alerts (`src/core/audit.ts`) | `audit_log`; timestamps of recent alerts | log, alert | every change has an entry; alerts are limited, not lost before the limit |
| REST API (`src/api/routes.ts`) | none | secrets, consumers, cache, audit routes | calls of the service behind the gate |
| Browser UI server (`src/ui/*.ts`) | `ui_sessions`, the UI password hash | login, logout, session gate, forms with `expected_version` | sessions end when they must and only then; a stale form does not overwrite a rotation |
| Browser UI client (`src/ui/public/app.js`) | the view, the loaded form, the session flag | navigation, save, resume after 401 | an answer is shown in the view that asked for it |
| MCP server (`src/mcp/*.ts`) | none between two requests | tools, each one call of the API | a tool can do nothing its key could not |
| MCP proxy (`src/proxy/*.ts`) | the policy, the OAuth session file, child processes | inject, spawn, list and call through the policy, OAuth consent and refresh | no child with half of its secrets; no call the policy refuses; a broken session file heals |
| Watchdog (`src/watchdog/*.ts`) | the state file | sweep: load, probe, decide, save, alert | alerts tell of changes, once, and tell the truth in the end |
| Backup (`src/backup/*.ts`) | an object store with dated keys and manifests | run over the sources, retention, restore | what the retention keeps can be restored; one failing source does not stop the others |
| CLI (`src/cli.ts`, `src/cli-remote.ts`) | none; opens the same file, or calls the API | secret, consumer, ui, backup, restore commands | the same promises as the API, from another process |
| Start (`src/server.ts`, `src/config.ts`, `src/ui/tls.ts`, `deploy/`, `scripts/`) | configuration | one sequence | configuration errors stop the start |

**How they interact.**  The server process serves the API, the UI and the MCP
endpoint over one storage handle.  `better-sqlite3` is synchronous, so inside the
server a storage call never interleaves with another; what interleaves inside
the process are the awaits (argon2, `fetch`, sockets).  A local CLI command is
another operating-system process on the same file, with a service and a cache of
its own: there everything interleaves, one SQL statement at a time.  The
watchdog, the proxy and the backup are processes of their own; they keep their
state in files and speak to the rest over HTTP.

**What is hard.**  Two processes in the middle of `updateSecret`, which is five
statements without a transaction; a cache validated by version where a version
can start again; kills between statements; logins that wait for a hash while
others fail; sessions that outlive the settings they were made under; a state
file that is saved before the alerts it stands for are sent; a page whose
handlers wait for answers while another user logs in; guards that read, change
and write one session file; a salt that two processes look for and store.
`PROJECT.json` lists these under `hazards`, each at its line.

## 2. The modules

### SecretStore, and SecretRegister above it

`SecretStore` is storage, service and cache together, since the properties that
matter lie between them.

| Specification | Code |
|---|---|
| `rows`, `history` | tables `secrets` and `secret_history`; `Missing` is the absence of a row |
| `audit` | the number of success entries `create` and `update` of a name |
| `cache` | the server's `SecretCache`; an entry expires at any time (`Expire`) |
| `tab` | the `expected_version` a browser form carries |
| `pc`, `job` | the call a process is serving: its next statement and its locals |
| `ops`, `faults`, `commits`, `vain`, `ledger` | ghosts: fresh row ids, kills, commits, updates that changed nothing, all rows each name ever had |

The unit of a step is a SQL statement, because no code opens a transaction.
An update is `StartUpdate` (SELECT), `ArchiveRow` (INSERT into the history, which
the foreign key may refuse), `CountHistory`, `PruneHistory`, `Commit` (UPDATE,
which sets `version = version + 1`) and `FinishUpdate` (cache, audit).  An
update without a new value goes from the SELECT to the UPDATE, as `hasNewValue`
decides, and `StartEmptyUpdate`, which names no field (`PUT` with `{}`), from the SELECT
to the cache and the audit entry: no UPDATE runs.  `StartUiSave` is the UI route, which reads the row and compares
`expected_version` before the service reads it again (`Load`).  `Create` and
`FinishCreate` are the INSERT and the audit entry; `Delete` is the DELETE with its
cascade; `Get`, `FinishHit` and `FinishRead` are a read: hit, or decrypt, stamp
`last_accessed` and fill the cache.  `Crash` kills a process between two
statements and `StatementFails` makes the next one throw.

Left out: descriptions, tags, timestamps, grants (a refused call changes
nothing), batch reads and reports.  Row ids are random in the code; here the id of a row is the number of
the call that made it.  A cache entry carries the id of its row as a ghost: the
code's test, and the model's, looks at the version alone.

`SecretRegister` is the promise, in two variables: per name a register with a
version, and per process the answer it is about to give.  A read answers with the
content the register has at some moment of the call.  `SecretStore` maps `reg`
to the rows and `answer` to the row a call has read or found in the cache;
`ImplementsRegister` says it implements `SecretRegister`.

### Lockout and UiLogin

`Lockout` is `core/lockout.ts`: what its three functions make of one entry.
`recordFailure` does not look at whether a lockout is over, and starts it again;
the module does the same.

`UiLogin` puts it under the login route and adds the sessions.

| Specification | Code |
|---|---|
| `now` | the clock |
| `configured` | the UI password is set |
| `buckets` | the lockout map, scope `ui` |
| `calls` | logins past the gate that wait for argon2 |
| `sessions`, `ttls` | `ui_sessions`; `UI_SESSION_TTL_HOURS` and `UI_SESSION_IDLE_HOURS` of the running server |
| `fails`, `issue`, `over`, `restarts` | ghosts: the failures of the last window, how a token was minted and how it ended |

`StartLogin` passes the lockout gate and reads the stored hash; `RejectLogin` and
`AcceptLogin` come after the await.  `EmptyLogin` fails at once.  Everything
else is one step: `Inspect` is `inspectSession` (and deletes a row found past a
rule), `Logout`, `SetPassword` in another process, and `Restart`, which forgets
the lockout and the logins in flight, keeps the sessions and may change the
settings.  `NEVER_EXPIRES_AT` is a time past the end of the model's clock.  A
password that is already set is not changed.

### ApiGate and McpTools

`ApiGate` is the path of a request through the REST API, with `Lockout` in scope
`api`.  The unit of a step is what other processes and other requests can get
between.  The two hooks run without an await and have one SELECT, that of the
consumer: they are one step.  A request with a body then waits for it while the
server serves others.  A handler runs to its end without an await, so that no
other request of the server comes in between (`Free`); but another process may
change the database between two of its SELECTs, so each of these is a step.

| Specification | Code |
|---|---|
| `consumers` | table `consumers`: key hash, role, `is_active`, `expires_at` |
| `secrets` | of each secret, whether it is there, its consumer list, whether the history has a version of it |
| `buckets`, `windows`, `recent` | the lockout map, `consumerWindows`, `rateLimitBuckets` of the alerts: memory, gone with `Restart` |
| `flight` | the requests past the hooks: `request.consumer` as it was read there, where the handler is, what it is still to read, and what it has got for its caller |
| `barred`, `served`, `fails`, `sent` | ghosts: keys that must never work again; requests let through, wrong keys and alerts in the last window |

A URL is a path and one of several ways to write it (`Spellings`), since
percent-encoding gives one path many URLs.  Both hooks look at the URL as it is
written and return if it does not begin with `/v1/`, while the router decodes it:
`PassBy`.  No consumer is attached to such a request, and every route that hands out
a value or changes one throws or refuses without one; the history route does not ask
for it, and names versions only.  The rate limit is kept for the method and the URL as
it is written, so that each spelling has a limit of its own (`LimitOf`, `AfterRate`).

`NoKey`, `BadKey` and `Throttled` are the refusals, in the order of the hooks:
lockout, header, key, rate limit.  `Begin` takes a request past both, and `Report`
the ones to routes that hand out no value.  `GetSecret` is one read, of which a batch
(`ParseBatch`) or an environment (`ListEnv`) makes several; an old version is
`FindVersion`, the row of the history, and `GrantVersion`, the grant of the secret as
it is now.  `CreateSecret`, `UpdateSecret`, `DeleteSecret` and `Refuse` end the
requests that wait for a body or change something; their statements are in
`SecretStore`.  `Log` is `AuditLogger.log` with the alert's switch, threshold and
sliding window.  `AddConsumer`, `RevokeConsumer`, `RotateKey`, `SetLocally` and
`DeleteLocally` are the `gateway consumer` and `gateway secret` commands in a process
of their own, at any moment of any request.  Values, versions and texts are left out.

`McpTools` puts the MCP server in front: its HTTP transport makes a server for
each request, so a tool call is one request of `ApiGate` with the caller's key and a
plainly written URL, from the one address that all of them share.  `src/mcp/stateful-http-server.ts`
is used by tests only and is not modelled.

### UiClient

One tab of the browser UI, and the server as far as the tab can tell.

| Specification | Code |
|---|---|
| `view`, `who`, `pane` | which section is visible, `#session-user`, `#detail`: what it shows and, as a ghost, who typed into it |
| `started`, `resume`, `resumeUser`, `selected` | the fields of `state` |
| `tasks` | handlers that wait for a request: which one, sent with which cookie, and their locals |
| `cookie`, `sessions`, `alive`, `stored` | the cookie jar, and of the server the sessions and the rows |
| `kept` | ghost: the form a 401 interrupted, with no other handler under way that replaces the pane |

A handler runs to its next `await`, which is always one request.  What users do
is `ClickNew`, `ClickSave`, `SelectSecret`, ...; what the server does is `Serve...`,
for the tasks in any order; what the page does with an answer is `Unauthorized`,
`Failed`, `LoggedIn`, `StartEnds`, `Shown`, ...: answers arrive in any order too.  The
catch of `boot` covers the requests of the `start` it calls: such a handler stays `boot`
to its end, and `Failed` of it shows the login.
`Break` loses a request or its answer and `EndSession` ends a session from
outside.  The API console, search and toasts are left out, and a form is reduced
to who typed into it.

### OAuth and Proxy

`OAuth` is several guards of one server in front of the session file of
`FileOAuthStore`.

| Specification | Code |
|---|---|
| `file` | the session file: client, tokens, verifier; each an identity, 0 when missing |
| `port` | who listens on the callback port, from the start to the end of the first connect |
| `guard` | where a guard is: `connect`, `auth`, the two halves of a save, `consent`, `exchange`, ... |
| `pages` | consent pages open in the browser |
| `clients`, `access`, `refresh` | what the authorization server accepts: external |
| `issued`, `kills`, `revoked` | ghosts: bounds |

Every save is `ReadSession` and `WriteSession`, since the code reads the whole file
and writes the whole file; `Removed` is `clear('all')`.  `Challenged`, `Register`,
`Refresh`, `ClientRefused`, `StartAuthorization` and `ExchangeRefused` are the
calls the MCP client library makes of the provider object; the library is not in
the repository, and these are marked external.  `Kill` in the middle of a write
leaves a file that reads as `{}`.  `Quiet` is an assumption: while a guard is
authorizing, nothing is expired or revoked (each such event would cost the guard
one more failure, with no bound in the code).

`Proxy` extends it with guards of other kinds of server.

| Specification | Code |
|---|---|
| `entry` | one server of the manifest, as `parseManifest` lets it through |
| `readable`, `keyGood`, `tools` | the gateway, which answers a version of each secret or none, and the server behind the proxy; they change under it |
| `started`, `child` | the entry a guard read when it started, from which it compiled its policy; the process it spawned, with its environment |
| `listed`, `call` | what the guard answered last to `tools/list` and `tools/call` |
| `offered`, `seen` | ghosts: what the list was made from; what was readable of each secret while the request was served |

`Launch` reads the manifest and asks for the secrets.  The gateway looks at the key
(`BeginBatch`) and reads one name after the other, from the row or its cache
(`ReadName`); other processes write between two reads, so the answer need not be of one
moment.  `FetchSecrets` is the answer if it is whole, `FetchFails` any other, and
`Spawn` the start of the process; the manifest is edited and grants are revoked at any
moment.  Nothing keeps the manifest from mapping two secrets to one variable; the child
then has one of them (`LastFor`).
`ChildEnv` keeps the precedence of the environment and strips the keys.
`Verdict` checks the name and then the arguments; an argument or a text is the set
of patterns that match it.

### GatewayCli

The server's start and the commands, as processes on one file.

| Specification | Code |
|---|---|
| `file` | what a connection sees: the salt, the admin, and of each value the salt its key came from |
| `main`, `backup` | what the main database file alone holds (WAL mode), and the copy `gateway backup` made |
| `proc` | of each process: how far it is, its key, the name and value it is asked to write |
| `salts`, `lost` | ghosts: salts generated; those of them that were or may be replaced under someone who uses them |

`StartServer`, `StoreSalt` and `Derived` are the start of `server.ts`; `StartInit`,
`StoreSalt` and `CreateAdmin` are `gateway init`; `StartCommand` is `createStack` or
the remote client.  `Look` and `Finish` are the two calls of `secret set`, `grant`,
`delete` and `import`, between which anything may happen; a remote command needs
the running server for both and writes under its key.  `Ends` is every command
that writes no value.

`CopyOut` and `Restore` copy the main file, whatever runs: neither looks, and the UI
itself tells to run the restore in the container of the running server.  With no
process and nothing in the write-ahead log the database is then that of the backup.
Else SQLite promises nothing: the pages in the log and those that processes have
cached stay beside those of the backup, so the salt, the admin and each value may be of
either (`Mixed`).  A server goes on with the key it has.  A copy torn by a
checkpoint is not modelled.

Two things lose a salt, and `lost` names exactly those: a salt stored while another
process has found none and is about to store its own (`Contested`), and the two salts
that a restore mixes, if they differ.  `Readable` is about every value under any other.

### Watchdog

| Specification | Code |
|---|---|
| `up` | the world: would a probe find the target healthy now |
| `file` | the state file; what is missing or truncated loads as the empty state |
| `pc`, `state`, `found`, `pending` | the sweep of a process: its locals |
| `heard`, `lost`, `streak`, `overlapped`, `crashes` | ghosts: what the last alert that reached anyone said, whether one was lost or kept quiet since, unhealthy results in a row, whether a sweep ever began before another had ended |

A sweep is `LoadState`, `ProbeTargets`, `Decide` (applyProbe on every result,
and the truncation of the file by `writeFileSync`), `WriteFile` (its content) and
one `Dispatch` per alert.  The probes of one sweep are one step: they share
nothing.  The sinks of an alert are collapsed to whether anyone was reached.
The failure tally stops at the threshold, the only number it is compared with.

`Loops` are the processes in `watchLoop`; others are `run` commands, of cron for
example, and those in `Quiet` may be given `--no-alert`, which saves the state and keeps
the alert.  Nothing locks the file.  The safety properties are about sweeps that follow
each other, of whichever process: once two have overlapped, each may tell of one change,
or none, and the properties say nothing more.

### Retention and Backup

`Retention` is `backup/retention.ts`.  `PlanLoop` is `planRetention` as it is
written: a recursive function (`Visited`) over the dates from the newest
to the oldest, with the weeks it has seen; a prune of `Backup` (`Doomed`)
uses it.  `Keep` says what the plan is for, without a loop: the dates of the daily
window, and of the rest the newest of each of the newest weeks.  The properties
use `Keep`, and `LoopPlansWindow` says that the two agree.  A date is the number of
its day, a week is `WeekLength` days.

`Backup` is the job above it.

| Specification | Code |
|---|---|
| `today` | the UTC date |
| `store` | the objects: by source and date, the number of the run whose bytes they hold |
| `dated`, `latest` | `manifest/<date>.json` and `manifest/latest.json` |
| `pc`, `job` | the run of a process: its next await, its manifest, the sources and prefixes left, the keys to delete |
| `runs`, `faults`, `made`, `settled`, `begun` | ghosts: runs begun, failures, all dates ever put under a prefix, prefixes untouched since their last whole prune, the last run begun on a date |

A step is one await of `runBackup` that other processes can see: the upload of a
source (`Upload`, `UploadFails`), the export of all agents (`ExportAgents`,
`ExportFails`: one failure fails them all), each copy of the manifest
(`PutDated`, `PutLatest`, `PutManifestFails`), the listing of a prefix and the
plan made of it (`ListKeys`), one deletion (`DeleteObject`), the end of a prefix
(`FinishPrune`, `PruneFails`).  A request that fails may have been carried out.
`Kill` ends a run at any of them.  The snapshot, the count, the sealing and the
upload of a source are one step, since only the upload changes anything.  What a
prune that fails adds to the errors of the manifest comes after the manifest is
written, and is left out; so are restore, the local last-run record, which
nothing reads, and sources that come and go between runs.

## 3. The runs

| Run | Instance | Shows |
|---|---|---|
| `gateway` | one name, two values, the server writes, a CLI process reads, 5 write calls, 1 kill or failure, history of 2 | `TypeOK`; the cache is sound; the history has no hole and is exactly the last versions; a form replaces the version it showed; the store implements the register |
| `shared` | the same with a CLI process that creates, updates and deletes; 4 calls, history of 1 | what survives two writers: `Coherent`, `HistoryOfLiveRow`, `HistoryCapped`, and `AuditAccounts`: entries are those of the changes and of the updates that changed nothing |
| `staleCache` | as `shared` | **violated**: `CacheSound` |
| `clobber` | as `shared` | **violated**: `SaveReplacesWhatWasSeen` |
| `login` | one address, limit 1, window 2, lockout 2, clock 0..3, two logins waiting at a time, two tokens, settings with both rules and with none, 1 restart | `TypeOK`; guesses per window; what can end a lockout; ceilings, refusals for good, no session ends otherwise |
| `watch` | the loop and a run command with or without `--no-alert`, in turn, two targets, threshold 2, one kill outside the write | alerts alternate, agree with the file, no blip pages, the truth is told in the end |
| `backup` | one runner, a collection and two agents under two prefixes, 5 runs in 6 days, weeks of 2 days, 1 daily and 2 weekly, 1 failure or kill | `TypeOK`; the window of all that was ever made is there, after a whole prune nothing else is; the loop plans that window; manifests account for every source |
| `api` | two consumers, three keys, two secrets, the MCP server's address and another, two requests at a time, eight URLs, one of them another spelling, limits of 1 and 2, clock 0..2, four events: requests, commands, restarts, ticks | `TypeOK`; values go only where grants and a valid key allow; a lockout is earned by wrong keys in one window; how many requests and alerts fit in a window |
| `clients` | two users of one tab, two handlers waiting at a time, one secret, 6 clicks, 2 sessions after each other, 1 failure or session that ends | `TypeOK`; nobody has another user's form; a 401 costs no edit |
| `startsClean` | as `clients`, one handler at a time | **violated**: `StartsClean` |
| `proxy` | two guards, three kinds of server, two secrets, in two variables or one, 6 clients, tokens and verifiers, 1 kill, 1 revocation, 2 changes around a child | the session file heals; a child has all its secrets and no key; the list and the calls agree |
| `keys` | one secret, the server and one command at a time, 2 salts | every value can be read by the next process, but for lost salts; none is blanked by accident |

**Bounds, and why they are enough.**  Names do not interact in `SecretStore` but
through the single call of a process, so one name is enough (that they do not mix is
in `Coherent`, which is proved for any number of names); two values are
enough to tell the right one from a wrong one.  Five calls
with a history of two fill the history, prune it twice and leave a form stale;
four calls from two processes with a history of one let a deletion and a
re-creation fall inside an update.  One fault is enough to cut any call at any
statement.  In `login`, two waiting logins are one more than the last that the
gate should let through, the clock covers two windows and a whole lockout, the
ceiling of 3 and the idle rule of 2 both end inside it, and one restart switches
the rules off or on and forgets the lockout.  In `watch`, two targets change in
the same sweep or in different ones, a threshold of two tells a blip from an
outage, and two processes take turns in any order; states after an overlap are not
explored, since every property is about those before (the constraint `InTurn`).  In `backup`, six days are three weeks of two days, so that the weekly
window of two drops a week and finds two dates in one; two agents under one prefix
make a date of which only a part was uploaded or deleted.  One runner is an
assumption of `WindowOnly` and `ManifestHonest`, not a bound: a run that overlaps
a whole prune may put a date behind its back.  `WindowKept` needs no such
assumption and is proved without; so is `ManifestRestorable`, what `ManifestHonest`
comes to when runs overlap.  In `api`, three keys are those of two consumers
and one rotation of either; two secrets and two requests are a batch with a
revocation between its reads beside another request; eight URLs are each kind of
request and one in another spelling.  Four events are a command before a request, one
after its hooks and one between its reads, or requests around a tick.  With a limit of
one, which most URLs have, a second request in any stretch of a window breaks
`RequestsPerWindow`; two fixed windows of a larger limit that meet in a stretch need six
events, and are covered by `GateRequestsPerWindow` alone.  In `clients`, six clicks log a user in, open, edit and
save a form; two handlers are a late answer and the one that overtakes it.  In
`proxy`, six identities are a client, a verifier and tokens for one guard and the
same for a second; two changes break a grant between a fetch and a start, or the
manifest between two children, or two secrets between the reads of both.  In `keys`,
two salts are the one that is stored and one that replaces it, by an init beside the
server or by a restore; further commands would only add writers under the same keys, and
`CliReadable` is proved for any number of them.  All bounds are
constants in guards (`MaxOps`, `MaxFaults`, `MaxTime`, `Requests`, `Tokens`,
`MaxRestarts`, `MaxCrashes`, `MaxDay`, `MaxRuns`, `MaxCalls`, `MaxChanges`,
`MaxEvents`, `Slots`, `MaxSessions`, `MaxClicks`, `MaxVersion`, `MaxIssued`, `MaxKills`,
`MaxRevoked`, `MaxSalts`); the only constraint is `InTurn`.

**Fairness.**  Only `Watchdog` has any: weak fairness of every sweep that has begun,
and of the loop's beginning another.  `watchLoop` starts another sweep after each one,
whether it failed or not, and every await in a sweep has a timeout; nobody has to start
a `run`.  Kills are bounded: a watchdog that is
killed in every sweep tells nobody anything.  Nothing is assumed of the other
modules: their calls need never end, the page's requests and the OAuth consent
have no timeout, and nobody need click or approve anything.

**What the violations show.**

1. `staleCache`.  A CLI process deletes a secret and creates it again while the
   server has the old version 1 in its cache.  The new row has version 1 too, so
   `getSecret` answers with the old value until the entry's TTL ends.
2. `clobber`.  The UI route compares `expected_version` with a row it selected;
   the UPDATE that follows has no condition.  A rotation that a CLI process
   commits in between is overwritten, which is what the check is there to stop.
   With the server as the only writer (`gateway`) it cannot happen, because
   nothing awaits between the two.
3. `startsClean`.  `start` shows the application first and empties the detail
   pane after two answers.  A user who logs in over an open form of another sees
   what that one typed until they arrive.  `OwnForm` says what does hold: once the
   lists are there, the form is gone.

**Known divergences without a run.**  In these the code and its documentation
disagree, or a guarantee ends; the properties state how far it goes.

- `run --no-alert` is documented as "probe and print only" but saves the state file,
  and so consumes the incident: `HeardIsRemembered` counts it as kept quiet, and it is
  not told again.
- `docs/watchdog.md` allows a cron job beside the loop.  Two sweeps that overlap may
  tell of a change twice or never; the properties are about sweeps in turn.
- A kill in the middle of `writeFileSync` (`CrashPoints` with `"write"`) breaks
  `AlertsAlternate`: the next sweep starts from an empty file, although the
  documentation says a restart never alerts again.
- Objects and dated manifests are named by the day alone.  `docs/backups.md:105` says of
  a second run that "it never clobbers an earlier one"; a second run of one day replaces
  what the first one put.  `ManifestHonest` demands the bytes of the manifest's own run
  on every date on which no other run was begun, and accepts those of a later one on the
  others.  There, a second run that is killed before its manifest leaves the first
  manifest with sizes and hashes of bytes that are gone, and one whose source fails
  leaves the first run's object in no manifest.
- The first start of the server beside `gateway init`: both find no salt, the later
  `setSalt` replaces the earlier, and what was encrypted under that is lost.  Nothing in
  the documentation promises that the two may run together.
- `gateway restore` under the running server of another salt: what is in the file by
  then, and what the server writes afterwards, may be under a salt that is not there.
- A rate limit is one of the URL as it is written: a caller that encodes a path in two
  ways has two limits.
- `docs/pushover-alerts.md` lists API authentication failures as alerts; they are never
  logged.

## 4. The proofs

All theorems are for every value of the constants that satisfies the named
assumptions, which TLC evaluates on every run: `ProcessAssumption`,
`ValueAssumption`, `BoundAssumption`, `LockoutAssumption`, `UiLoginAssumption`,
`WatchdogAssumption`, `RetentionAssumption`, `BackupAssumption`,
`SourcesAssumption`, `ApiGateAssumption`, `McpToolsAssumption`, `CliAssumption`,
`UiClientAssumption`, `OAuthAssumption`, `ProxyAssumption` and
`EntriesAssumption`.  Most say that a bound is a number.  Three say more:
`UiLoginAssumption` that a lockout lasts at least a window (in
`core/lockout.ts`, 15 minutes against one), `SourcesAssumption` that no agent is a collection, and
`EntriesAssumption` what `parseManifest` lets through.

Some theorems have a hypothesis on top, each with a reason in the code:

| Hypothesis | Says | Needed because |
|---|---|---|
| `ServerDeletes` | only the server deletes secrets | `staleCache` is the counterexample |
| `ServerWrites` | only the server creates, updates and deletes; any process may read | `clobber` is the counterexample; of two overlapping updates one may archive a version that the other replaces, and the version between is never archived |
| `NoTornFile` | no kill while the state file is written | the divergence of section 3 |
| `OneRunner` | one backup process | a run that overlaps a whole prune puts a date behind its back, and a slow one puts its older bytes over those of a later one |

**`SecretStore_proofs`.**  `TypeCorrect` rests on `TypeInv`: `TypeOK`, that the history
is finite and that a call in flight has a name.  `Coherent` and `HistoryOfLiveRow`
are not inductive.  The strengthening `LedgerInv` says that ids are fresh (no id in
the ledger is above `ops`), that a row is the *latest* version of its id and no id
was ever that of two names, and that a row a call is about to archive or to answer
with is in the ledger of its name.  The first makes `Create` safe, the second makes
`Commit` safe: the next version of the row is one nobody has used, because the UPDATE
computes it from the row itself.
The last part of `Coherent` is what is left of the register when anyone may delete
(`staleCache`): an answer may be stale, but it is a value this secret once had, under
the version it had it under.

`StoreCacheSound` and `StoreImplementsRegister` are under `ServerDeletes`; other
processes may create, update and read.  `CacheInv` says a cache entry, and a row the
server is about to put there, has the id of the row that is there now; with
`LedgerInv`, equal versions then mean equal values.  The refinement is step by step:
each action maps to `Create`, `Put`, `Remove`, `Read`, `Reply` or a stutter.

`StoreHistoryCapped` has no hypothesis.  `CapInv` counts: the history of a name is
above the cap by at most the number of calls that have archived a version and are
still to count or prune.  A call that prunes takes away at least one row, since its
count found one in excess, and a call that does not has found none above the cap.

`StoreAuditAccounts` has no hypothesis either.  It counts the calls between the
statement that changed the row, or found nothing to change, and their audit entry: each
leaves that set with its entry or with a fault.

`StoreHistoryContiguous`, `StoreHistoryWindow` and
`StoreSaveReplacesWhatWasSeen` are under `ServerWrites` and share `SoleInv`.  It says
that the row of a call in the middle of an update does not change under it
(`RowKept`) and, in `HistoryInv`, that from the oldest kept version up to the
row's own none is missing, the row's own included between `ArchiveRow` and `Commit`
(the half-done state that a kill can leave behind and the next update meets).  While
nothing has failed, the kept versions are the last ones up to the cap, one row for
each, and one more until the prune.

**`UiLogin_proofs`.**  `LoginLockoutHolds` rests on `LockInv`: a login that waits for
its hash started before the failure that locked its address, since the gate is
shut after it.  The three session theorems rest on `SessionInv`: a row keeps the
end it was given when its token was minted and was last seen before that end, and
a token that is over has no row.  `LoginFailuresPerWindow` counts failures in the
*last* window, wherever the fixed windows of the code fall.  `FailuresInv` splits
them at the start of the entry's window: an open window counts those since, and
those before it were fewer than the limit because that window ended without a
lockout; a locked address gets failures only from the logins that were already
waiting, so that failures and waiting logins together keep their sum.

**`ApiGate_proofs`.**  `KeyInv` says that no two consumers have one key and that
whoever holds a barred key is revoked.  Rotation is the case that needs it: the
key of a revoked consumer may be replaced, and the new one must not work either,
which holds because `Rotated` leaves `active` alone.  `PastTheGate` then gives what
a caller is that has passed both hooks.  What it is handed is judged read by read
(`HandlerGuarded`): the grant is asked of the row of the same SELECT, whatever has
happened since the hooks.  A key that is withdrawn after the hooks still gets the
answer, and `ValuesGuarded` does not deny it.

`RateInv` splits the requests of the last window in two, those that may be of the
consumer's current fixed window (`Late`) and those before it (`Early`).  The first of a
fixed window is at its first moment, so that those after that moment (`After`) are fewer
than the limit; and when the next one opens, only those are still in the stretch.  Hence
less than two limits in any stretch, and not one: the bound is exact.
`AlertInv` says that what was sent in the last window is what the
limiter remembers, for its window does slide.  `FailsInv` says that an open entry of
the lockout never counts more than the wrong keys of the last window, so that a
lockout is earned.  `McpValuesGuarded` and `McpLimitsHold` carry the theorems over
to the MCP server, since each of its steps is a step of `ApiGate` (`ToolsAreCalls`).

**`UiClient_proofs`.**  `UiOwnForm` and `UiEditKept` rest on `PageInv`.  `BootInv` says
that nothing happens before the first answer to `boot`.  The core is
`FormInv`: while a user is on screen the form is that user's or nobody's, and behind
a login that would resume, it is that of the user it would resume for.  `TaskInv`
says what a handler that waits can still do, whose answer it can get with the cookie
it was sent with, and `KeptInv` that a form a 401 interrupted is on screen, or behind
such a login, and that no handler that waits could replace it.

**`Proxy_proofs`.**  `ProxyChildComplete` and `ProxyCallsAgree` rest on `ProxyInv`: from
the request to the end of a child everything is decided by `started[g]`, the entry the
guard read, and never by the manifest as it is now.  While the gateway reads, each answer
is among what was readable since it began (`Arrived`, `Watched`), and what is fetched is
the answer for each name (`Complete`).  `OAuthFileHeals` needs an
invariant over all phases of a guard.  `HealInv` says, for a guard that has the file
to itself, at each phase what the file holds and what a save under way will make of
it: a first attempt may fail, but then leaves no credentials that a second attempt
would fail with; a verifier in the file is that of the page just opened.  `Doomed` is
the only other way: the user refused or approved another page.  `PortInv` and
`AloneInv` say why the guard stays alone: it holds the callback port.
`ProxyFileHeals` carries it over by step simulation (`ProxyGuardsAreOAuth`).

**`Watchdog_proofs`.**  `WatchdogTypeCorrect` needs no hypothesis; the three safety
theorems assume `NoTornFile`, and hold for any number of processes, loops or not, quiet
or not, as long as no two sweeps overlapped.  `SweepInv` is about what is *known*: the
file between sweeps, the local state from the decision to the end of a sweep
(`KnownOK`).  It says that a pending alert tells what is known and not yet heard, that
people have heard what is known of every other target unless an alert of it was lost or
kept quiet, and that the failure tally is the streak of unhealthy results, carried
through the file from process to process and across kills.

**`Backup_proofs`.**  The lemma under everything is `KeepMonotone`: a date that a plan
made of more dates keeps, a plan made of fewer keeps too, since the dates and the
weeks that are newer can only become fewer (a cardinality argument).  It is why a
plan made of what earlier prunes have left is as good as one made of everything,
and why a key condemned on an old listing is still beyond the window when its
DELETE goes out.  `WindowInv` says so: every object is of a date that was made,
and every condemned key is beyond the window of what was made.
`BackupWindowKept` follows for any number of runners and failures.

`BackupWindowOnly` needs the converse, `KeepOfKept`: a plan made of what a plan has
kept keeps all of it, so a window once reached is stable.  `OnlyInv` then says that
in the middle of a prune every key of the prefix is condemned or in the window, and
that nothing but a put, which unsettles the prefix, adds a date.
`BackupManifestHonest` and `BackupManifestRestorable` rest on `HonestInv`: the manifest
a run carries accounts for every source it has visited, and one in the store for all
of them.  A source is accounted for when it is named as failed, when its object is
there, or when the date is beyond the window, which by `KeepMonotone` it stays.
`HonestInv` has a parameter for what "there" is.  With one runner it is the bytes of that
run or a later one (`"intact"`), and `BegunInv` says of which: no object has the bytes of
a run after the last one begun on its date.  So they are those of the manifest's own run
unless another was begun on that date.  With any number, a slow run may put its older bytes
over later ones, but an object is an object (`"there"`): what takes it away is a DELETE,
whose key is beyond the window whoever condemned it, and that theorem has no hypothesis.
`ManifestRestorable` is in no run: with one runner `ManifestHonest` implies it.  TLC
finds it true of two runners too (a collection and an agent, 3 runs in 4 days, weeks of
one day, a window of two dates, 1 failure or kill: 686,098 states).

`BackupLoopPlansWindow` is about the loop itself, for any finite set of dates.
`RankOrder` and `NewestRank` say that the dates can be gone through from the newest to
the oldest.  The state of the loop after `n` dates has a closed form, `After(dates, n)`:
it has kept the dates of `Keep` among the newest `n`, and seen their weeks.
`WeeklyVisit` is the core: the loop takes a date exactly when it is the newest of its
week among those past the daily window and fewer than `RetainWeekly` newer
weeks were seen.  What a recursive function computes is an induction; here it is the
least index at which the function and the closed form would differ (`LeastNat`, from
the well-foundedness of the naturals), and at that index they agree.

**`GatewayCli_proofs`.**  Neither property is inductive.  `KeyInv` adds that every key in
memory is that of the salt in the file or of a lost one, and that a process without a
salt finds none in the file, or a lost one: the salt it stores then replaces nothing that
is not lost.  `Sealed` is what `Readable` says of one file; a restore mixes two files, and
with them their salts, which it loses if they differ.  `BlankInv` adds the copies of the
file and the value that a process between its two calls is about to write.

**Only checked, not proved.**  `HeardEventually`, since liveness under fairness is out
of the prover's reach; its bounds are those of `watch`.  Every other property of a
passing run is proved.  The type invariants of the watchdog and the CLI are proved
and in no run.

## 5. What is not modelled, and the plan

Not modelled:

- how a probe of the watchdog classifies an answer (`watchdog/probe.ts`), the
  individual sinks of alerts, and the texts of all of them: pure functions and I/O
  with no state of their own;
- `backup/restore.ts`, which writes nothing but a scratch collection of Qdrant, the
  signing and sealing of objects, and the local last-run record, which nothing
  reads;
- the origin check, cookie texts and field validation of the UI server, and the
  rotation of a UI password that is already set;
- what a rotation report computes from dates, tags and descriptions; audit log
  entries of reads;
- what a regular expression of the policy matches; the alert of a denied call;
  `structuredContent`, which the redaction leaves as it is;
- configuration and TLS, read once at the start; cryptographic primitives;
  file and option parsing, formatting, styles and assets, deployment scripts.

What is left to do, in order:

1. **Hazards without a property**: what a late answer does to a form that was opened
   meanwhile, and a client registration that the authorization server forgot, as
   properties of `UiClient` and `OAuth`, if one can be stated that the code keeps.
2. **Restore**: `backup/restore.ts` against the manifests of `Backup`.
3. **The register with more writers**: what reads and writes implement when other
   processes delete as well (a register whose reads may be stale for one TTL);
   `Coherent` says how stale they may be in content, not yet in time.
