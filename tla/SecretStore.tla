---------------------------- MODULE SecretStore -----------------------------
(***************************************************************************)
(* The secrets and secret_history tables of the gateway's SQLite file      *)
(* (src/storage/sqlite.ts), the service that works on them                 *)
(* (src/core/secrets-service.ts) and the server's cache of decrypted       *)
(* values (src/core/cache.ts).                                             *)
(*                                                                         *)
(* Several operating-system processes have the file open: the gateway      *)
(* server and every local `gateway secret ...` command.  No code opens a   *)
(* transaction, so each SQL statement commits on its own and the unit of   *)
(* interleaving between processes is the statement: a call is a sequence   *)
(* of steps, one for each statement whose outcome another process can      *)
(* change.  Inside one process a call runs to its end without an await, so *)
(* a process has one call in flight at most.                               *)
(*                                                                         *)
(* Callers are authorised: a call refused by a grant, a role or a          *)
(* validation changes none of this state.  Descriptions, tags, grants and  *)
(* timestamps are left out, a metadata update keeps its control.           *)
(***************************************************************************)
EXTENDS Naturals, FiniteSets

CONSTANTS
  Names,       \* secret names
  Values,      \* plaintexts
  NoValue,     \* no plaintext: the value of an absent row, of a metadata update
  Server,      \* the gateway server process
  Clis,        \* the local CLI processes
  Writers,     \* the processes that create and update secrets
  Deleters,    \* the processes that delete secrets
  MaxHistory,  \* SqliteStorage.maxHistory
  MaxOps,      \* bound: write calls begun
  MaxFaults    \* bound: calls cut short by a kill or a failing statement

Procs == {Server} \cup Clis

ASSUME ProcessAssumption ==
  /\ Server \notin Clis
  /\ Writers \subseteq Procs
  /\ Deleters \subseteq Procs
ASSUME ValueAssumption == NoValue \notin Values
ASSUME BoundAssumption ==
  /\ MaxHistory \in Nat
  /\ MaxOps \in Nat
  /\ MaxFaults \in Nat

VARIABLES
  rows,      \* rows[n]: the row of table secrets with name n, or Missing
  history,   \* the rows of table secret_history
  audit,     \* audit[n]: success entries 'create' and 'update' of n in audit_log
  cache,     \* cache[n]: SecretCache entry of the server, or Missing
  tab,       \* tab[n]: the version an open browser form of n was loaded at, 0 if none
  pc,        \* pc[p]: the next statement of the call p is serving
  job,       \* job[p]: the locals of that call
  ops,       \* ghost: write calls begun, the source of fresh row ids
  faults,    \* ghost: calls cut short by a kill or a failing statement
  commits,   \* ghost: commits[n]: INSERTs and UPDATEs that changed the row of n
  vain,      \* ghost: vain[n]: updates of n that came to their end and changed no row
  ledger     \* ghost: ledger[n]: every row that n ever had

vars == <<rows, history, audit, cache, tab, pc, job, ops, faults, commits, vain, ledger>>

----------------------------------------------------------------------------

\* A row. Its id is random in the code, so the row of a secret that is deleted
\* and created again is another row: ids tell the two apart.  An archived row
\* and a cache entry carry the same fields (the id of a cache entry is a ghost:
\* CacheEntry has the value and the version alone).
Row == [id : Nat, version : Nat, value : Values \cup {NoValue}]

Missing == [id |-> 0, version |-> 0, value |-> NoValue]

\* A row of secret_history: `op` stands for its autoincrement id.
Archived == [op : Nat, name : Names, row : Row]

Labels == {"idle", "hit", "read", "load", "archive", "count", "prune", "commit",
           "finish", "created"}

\* The labels of a call that is writing a new value or metadata, before the UPDATE.
Updating == {"load", "archive", "count", "prune", "commit"}

Job == [name : Names \cup {NoValue}, new : Values \cup {NoValue}, row : Row,
        expect : Nat, excess : Nat, op : Nat]

NoJob == [name |-> NoValue, new |-> NoValue, row |-> Missing,
          expect |-> 0, excess |-> 0, op |-> 0]

HistoryOf(n) == {h \in history : h.name = n}

Init ==
  /\ rows = [n \in Names |-> Missing]
  /\ history = {}
  /\ audit = [n \in Names |-> 0]
  /\ cache = [n \in Names |-> Missing]
  /\ tab = [n \in Names |-> 0]
  /\ pc = [p \in Procs |-> "idle"]
  /\ job = [p \in Procs |-> NoJob]
  /\ ops = 0
  /\ faults = 0
  /\ commits = [n \in Names |-> 0]
  /\ vain = [n \in Names |-> 0]
  /\ ledger = [n \in Names |-> {}]

Goto(p, label, j) ==
  /\ pc' = [pc EXCEPT ![p] = label]
  /\ job' = [job EXCEPT ![p] = j]

Return(p) == Goto(p, "idle", NoJob)

\* A write call begins: it gets a number no other call has.
Begin(p, label, j) ==
  /\ pc[p] = "idle"
  /\ ops < MaxOps
  /\ ops' = ops + 1
  /\ Goto(p, label, [j EXCEPT !.op = ops + 1])

----------------------------------------------------------------------------
\* Creating a secret: one INSERT, which the UNIQUE constraint on the name
\* refuses if the name exists (then the call throws and nothing has changed).

Create(p, n, v) ==
  /\ p \in Writers
  /\ rows[n] = Missing
  /\ Begin(p, "created", [NoJob EXCEPT !.name = n])
  /\ LET row == [id |-> ops + 1, version |-> 1, value |-> v]
     IN  /\ rows' = [rows EXCEPT ![n] = row]
         /\ ledger' = [ledger EXCEPT ![n] = @ \cup {row}]
  /\ commits' = [commits EXCEPT ![n] = @ + 1]
  /\ UNCHANGED <<history, audit, cache, tab, faults, vain>>

FinishCreate_Unlogged(p) ==
  /\ pc[p] = "created"
  /\ Return(p)
  /\ UNCHANGED <<rows, history, audit, cache, tab, ops, faults, commits, vain, ledger>>

FinishCreate(p) ==
  /\ pc[p] = "created"
  /\ audit' = [audit EXCEPT ![job[p].name] = @ + 1]
  /\ Return(p)
  /\ UNCHANGED <<rows, history, cache, tab, ops, faults, commits, vain, ledger>>

----------------------------------------------------------------------------
\* Updating a secret.  storage.updateSecret selects the row, archives what it
\* read, counts and prunes the history, and only then updates the row: an
\* update without a new value goes from the SELECT to the UPDATE.

Loaded(j, row) == [j EXCEPT !.row = row]

AfterLoad(new) == IF new = NoValue THEN "commit" ELSE "archive"

\* PUT /v1/secret/:name and the CLI: the SELECT is the first statement that
\* matters (it throws on an absent row; so does the CLI's own check before it).
StartUpdate(p, n, new) ==
  /\ p \in Writers
  /\ rows[n] # Missing
  /\ Begin(p, AfterLoad(new), Loaded([NoJob EXCEPT !.name = n, !.new = new], rows[n]))
  /\ UNCHANGED <<rows, history, audit, cache, tab, faults, commits, vain, ledger>>

\* An update that names no field, as PUT /v1/secret/:name with an empty body: the
\* SELECT still throws on an absent row, no UPDATE runs, and what follows the UPDATE
\* of any other call follows here too.
StartEmptyUpdate(p, n) ==
  /\ p \in Writers
  /\ rows[n] # Missing
  /\ Begin(p, "finish", [NoJob EXCEPT !.name = n])
  /\ vain' = [vain EXCEPT ![n] = @ + 1]
  /\ UNCHANGED <<rows, history, audit, cache, tab, faults, commits, ledger>>

\* The browser loads the form of n: the response carries the version.
UiOpen(n) ==
  /\ pc[Server] = "idle"
  /\ rows[n] # Missing
  /\ tab' = [tab EXCEPT ![n] = rows[n].version]
  /\ UNCHANGED <<rows, history, audit, cache, pc, job, ops, faults, commits, vain, ledger>>

Form_Unchecked(n) == tab[n] # 0

\* The route's own test of a form before it calls the service.
FormIsCurrent(n) == tab[n] # 0 /\ tab[n] = rows[n].version

\* PUT /api/secrets/:name: the route reads the row (404 if absent), compares the
\* version (409 if it moved), and then calls the service, which reads it again.
StartUiSave(n, new) ==
  /\ Server \in Writers
  /\ rows[n] # Missing
  /\ FormIsCurrent(n)
  /\ Begin(Server, "load",
           [NoJob EXCEPT !.name = n, !.new = new, !.expect = tab[n]])
  /\ UNCHANGED <<rows, history, audit, cache, tab, faults, commits, vain, ledger>>

Load(p) ==
  /\ pc[p] = "load"
  /\ LET row == rows[job[p].name]
     IN  IF row = Missing
         THEN Return(p)
         ELSE Goto(p, AfterLoad(job[p].new), Loaded(job[p], row))
  /\ UNCHANGED <<rows, history, audit, cache, tab, ops, faults, commits, vain, ledger>>

\* INSERT INTO secret_history: the foreign key refuses the id of a row that is
\* gone, and the call throws.
ArchiveRow(p) ==
  /\ pc[p] = "archive"
  /\ LET j == job[p]
     IN  IF rows[j.name].id = j.row.id
         THEN /\ history' = history \cup {[op |-> j.op, name |-> j.name, row |-> j.row]}
              /\ Goto(p, "count", j)
         ELSE /\ Return(p)
              /\ UNCHANGED history
  /\ UNCHANGED <<rows, audit, cache, tab, ops, faults, commits, vain, ledger>>

Excess_Always(n) == TRUE

Excess_OffByOne(n) == Cardinality(HistoryOf(n)) > MaxHistory + 1

Excess(n) == Cardinality(HistoryOf(n)) > MaxHistory

\* SELECT COUNT(*): how many rows the next statement will delete is fixed here.
CountHistory(p) ==
  /\ pc[p] = "count"
  /\ LET n == job[p].name
     IN  IF Excess(n)
         THEN Goto(p, "prune",
                   [job[p] EXCEPT !.excess = Cardinality(HistoryOf(n)) - MaxHistory])
         ELSE Goto(p, "commit", job[p])
  /\ UNCHANGED <<rows, history, audit, cache, tab, ops, faults, commits, vain, ledger>>

Oldest_Reversed(s, gone) == \A h \in s \ gone, g \in gone : h.row.version <= g.row.version

\* ORDER BY version ASC LIMIT: SQLite may break a tie of versions either way.
OldestOf(s, gone) == \A h \in s \ gone, g \in gone : g.row.version <= h.row.version

Pruned(n, k, gone) ==
  /\ Cardinality(gone) = (IF k <= Cardinality(HistoryOf(n)) THEN k ELSE Cardinality(HistoryOf(n)))
  /\ OldestOf(HistoryOf(n), gone)

PruneHistory(p) ==
  /\ pc[p] = "prune"
  /\ \E gone \in SUBSET HistoryOf(job[p].name) :
       /\ Pruned(job[p].name, job[p].excess, gone)
       /\ history' = history \ gone
  /\ Goto(p, "commit", job[p])
  /\ UNCHANGED <<rows, audit, cache, tab, ops, faults, commits, vain, ledger>>

Bump_FromSnapshot(current, seen, new) ==
  [id |-> current.id, version |-> seen.version + 1, value |-> new]

\* SET value_enc = ..., version = version + 1: relative to the row as it is, not
\* as the call read it.
Bump(current, seen, new) ==
  [id |-> current.id, version |-> current.version + 1, value |-> new]

\* UPDATE ... WHERE name: no row if the secret is gone, and a row the call never
\* read if it was created again.
Commit(p) ==
  /\ pc[p] = "commit"
  /\ LET j == job[p]
         row == Bump(rows[j.name], j.row, j.new)
     IN  /\ IF rows[j.name] = Missing
            THEN /\ vain' = [vain EXCEPT ![j.name] = @ + 1]
                 /\ UNCHANGED <<rows, ledger, commits>>
            ELSE /\ commits' = [commits EXCEPT ![j.name] = @ + 1]
                 /\ UNCHANGED vain
                 /\ IF j.new = NoValue
                    THEN UNCHANGED <<rows, ledger>>
                    ELSE /\ rows' = [rows EXCEPT ![j.name] = row]
                         /\ ledger' = [ledger EXCEPT ![j.name] = @ \cup {row}]
         /\ Goto(p, "finish", j)
  /\ UNCHANGED <<history, audit, cache, tab, ops, faults>>

\* The cache of the process that ran the call: a CLI process has one of its own,
\* which ends with it.
Dropped(p, n) == IF p = Server THEN [cache EXCEPT ![n] = Missing] ELSE cache

\* After the UPDATE: cache.invalidate, then the audit entry, whether or not a
\* row was updated.
FinishUpdate(p) ==
  /\ pc[p] = "finish"
  /\ cache' = Dropped(p, job[p].name)
  /\ audit' = [audit EXCEPT ![job[p].name] = @ + 1]
  /\ Return(p)
  /\ UNCHANGED <<rows, history, tab, ops, faults, commits, vain, ledger>>

----------------------------------------------------------------------------
\* Deleting a secret: the foreign key cascades to the history of the row, and
\* the cache entry is dropped before the process runs anything else.  A name that
\* does not exist is deleted with success too.

History_NoCascade(id) == history

HistoryWithout(id) == {h \in history : h.row.id # id}

Dropped_Never(p, n) == cache

DroppedByDelete(p, n) == Dropped(p, n)

Delete(p, n) ==
  /\ p \in Deleters
  /\ pc[p] = "idle"
  /\ rows' = [rows EXCEPT ![n] = Missing]
  /\ history' = HistoryWithout(rows[n].id)
  /\ cache' = DroppedByDelete(p, n)
  /\ UNCHANGED <<audit, tab, pc, job, ops, faults, commits, vain, ledger>>

----------------------------------------------------------------------------
\* Reading a secret.  The cache answers if its version is the version of the
\* row; a miss decrypts the row, stamps last_accessed (a second SELECT, which
\* throws if the row is gone, and an UPDATE of no column kept here) and fills
\* the cache with what was decrypted.

Hit_AnyVersion(n) == cache[n] # Missing

CacheHit(n) == cache[n] # Missing /\ cache[n].version = rows[n].version

Get(p, n) ==
  /\ pc[p] = "idle"
  /\ rows[n] # Missing
  /\ LET j == [NoJob EXCEPT !.name = n]
     IN  IF p = Server /\ CacheHit(n)
         THEN Goto(p, "hit", Loaded(j, [rows[n] EXCEPT !.value = cache[n].value]))
         ELSE Goto(p, "read", Loaded(j, rows[n]))
  /\ UNCHANGED <<rows, history, audit, cache, tab, ops, faults, commits, vain, ledger>>

FinishHit(p) ==
  /\ pc[p] = "hit"
  /\ Return(p)
  /\ UNCHANGED <<rows, history, audit, cache, tab, ops, faults, commits, vain, ledger>>

FinishRead(p) ==
  /\ pc[p] = "read"
  /\ cache' = IF p = Server /\ rows[job[p].name] # Missing
              THEN [cache EXCEPT ![job[p].name] = job[p].row]
              ELSE cache
  /\ Return(p)
  /\ UNCHANGED <<rows, history, audit, tab, ops, faults, commits, vain, ledger>>

\* An entry older than its TTL is as good as gone: get() deletes it unread.
Expire(n) ==
  /\ cache[n] # Missing
  /\ cache' = [cache EXCEPT ![n] = Missing]
  /\ UNCHANGED <<rows, history, audit, tab, pc, job, ops, faults, commits, vain, ledger>>

\* POST /v1/cache/refresh.
RefreshCache ==
  /\ pc[Server] = "idle"
  /\ cache # [n \in Names |-> Missing]
  /\ cache' = [n \in Names |-> Missing]
  /\ UNCHANGED <<rows, history, audit, tab, pc, job, ops, faults, commits, vain, ledger>>

----------------------------------------------------------------------------
\* A process is killed between two statements of a call, and started again: the
\* tables keep what was committed, the cache of the server is empty.

Interrupt(p) ==
  /\ pc[p] # "idle"
  /\ faults < MaxFaults
  /\ faults' = faults + 1
  /\ Return(p)
  /\ UNCHANGED <<rows, history, audit, tab, ops, commits, vain, ledger>>

Crash(p) ==
  /\ Interrupt(p)
  /\ cache' = IF p = Server THEN [n \in Names |-> Missing] ELSE cache

\* The next statement throws (the file is locked for too long, the disk is full):
\* the call ends with an error and the process lives on.  An update that fails at
\* its audit entry has already dropped the cache entry.
StatementFails(p) ==
  /\ Interrupt(p)
  /\ \/ UNCHANGED cache
     \/ pc[p] = "finish" /\ cache' = Dropped(p, job[p].name)

UpdateStep(p) ==
  Load(p) \/ ArchiveRow(p) \/ CountHistory(p) \/ PruneHistory(p) \/ Commit(p) \/ FinishUpdate(p)

Next ==
  \/ \E p \in Procs, n \in Names :
       \/ \E v \in Values : Create(p, n, v)
       \/ \E new \in Values \cup {NoValue} : StartUpdate(p, n, new)
       \/ StartEmptyUpdate(p, n)
       \/ Delete(p, n)
       \/ Get(p, n)
  \/ \E n \in Names :
       \/ UiOpen(n)
       \/ \E new \in Values \cup {NoValue} : StartUiSave(n, new)
       \/ Expire(n)
  \/ \E p \in Procs :
       \/ FinishCreate(p)
       \/ UpdateStep(p)
       \/ FinishHit(p)
       \/ FinishRead(p)
       \/ Crash(p)
       \/ StatementFails(p)
  \/ RefreshCache

Spec == Init /\ [][Next]_vars
----------------------------------------------------------------------------
TypeOK ==
  /\ rows \in [Names -> Row]
  /\ history \in SUBSET Archived
  /\ audit \in [Names -> Nat]
  /\ cache \in [Names -> Row]
  /\ tab \in [Names -> Nat]
  /\ pc \in [Procs -> Labels]
  /\ job \in [Procs -> Job]
  /\ ops \in Nat
  /\ faults \in Nat
  /\ commits \in [Names -> Nat]
  /\ vain \in [Names -> Nat]
  /\ ledger \in [Names -> SUBSET Row]

Content(row) == [version |-> row.version, value |-> row.value]

\* Every copy of a version of a secret - its row, an archived row, a cache entry, the
\* answer a read is about to give, be it from a stale entry - is one that secret really
\* had, never one of another name, and no version of a row ever stood for two values:
\* with two processes in the middle of an update this rests on `version = version + 1`
\* being computed by the UPDATE and not from the row the call read.
Coherent ==
  /\ \A m, n \in Names : \A a \in ledger[m], b \in ledger[n] :
       a.id = b.id /\ a.version = b.version => m = n /\ a.value = b.value
  /\ \A n \in Names : {rows[n], cache[n]} \subseteq ledger[n] \cup {Missing}
  /\ \A h \in history : h.row \in ledger[h.name]
  /\ \A p \in Procs : pc[p] \in {"hit", "read"} =>
       \E e \in ledger[job[p].name] : Content(e) = Content(job[p].row)

\* The history of a name belongs to the secret that has the name now, whatever
\* was deleted and created again under it, and never runs ahead of its row: a
\* read of version k of n cannot return a value of an earlier secret called n.
HistoryOfLiveRow ==
  \A h \in history :
    /\ h.row.id = rows[h.name].id
    /\ h.row.version <= rows[h.name].version

\* The cap on the history survives overlapping updates: when no update is in
\* flight and none was cut short, a name has at most MaxHistory archived rows.
HistoryCapped ==
  faults = 0 /\ (\A p \in Procs : pc[p] \notin Updating) =>
    \A n \in Names : Cardinality(HistoryOf(n)) <= MaxHistory

\* The cache never stands in for another value: an entry that the version test of
\* getSecret would accept holds the value of the row.
CacheSound ==
  \A n \in Names : CacheHit(n) => cache[n].value = rows[n].value

\* The history has no hole: from the oldest version that is kept up to the
\* current one, every version is kept.
HistoryContiguous ==
  \A h \in history : \A k \in h.row.version .. (rows[h.name].version - 1) :
    \E g \in HistoryOf(h.name) : g.row.version = k

\* When nothing was cut short and no update is in flight, the history is exactly
\* the last MaxHistory superseded versions, one row for each.
HistoryWindow ==
  faults = 0 /\ (\A p \in Procs : pc[p] \notin Updating) =>
    \A n \in Names :
      LET last == rows[n].version
          kept == {h.row.version : h \in HistoryOf(n)}
      IN  /\ Cardinality(HistoryOf(n)) = Cardinality(kept)
          /\ kept = {k \in 1 .. last : k < last /\ k + MaxHistory >= last}

Unlogged(n) ==
  Cardinality({p \in Procs : job[p].name = n /\ pc[p] \in {"created", "finish"}})

\* The audit trail accounts for every change, whatever processes create, update and
\* delete beside each other: once its call has ended, a create or an update that took
\* effect has its entry, and a call cut short loses one entry at most.  The other way
\* round an entry does not mean a change: it may stand for an update that named no
\* field, or whose row was gone by its UPDATE; for nothing else, and for each once.
AuditAccounts ==
  \A n \in Names :
    /\ audit[n] + Unlogged(n) <= commits[n] + vain[n]
    /\ commits[n] + vain[n] <= audit[n] + Unlogged(n) + faults

\* A form saved in the browser with a new value replaces the version the form was
\* loaded at: a rotation made elsewhere in the meantime is not overwritten.
SaveReplacesWhatWasSeen ==
  [][\A p \in Procs :
       pc[p] = "commit" /\ pc'[p] = "finish" /\ job[p].expect # 0 /\ rows' # rows =>
         rows[job[p].name].version = job[p].expect]_vars

----------------------------------------------------------------------------
\* The promise the tables and the cache keep together.

Register == INSTANCE SecretRegister WITH
  reg <- [n \in Names |-> Content(rows[n])],
  answer <- [p \in Procs |->
               IF pc[p] \in {"hit", "read"} THEN Content(job[p].row) ELSE Content(Missing)]

\* Reads and writes behave as on one register for each name: a read answers, from
\* the cache or from the file, with the content the secret has at a moment of the
\* call.
ImplementsRegister == Register!Spec
=============================================================================
