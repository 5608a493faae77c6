------------------------------- MODULE Backup -------------------------------
(***************************************************************************)
(* The backup job (src/backup/runner.ts, store.ts): a run uploads every    *)
(* source under the date of its start, writes a manifest and prunes the    *)
(* old dates of each prefix.                                               *)
(*                                                                         *)
(* A source is a Qdrant collection, the database of the gateway or a Letta *)
(* agent.  Any request may fail, also after the object store has done what *)
(* it was asked, and a process may be killed at any await.  The container  *)
(* starts a run in an endless loop and a `run` command may be given beside *)
(* it.  The bytes of an object are the number of the run that made them.   *)
(***************************************************************************)
EXTENDS Retention, Sequences

CONSTANTS
  Plain,      \* the sequence of the collections and the gateway database
  Agents,     \* the sequence of the Letta agents
  PruneOrder, \* the sequence of the key prefixes
  PrefixOf,   \* PrefixOf[s]: the prefix of the keys of source s
  Runners,    \* the processes that run backups
  MaxDay,     \* bound: days
  MaxRuns,    \* bound: runs begun
  MaxFaults   \* bound: requests that fail, processes killed

Elements(seq) == {seq[i] : i \in DOMAIN seq}

Sources == Elements(Plain) \cup Elements(Agents)

Days == 0 .. MaxDay

ASSUME BackupAssumption ==
  /\ Plain \in Seq(Sources) /\ Plain # <<>>
  /\ Agents \in Seq(Sources)
  /\ PruneOrder \in Seq(Elements(PruneOrder)) /\ PruneOrder # <<>>
  /\ PrefixOf \in [Sources -> Elements(PruneOrder)]
  /\ MaxDay \in Nat
  /\ MaxRuns \in Nat
  /\ MaxFaults \in Nat

\* A collection, or the database, is no agent.
ASSUME SourcesAssumption == Elements(Plain) \cap Elements(Agents) = {}

VARIABLES
  today,    \* the date
  store,    \* store[s][d]: the run whose bytes the object of s of date d holds, 0 if there is none
  dated,    \* dated[d]: manifest/<d>.json, or NoManifest
  latest,   \* manifest/latest.json, or NoManifest
  pc,       \* pc[p]: the next step of the run of p
  job,      \* job[p]: the locals of that run
  runs,     \* ghost: runs begun
  faults,   \* ghost: failures and kills
  made,     \* ghost: made[x]: the dates under which an object of prefix x was ever put
  settled,  \* ghost: settled[x]: nothing has been put under x since its last whole prune
  begun     \* ghost: begun[d]: the last run that was begun on date d, 0 if there was none

vars == <<today, store, dated, latest, pc, job, runs, faults, made, settled, begun>>

manifestVars == <<dated, latest>>

----------------------------------------------------------------------------

Labels == {"idle", "upload", "export", "manifest", "latest", "prune", "delete"}

Key == Sources \X Days

\* `assets` and `failed` are the sources the manifest lists and those its errors name.
Manifest == [run : Nat, date : Days, assets : SUBSET Sources, failed : SUBSET Sources]

NoManifest == [run |-> 0, date |-> 0, assets |-> {}, failed |-> {}]

Job == [manifest : Manifest, left : Seq(Sources), prefixes : Seq(Elements(PruneOrder)),
        doomed : SUBSET Key]

NoJob == [manifest |-> NoManifest, left |-> <<>>, prefixes |-> <<>>, doomed |-> {}]

KeysOf(x) == {k \in Key : PrefixOf[k[1]] = x /\ store[k[1]][k[2]] # 0}

DatesOf(x) == {k[2] : k \in KeysOf(x)}

Init ==
  /\ today = 0
  /\ store = [s \in Sources |-> [d \in Days |-> 0]]
  /\ dated = [d \in Days |-> NoManifest]
  /\ latest = NoManifest
  /\ pc = [p \in Runners |-> "idle"]
  /\ job = [p \in Runners |-> NoJob]
  /\ runs = 0
  /\ faults = 0
  /\ made = [x \in Elements(PruneOrder) |-> {}]
  /\ settled = [x \in Elements(PruneOrder) |-> TRUE]
  /\ begun = [d \in Days |-> 0]

Goto(p, label, j) ==
  /\ pc' = [pc EXCEPT ![p] = label]
  /\ job' = [job EXCEPT ![p] = j]

Fault == faults < MaxFaults /\ faults' = faults + 1

----------------------------------------------------------------------------
\* A run takes its date once and for all at its start.

DateOfRun_LocalTime == today + 1

DateOfRun == today

StartRun(p) ==
  /\ pc[p] = "idle"
  /\ runs < MaxRuns
  /\ runs' = runs + 1
  /\ begun' = [begun EXCEPT ![DateOfRun] = runs + 1]
  /\ Goto(p, "upload",
          [NoJob EXCEPT !.manifest.run = runs + 1, !.manifest.date = DateOfRun, !.left = Plain])
  /\ UNCHANGED <<today, store, manifestVars, faults, made, settled>>

\* Where a run goes when it is through with a source: to the next one, to the export of
\* the agents, or to the manifest.
AfterSource(j) ==
  IF Len(j.left) > 1 THEN "upload"
  ELSE IF Head(j.left) \in Elements(Agents) THEN "manifest" ELSE "export"

Listed(j, s) == [j EXCEPT !.manifest.assets = @ \cup {s}]

Recorded_First(j, group) ==
  IF group = {} THEN j ELSE [j EXCEPT !.manifest.failed = @ \cup {CHOOSE s \in group : TRUE}]

\* errors.push for a source, or for the agents together.
Recorded(j, group) == [j EXCEPT !.manifest.failed = @ \cup group]

\* PUT of the object of the source s of a run.
Put(p, s) ==
  LET m == job[p].manifest
      x == PrefixOf[s]
  IN  /\ store' = [store EXCEPT ![s][m.date] = m.run]
      /\ made' = [made EXCEPT ![x] = @ \cup {m.date}]
      /\ settled' = [settled EXCEPT ![x] = FALSE]

Upload(p) ==
  /\ pc[p] = "upload"
  /\ LET s == Head(job[p].left)
     IN  /\ Put(p, s)
         /\ Goto(p, AfterSource(job[p]), [Listed(job[p], s) EXCEPT !.left = Tail(@)])
  /\ UNCHANGED <<today, manifestVars, runs, faults, begun>>

\* The snapshot, the capture or the upload fails, or the answer to the upload is lost.
UploadFails(p) ==
  /\ pc[p] = "upload"
  /\ Fault
  /\ LET s == Head(job[p].left)
     IN  /\ Put(p, s) \/ UNCHANGED <<store, made, settled>>
         /\ Goto(p, AfterSource(job[p]), [Recorded(job[p], {s}) EXCEPT !.left = Tail(@)])
  /\ UNCHANGED <<today, manifestVars, runs, begun>>

\* All the agents are exported before the first of them is uploaded ...
ExportAgents(p) ==
  /\ pc[p] = "export"
  /\ Goto(p, IF Agents = <<>> THEN "manifest" ELSE "upload", [job[p] EXCEPT !.left = Agents])
  /\ UNCHANGED <<today, store, manifestVars, runs, faults, made, settled, begun>>

\* ... so that one export that fails fails them all.
ExportFails(p) ==
  /\ pc[p] = "export"
  /\ Fault
  /\ Goto(p, "manifest", Recorded(job[p], Elements(Agents)))
  /\ UNCHANGED <<today, store, manifestVars, runs, made, settled, begun>>

----------------------------------------------------------------------------
\* The manifest: a dated copy, and then the latest one.

StartPrune(j) == [j EXCEPT !.prefixes = PruneOrder]

PutDated(p) ==
  /\ pc[p] = "manifest"
  /\ dated' = [dated EXCEPT ![job[p].manifest.date] = job[p].manifest]
  /\ Goto(p, "latest", job[p])
  /\ UNCHANGED <<today, store, latest, runs, faults, made, settled, begun>>

PutLatest(p) ==
  /\ pc[p] = "latest"
  /\ latest' = job[p].manifest
  /\ Goto(p, "prune", StartPrune(job[p]))
  /\ UNCHANGED <<today, store, dated, runs, faults, made, settled, begun>>

\* A failure at the first copy skips the second. The manifest that was written knows of
\* neither.
PutManifestFails(p) ==
  /\ Fault
  /\ \/ /\ pc[p] = "manifest"
        /\ UNCHANGED latest
        /\ dated' \in {dated, [dated EXCEPT ![job[p].manifest.date] = job[p].manifest]}
     \/ /\ pc[p] = "latest"
        /\ UNCHANGED dated
        /\ latest' \in {latest, job[p].manifest}
  /\ Goto(p, "prune", StartPrune(job[p]))
  /\ UNCHANGED <<today, store, runs, made, settled, begun>>

----------------------------------------------------------------------------
\* pruneRetention of one prefix after the other.

NextPrefix(p) ==
  LET j == [job[p] EXCEPT !.prefixes = Tail(@), !.doomed = {}]
  IN  IF j.prefixes = <<>> THEN Goto(p, "idle", NoJob) ELSE Goto(p, "prune", j)

Doomed_WholeBucket(x) ==
  {k \in KeysOf(x) : k[2] \notin PlanLoop(UNION {DatesOf(y) : y \in Elements(PruneOrder)})}

Doomed_OldestDate(x) ==
  {k \in KeysOf(x) : /\ k[2] \notin PlanLoop(DatesOf(x))
                     /\ \A d \in DatesOf(x) : k[2] <= d}

\* The keys to prune, by what the listing of the prefix says.
Doomed(x) == {k \in KeysOf(x) : k[2] \notin PlanLoop(DatesOf(x))}

ListKeys(p) ==
  /\ pc[p] = "prune"
  /\ Goto(p, "delete", [job[p] EXCEPT !.doomed = Doomed(Head(job[p].prefixes))])
  /\ UNCHANGED <<today, store, manifestVars, runs, faults, made, settled, begun>>

Removed(k) == [store EXCEPT ![k[1]][k[2]] = 0]

\* The keys come in the order of the listing, which is the object store's.
DeleteObject(p) ==
  /\ pc[p] = "delete"
  /\ \E k \in job[p].doomed :
       /\ store' = Removed(k)
       /\ Goto(p, "delete", [job[p] EXCEPT !.doomed = @ \ {k}])
  /\ UNCHANGED <<today, manifestVars, runs, faults, made, settled, begun>>

FinishPrune(p) ==
  /\ pc[p] = "delete"
  /\ job[p].doomed = {}
  /\ NextPrefix(p)
  /\ settled' = [settled EXCEPT ![Head(job[p].prefixes)] = TRUE]
  /\ UNCHANGED <<today, store, manifestVars, runs, faults, made, begun>>

\* The listing or a DELETE fails: the keys that are left stay for another run.
PruneFails(p) ==
  /\ pc[p] \in {"prune", "delete"}
  /\ Fault
  /\ store' \in {store} \cup {Removed(k) : k \in job[p].doomed}
  /\ NextPrefix(p)
  /\ UNCHANGED <<today, manifestVars, runs, made, settled, begun>>

----------------------------------------------------------------------------
Kill(p) ==
  /\ pc[p] # "idle"
  /\ Fault
  /\ Goto(p, "idle", NoJob)
  /\ UNCHANGED <<today, store, manifestVars, runs, made, settled, begun>>

NextDay ==
  /\ today < MaxDay
  /\ today' = today + 1
  /\ UNCHANGED <<store, manifestVars, pc, job, runs, faults, made, settled, begun>>

Next ==
  \/ \E p \in Runners :
       \/ StartRun(p)
       \/ Upload(p) \/ UploadFails(p) \/ ExportAgents(p) \/ ExportFails(p)
       \/ PutDated(p) \/ PutLatest(p) \/ PutManifestFails(p)
       \/ ListKeys(p) \/ DeleteObject(p) \/ FinishPrune(p) \/ PruneFails(p)
       \/ Kill(p)
  \/ NextDay

Spec == Init /\ [][Next]_vars
----------------------------------------------------------------------------
TypeOK ==
  /\ today \in Days
  /\ store \in [Sources -> [Days -> Nat]]
  /\ dated \in [Days -> Manifest]
  /\ latest \in Manifest
  /\ pc \in [Runners -> Labels]
  /\ job \in [Runners -> Job]
  /\ runs \in Nat
  /\ faults \in Nat
  /\ made \in [Elements(PruneOrder) -> SUBSET Days]
  /\ settled \in [Elements(PruneOrder) -> BOOLEAN]
  /\ begun \in [Days -> Nat]

\* Retention is decided by what is left in the store, run after run, and still never
\* deletes a date that a plan made of every backup there ever was would keep, whatever
\* fails or is killed in between and however runs overlap.
WindowKept == \A x \in Elements(PruneOrder) : Keep(made[x]) \subseteq DatesOf(x)

\* ... and once a prune has gone through, nothing else is left: what earlier failures
\* left behind is gone as well.
WindowOnly == \A x \in Elements(PruneOrder) : settled[x] => DatesOf(x) = Keep(made[x])

\* planRetention's loop keeps the daily and the weekly window and nothing else.
LoopPlansWindow == \A x \in Elements(PruneOrder) : PlanLoop(DatesOf(x)) = Keep(DatesOf(x))

\* Nothing is ever skipped silently: a manifest in the store accounts for every source,
\* and what it lists is there until retention drops the date, with the very bytes that the
\* manifest describes: of its own run, as long as that is the last one begun on its date.
\* Where another run was begun on the same date the bytes may be that one's, whether or
\* not it came to write a manifest: docs/backups.md:105 says that a second run "never
\* clobbers an earlier one", but the keys hold the date only (runner.ts:49, 72). A run of
\* another date never replaces anything.
ManifestHonest ==
  \A m \in {dated[d] : d \in Days} \cup {latest} : m.run # 0 =>
    \A s \in Sources :
      \/ s \in m.failed
      \/ /\ s \in m.assets
         /\ \/ store[s][m.date] \in m.run .. begun[m.date]
            \/ m.date \notin Keep(made[PrefixOf[s]])

\* However many runs overlap, a manifest accounts for every source, and what it lists can
\* be restored, from whichever run, until retention drops the date.
ManifestRestorable ==
  \A m \in {dated[d] : d \in Days} \cup {latest} : m.run # 0 =>
    \A s \in Sources :
      \/ s \in m.failed
      \/ /\ s \in m.assets
         /\ m.date \in Keep(made[PrefixOf[s]]) => store[s][m.date] # 0
=============================================================================
