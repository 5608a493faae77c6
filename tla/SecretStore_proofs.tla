------------------------- MODULE SecretStore_proofs -------------------------
(***************************************************************************)
(* Proofs about SecretStore, for every set of processes, names and values  *)
(* and every bound.                                                        *)
(***************************************************************************)
EXTENDS SecretStore, FiniteSetTheorems, TLAPS

\* A call in flight is about a name, and the rows it archives and counts are
\* finitely many.
TypeInv ==
  /\ TypeOK
  /\ IsFiniteSet(history)
  /\ \A p \in Procs : pc[p] # "idle" => job[p].name \in Names

LEMMA ServerIsAProcess == Server \in Procs
  BY DEF Procs

LEMMA MissingIsARow == Missing \in Row /\ NoJob \in Job
  BY DEF Missing, Row, NoJob, Job

\* The count of a finite history is a number, and so is what exceeds the cap.
LEMMA CountIsNat ==
  ASSUME IsFiniteSet(history), NEW n
  PROVE  /\ Cardinality(HistoryOf(n)) \in Nat
         /\ Excess(n) => Cardinality(HistoryOf(n)) - MaxHistory \in Nat
<1>1. IsFiniteSet(HistoryOf(n))
  BY FS_Subset DEF HistoryOf
<1>2. Cardinality(HistoryOf(n)) \in Nat
  BY <1>1, FS_CardinalityType
<1>3. QED
  BY <1>2, BoundAssumption DEF Excess

\* A call moves to its next statement with locals of the right shape.
LEMMA GotoType ==
  ASSUME TypeInv, NEW p \in Procs, NEW label \in Labels, NEW j \in Job,
         label = "idle" \/ j.name \in Names,
         Goto(p, label, j)
  PROVE  /\ pc' \in [Procs -> Labels]
         /\ job' \in [Procs -> Job]
         /\ \A q \in Procs : pc'[q] # "idle" => job'[q].name \in Names
  BY DEF Goto, TypeInv, TypeOK

LEMMA ReturnType ==
  ASSUME TypeInv, NEW p \in Procs, Return(p)
  PROVE  /\ pc' \in [Procs -> Labels]
         /\ job' \in [Procs -> Job]
         /\ \A q \in Procs : pc'[q] # "idle" => job'[q].name \in Names
<1>1. "idle" \in Labels
  BY DEF Labels
<1>2. QED
  BY <1>1, GotoType, MissingIsARow DEF Return

\* The same for a call that begins.
LEMMA BeginType ==
  ASSUME TypeInv, NEW p \in Procs, NEW label \in Labels, NEW j \in Job, j.name \in Names,
         Begin(p, label, j)
  PROVE  /\ pc' \in [Procs -> Labels]
         /\ job' \in [Procs -> Job]
         /\ \A q \in Procs : pc'[q] # "idle" => job'[q].name \in Names
         /\ ops' \in Nat
<1> DEFINE k == [j EXCEPT !.op = ops + 1]
<1>1. ops \in Nat
  BY DEF TypeInv, TypeOK
<1>2. k \in Job /\ k.name \in Names
  BY <1>1 DEF Job
<1>3. Goto(p, label, k) /\ ops' = ops + 1
  BY DEF Begin
<1> HIDE DEF k
<1>4. QED
  BY <1>1, <1>2, <1>3, GotoType

LEMMA TypeInit == Init => TypeInv
<1> SUFFICES ASSUME Init PROVE TypeInv
  OBVIOUS
<1>1. TypeOK
  BY MissingIsARow DEF Init, TypeOK, Labels
<1>2. IsFiniteSet(history)
  BY FS_EmptySet DEF Init
<1>3. QED
  BY <1>1, <1>2 DEF TypeInv, Init

LEMMA TypeStep == TypeInv /\ [Next]_vars => TypeInv'
<1> SUFFICES ASSUME TypeInv, [Next]_vars PROVE TypeInv'
  OBVIOUS
<1> USE MissingIsARow, ServerIsAProcess
<1>1. ASSUME NEW p \in Procs, NEW n \in Names, NEW v \in Values, Create(p, n, v)
      PROVE  TypeInv'
  <2> DEFINE j == [NoJob EXCEPT !.name = n]
  <2>1. j \in Job /\ j.name \in Names /\ "created" \in Labels
    BY DEF Job, NoJob, Labels
  <2>2. Begin(p, "created", j)
    BY <1>1 DEF Create
  <2> HIDE DEF j
  <2>3. [id |-> ops + 1, version |-> 1, value |-> v] \in Row
    BY DEF Row, TypeInv, TypeOK
  <2>4. QED
    BY <1>1, <2>1, <2>2, <2>3, BeginType DEF Create, TypeInv, TypeOK
<1>2. ASSUME NEW p \in Procs, FinishCreate(p)
      PROVE  TypeInv'
  BY <1>2, ReturnType DEF FinishCreate, TypeInv, TypeOK
<1>3. ASSUME NEW p \in Procs, NEW n \in Names, NEW new \in Values \cup {NoValue},
             StartUpdate(p, n, new)
      PROVE  TypeInv'
  <2> DEFINE j == Loaded([NoJob EXCEPT !.name = n, !.new = new], rows[n])
  <2>1. j \in Job /\ j.name \in Names /\ AfterLoad(new) \in Labels
    BY DEF Job, NoJob, Loaded, AfterLoad, Labels, TypeInv, TypeOK
  <2>2. Begin(p, AfterLoad(new), j)
    BY <1>3 DEF StartUpdate
  <2> HIDE DEF j
  <2>3. QED
    BY <1>3, <2>1, <2>2, BeginType DEF StartUpdate, TypeInv, TypeOK
<1>20. ASSUME NEW p \in Procs, NEW n \in Names, StartEmptyUpdate(p, n)
       PROVE  TypeInv'
  <2> DEFINE j == [NoJob EXCEPT !.name = n]
  <2>1. j \in Job /\ j.name \in Names /\ "finish" \in Labels
    BY DEF Job, NoJob, Labels
  <2>2. Begin(p, "finish", j)
    BY <1>20 DEF StartEmptyUpdate
  <2> HIDE DEF j
  <2>3. QED
    BY <1>20, <2>1, <2>2, BeginType DEF StartEmptyUpdate, TypeInv, TypeOK
<1>4. ASSUME NEW n \in Names, UiOpen(n)
      PROVE  TypeInv'
  BY <1>4 DEF UiOpen, TypeInv, TypeOK, Row
<1>5. ASSUME NEW n \in Names, NEW new \in Values \cup {NoValue}, StartUiSave(n, new)
      PROVE  TypeInv'
  <2> DEFINE j == [NoJob EXCEPT !.name = n, !.new = new, !.expect = tab[n]]
  <2>1. j \in Job /\ j.name \in Names /\ "load" \in Labels
    BY DEF Job, NoJob, Labels, TypeInv, TypeOK
  <2>2. Begin(Server, "load", j)
    BY <1>5 DEF StartUiSave
  <2> HIDE DEF j
  <2>3. QED
    BY <1>5, <2>1, <2>2, BeginType DEF StartUiSave, TypeInv, TypeOK
<1>6. ASSUME NEW p \in Procs, Load(p)
      PROVE  TypeInv'
  <2> DEFINE row == rows[job[p].name]
             j == Loaded(job[p], row)
             label == AfterLoad(job[p].new)
  <2>1. j \in Job /\ j.name \in Names /\ label \in Labels
    BY <1>6 DEF Load, Loaded, AfterLoad, Job, Labels, TypeInv, TypeOK
  <2>2. Return(p) \/ Goto(p, label, j)
    BY <1>6 DEF Load
  <2> HIDE DEF j, label
  <2>3. QED
    BY <1>6, <2>1, <2>2, GotoType, ReturnType DEF Load, TypeInv, TypeOK
<1>7. ASSUME NEW p \in Procs, ArchiveRow(p)
      PROVE  TypeInv'
  <2> DEFINE h == [op |-> job[p].op, name |-> job[p].name, row |-> job[p].row]
  <2>1. job[p] \in Job /\ job[p].name \in Names /\ "count" \in Labels
    BY <1>7 DEF ArchiveRow, Labels, TypeInv, TypeOK
  <2>2. h \in Archived
    BY <2>1 DEF Archived, Job
  <2>3. \/ Goto(p, "count", job[p]) /\ history' = history \cup {h}
        \/ Return(p) /\ UNCHANGED history
    BY <1>7 DEF ArchiveRow
  <2> HIDE DEF h
  <2>4. IsFiniteSet(history') /\ history' \in SUBSET Archived
    BY <2>2, <2>3, FS_AddElement DEF TypeInv, TypeOK
  <2>5. QED
    BY <1>7, <2>1, <2>3, <2>4, GotoType, ReturnType DEF ArchiveRow, TypeInv, TypeOK
<1>8. ASSUME NEW p \in Procs, CountHistory(p)
      PROVE  TypeInv'
  <2> DEFINE n == job[p].name
             j == [job[p] EXCEPT !.excess = Cardinality(HistoryOf(n)) - MaxHistory]
  <2>1. job[p] \in Job /\ n \in Names /\ {"prune", "commit"} \subseteq Labels
    BY <1>8 DEF CountHistory, Labels, TypeInv, TypeOK
  <2>2. \/ Excess(n) /\ Goto(p, "prune", j)
        \/ Goto(p, "commit", job[p])
    BY <1>8 DEF CountHistory
  <2>3. Excess(n) => j \in Job /\ j.name = n
    <3>1. Excess(n) => Cardinality(HistoryOf(n)) - MaxHistory \in Nat
      BY CountIsNat DEF TypeInv
    <3>2. QED
      BY <2>1, <3>1 DEF Job
  <2> HIDE DEF j
  <2>4. QED
    BY <1>8, <2>1, <2>2, <2>3, GotoType DEF CountHistory, TypeInv, TypeOK
<1>9. ASSUME NEW p \in Procs, PruneHistory(p)
      PROVE  TypeInv'
  <2>1. IsFiniteSet(history') /\ history' \subseteq history
    BY <1>9, FS_Subset DEF PruneHistory, TypeInv
  <2>2. job[p] \in Job /\ job[p].name \in Names /\ "commit" \in Labels
    BY <1>9 DEF PruneHistory, Labels, TypeInv, TypeOK
  <2>3. Goto(p, "commit", job[p])
    BY <1>9 DEF PruneHistory
  <2>4. QED
    BY <1>9, <2>1, <2>2, <2>3, GotoType DEF PruneHistory, TypeInv, TypeOK
<1>10. ASSUME NEW p \in Procs, Commit(p)
       PROVE  TypeInv'
  <2> DEFINE row == Bump(rows[job[p].name], job[p].row, job[p].new)
  <2>1. job[p].name \in Names /\ job[p] \in Job /\ "finish" \in Labels
    BY <1>10 DEF Commit, Labels, TypeInv, TypeOK
  <2>2. row \in Row
    <3>1. rows[job[p].name] \in Row /\ job[p].new \in Values \cup {NoValue}
      BY <2>1 DEF Job, TypeInv, TypeOK
    <3>2. QED
      BY <3>1 DEF Bump, Row
  <2>3. /\ rows' = rows \/ rows' = [rows EXCEPT ![job[p].name] = row]
        /\ \/ ledger' = ledger
           \/ ledger' = [ledger EXCEPT ![job[p].name] = @ \cup {row}]
        /\ commits' = commits \/ commits' = [commits EXCEPT ![job[p].name] = @ + 1]
        /\ vain' = vain \/ vain' = [vain EXCEPT ![job[p].name] = @ + 1]
        /\ Goto(p, "finish", job[p])
    <3>1. CASE rows[job[p].name] = Missing
      BY <1>10, <3>1 DEF Commit
    <3>2. CASE rows[job[p].name] # Missing /\ job[p].new = NoValue
      BY <1>10, <3>2 DEF Commit
    <3>3. CASE rows[job[p].name] # Missing /\ job[p].new # NoValue
      BY <1>10, <3>3 DEF Commit
    <3>4. QED
      BY <3>1, <3>2, <3>3
  <2> HIDE DEF row
  <2>4. /\ rows' \in [Names -> Row] /\ ledger' \in [Names -> SUBSET Row]
        /\ commits' \in [Names -> Nat] /\ vain' \in [Names -> Nat]
    BY <2>1, <2>2, <2>3 DEF TypeInv, TypeOK
  <2>5. UNCHANGED <<history, audit, cache, tab, ops, faults>>
    BY <1>10 DEF Commit
  <2>6. QED
    BY <2>1, <2>3, <2>4, <2>5, GotoType DEF TypeInv, TypeOK
<1>11. ASSUME NEW p \in Procs, FinishUpdate(p)
       PROVE  TypeInv'
  BY <1>11, ReturnType DEF FinishUpdate, Dropped, TypeInv, TypeOK
<1>12. ASSUME NEW p \in Procs, NEW n \in Names, Delete(p, n)
       PROVE  TypeInv'
  <2>1. IsFiniteSet(history') /\ history' \subseteq history
    BY <1>12, FS_Subset DEF Delete, HistoryWithout, TypeInv
  <2>2. QED
    BY <1>12, <2>1 DEF Delete, DroppedByDelete, Dropped, TypeInv, TypeOK
<1>13. ASSUME NEW p \in Procs, NEW n \in Names, Get(p, n)
       PROVE  TypeInv'
  <2>1. PICK row \in Row, label \in {"hit", "read"} :
          Goto(p, label, Loaded([NoJob EXCEPT !.name = n], row))
    BY <1>13 DEF Get, Row, TypeInv, TypeOK
  <2> DEFINE j == Loaded([NoJob EXCEPT !.name = n], row)
  <2>2. j \in Job /\ j.name \in Names /\ label \in Labels
    BY DEF Job, NoJob, Loaded, Labels
  <2>3. Goto(p, label, j)
    BY <2>1
  <2> HIDE DEF j
  <2>4. QED
    BY <1>13, <2>2, <2>3, GotoType DEF Get, TypeInv, TypeOK
<1>14. ASSUME NEW p \in Procs, FinishHit(p) \/ FinishRead(p)
       PROVE  TypeInv'
  <2>1. pc[p] # "idle" /\ Return(p)
    BY <1>14 DEF FinishHit, FinishRead
  <2>2. job[p].name \in Names /\ job[p].row \in Row
    BY <2>1 DEF TypeInv, TypeOK, Job
  <2>3. QED
    BY <1>14, <2>1, <2>2, ReturnType DEF FinishHit, FinishRead, TypeInv, TypeOK
<1>15. ASSUME NEW n \in Names, Expire(n)
       PROVE  TypeInv'
  BY <1>15 DEF Expire, TypeInv, TypeOK
<1>16. CASE RefreshCache
  BY <1>16 DEF RefreshCache, TypeInv, TypeOK
<1>17. ASSUME NEW p \in Procs, Crash(p) \/ StatementFails(p)
       PROVE  TypeInv'
  BY <1>17, ReturnType DEF Crash, StatementFails, Interrupt, Dropped, TypeInv, TypeOK
<1>18. CASE UNCHANGED vars
  BY <1>18 DEF vars, TypeInv, TypeOK
<1>19. QED
  BY <1>1, <1>2, <1>3, <1>4, <1>5, <1>6, <1>7, <1>8, <1>9, <1>10, <1>11, <1>12, <1>13,
     <1>14, <1>15, <1>16, <1>17, <1>18, <1>20 DEF Next, UpdateStep

LEMMA TypeInvariance == Spec => []TypeInv
  BY TypeInit, TypeStep, PTL DEF Spec

\* Every variable keeps its type: in particular every count the code takes of the
\* history and every excess it computes from it is a natural number.
THEOREM TypeCorrect == Spec => []TypeOK
<1>1. TypeInv => TypeOK
  BY DEF TypeInv
<1>2. QED
  BY <1>1, TypeInvariance, PTL

-----------------------------------------------------------------------------
(***************************************************************************)
(* The versions that were ever current, and the copies of them.            *)
(***************************************************************************)

LedgerOK ==
  \A n \in Names :
    /\ \A e \in ledger[n] : 0 < e.id /\ e.id <= ops /\ 0 < e.version
    /\ \A a, b \in ledger[n] : a.id = b.id /\ a.version = b.version => a.value = b.value
    /\ \A m \in Names : \A a \in ledger[m], b \in ledger[n] : a.id = b.id => m = n

\* A row is the latest version of its id, and no two names share an id.
RowsOK ==
  \A n \in Names : rows[n] # Missing =>
    /\ rows[n] \in ledger[n]
    /\ \A e \in ledger[n] : e.id = rows[n].id => e.version <= rows[n].version
    /\ \A m \in Names : rows[m].id = rows[n].id => m = n

HistoryOK ==
  \A h \in history : h.row \in ledger[h.name] /\ h.row.id = rows[h.name].id

CacheOK == \A n \in Names : cache[n] \in ledger[n] \cup {Missing}

\* The row a call carries at a label.
CarriedOK(label, j) ==
  /\ label \in {"read", "archive"} => j.row \in ledger[j.name]
  /\ label = "hit" => \E e \in ledger[j.name] : Content(e) = Content(j.row)

JobsOK == \A p \in Procs : CarriedOK(pc[p], job[p])

LedgerInv == LedgerOK /\ RowsOK /\ HistoryOK /\ CacheOK /\ JobsOK

\* The ids of the rows of the file are positive.
LEMMA RowIds ==
  ASSUME TypeInv, LedgerInv, NEW n \in Names
  PROVE  /\ rows[n] \in Row
         /\ rows[n] # Missing => 0 < rows[n].id /\ rows[n].id <= ops
         /\ rows[n] = Missing => rows[n].id = 0
  BY DEF TypeInv, TypeOK, LedgerInv, LedgerOK, RowsOK, Missing

LEMMA LedgerInit == Init => LedgerInv
  BY DEF Init, LedgerInv, LedgerOK, RowsOK, HistoryOK, CacheOK, JobsOK, CarriedOK

\* A step that leaves the tables alone keeps what is known of them.
LEMMA TablesUnchanged ==
  ASSUME TypeInv, LedgerInv, UNCHANGED <<rows, ledger>>, ops' \in Nat, ops <= ops'
  PROVE  LedgerOK' /\ RowsOK'
<1>1. \A n \in Names : \A e \in ledger[n] : e.id \in Nat
  BY DEF TypeInv, TypeOK, Row
<1>2. QED
  BY <1>1 DEF TypeInv, TypeOK, LedgerInv, LedgerOK, RowsOK

\* The copies of a version stay copies of it when a row is added to the ledger.
LedgerGrows == \A n \in Names : ledger[n] \subseteq ledger'[n]

LEMMA CarriedKept ==
  ASSUME TypeInv, LedgerInv, LedgerGrows, NEW p \in Procs, NEW label, NEW j,
         Goto(p, label, j), label \notin {"hit", "read", "archive"}
  PROVE  JobsOK'
<1>1. pc'[p] = label /\ \A q \in Procs \ {p} : pc'[q] = pc[q] /\ job'[q] = job[q]
  BY DEF Goto, TypeInv, TypeOK
<1>2. ASSUME NEW q \in Procs \ {p}
      PROVE  CarriedOK(pc[q], job[q])'
  <2>1. CASE pc[q] = "idle"
    BY <1>1, <2>1 DEF CarriedOK
  <2>2. CASE pc[q] # "idle"
    <3>1. job[q].name \in Names /\ CarriedOK(pc[q], job[q])
      BY <2>2 DEF TypeInv, LedgerInv, JobsOK
    <3>2. ledger[job[q].name] \subseteq ledger'[job[q].name]
      BY <3>1 DEF LedgerGrows
    <3>3. QED
      BY <1>1, <3>1, <3>2 DEF CarriedOK
  <2>3. QED
    BY <2>1, <2>2
<1>3. CarriedOK(pc[p], job[p])'
  BY <1>1 DEF CarriedOK
<1>4. QED
  BY <1>2, <1>3 DEF JobsOK

LEMMA CreateLedger ==
  ASSUME TypeInv, LedgerInv, NEW p \in Procs, NEW n \in Names, NEW v \in Values,
         Create(p, n, v)
  PROVE  LedgerInv'
<1> DEFINE row == [id |-> ops + 1, version |-> 1, value |-> v]
<1>1. /\ rows[n] = Missing /\ rows' = [rows EXCEPT ![n] = row]
      /\ ledger' = [ledger EXCEPT ![n] = @ \cup {row}] /\ ops' = ops + 1
      /\ history' = history /\ cache' = cache
  BY DEF Create, Begin
<1>0. PICK j : Goto(p, "created", j)
  <2>1. Begin(p, "created", [NoJob EXCEPT !.name = n])
    BY DEF Create
  <2>2. QED
    BY <2>1 DEF Begin
<1>2. ops \in Nat /\ row.id = ops + 1 /\ row.version = 1 /\ row # Missing
  BY DEF TypeInv, TypeOK, Missing
<1> HIDE DEF row
<1>3. \A m \in Names : \A e \in ledger[m] :
        e.id \in Nat /\ e.version \in Nat /\ e.id # row.id
  BY <1>2 DEF TypeInv, TypeOK, LedgerInv, LedgerOK, Row
<1>9. ledger'[n] = ledger[n] \cup {row} /\ \A m \in Names : m # n => ledger'[m] = ledger[m]
  BY <1>1 DEF TypeInv, TypeOK
<1>4. LedgerOK'
  <2>1. ASSUME NEW m \in Names, NEW e \in ledger'[m]
        PROVE  0 < e.id /\ e.id <= ops' /\ 0 < e.version
    <3>1. e \in ledger[m] \/ e = row
      BY <1>9
    <3>2. QED
      BY <1>1, <1>2, <1>3, <3>1 DEF LedgerInv, LedgerOK
  <2>2. ASSUME NEW m \in Names, NEW k \in Names, NEW a \in ledger'[m], NEW b \in ledger'[k],
               a.id = b.id
        PROVE  m = k /\ (a.version = b.version => a.value = b.value)
    <3>1. /\ a \in ledger[m] \/ (a = row /\ m = n)
          /\ b \in ledger[k] \/ (b = row /\ k = n)
      BY <1>9
    <3>2. CASE a \in ledger[m] /\ b \in ledger[k]
      BY <2>2, <3>2 DEF LedgerInv, LedgerOK
    <3>3. CASE a = row /\ b = row /\ m = n /\ k = n
      BY <3>3
    <3>4. QED
      BY <1>3, <2>2, <3>1, <3>2, <3>3
  <2>3. QED
    BY <2>1, <2>2 DEF LedgerOK
<1>5. RowsOK'
  <2>1. \A m \in Names : rows[m].id # row.id
    BY <1>2, RowIds DEF Row
  <2>2. rows'[n] = row /\ \A m \in Names : m # n => rows'[m] = rows[m]
    BY <1>1 DEF TypeInv, TypeOK
  <2>3. QED
    BY <1>1, <1>2, <1>3, <1>9, <2>1, <2>2 DEF LedgerInv, RowsOK
<1>6. HistoryOK'
  <2>1. ASSUME NEW h \in history
        PROVE  h.name \in Names /\ h.name # n
    BY <1>1, RowIds DEF TypeInv, TypeOK, Archived, LedgerInv, LedgerOK, HistoryOK
  <2>2. QED
    BY <1>1, <1>9, <2>1 DEF LedgerInv, HistoryOK, TypeInv, TypeOK
<1>7. CacheOK'
  BY <1>1, <1>9 DEF LedgerInv, CacheOK
<1>10. JobsOK'
  BY <1>0, <1>9, CarriedKept DEF LedgerGrows
<1>8. QED
  BY <1>4, <1>5, <1>6, <1>7, <1>10 DEF LedgerInv

\* The UPDATE of a row adds the version after the latest one of that row.
LEMMA CommitLedger ==
  ASSUME TypeInv, LedgerInv, NEW p \in Procs, Commit(p)
  PROVE  LedgerInv'
<1> DEFINE n == job[p].name
           row == Bump(rows[n], job[p].row, job[p].new)
<1>1. /\ n \in Names
      /\ UNCHANGED <<history, cache, ops>> /\ Goto(p, "finish", job[p])
  BY DEF Commit, TypeInv
<1>2. \/ UNCHANGED <<rows, ledger>>
      \/ /\ rows[n] # Missing
         /\ rows' = [rows EXCEPT ![n] = row]
         /\ ledger' = [ledger EXCEPT ![n] = @ \cup {row}]
  BY DEF Commit
<1>3. JobsOK' /\ CacheOK'
  <2>1. LedgerGrows
    BY <1>1, <1>2 DEF LedgerGrows, TypeInv, TypeOK
  <2>2. JobsOK'
    BY <1>1, <2>1, CarriedKept
  <2>3. QED
    BY <1>1, <2>1, <2>2 DEF LedgerInv, CacheOK, LedgerGrows
<1>4. CASE UNCHANGED <<rows, ledger>>
  <2>1. LedgerOK' /\ RowsOK'
    BY <1>1, <1>4, TablesUnchanged DEF TypeInv, TypeOK
  <2>2. HistoryOK'
    BY <1>1, <1>4 DEF LedgerInv, HistoryOK
  <2>3. QED
    BY <1>3, <2>1, <2>2 DEF LedgerInv
<1>5. CASE /\ rows[n] # Missing
           /\ rows' = [rows EXCEPT ![n] = row]
           /\ ledger' = [ledger EXCEPT ![n] = @ \cup {row}]
  <2>1. /\ rows[n] \in Row
        /\ row.id = rows[n].id /\ row.version = rows[n].version + 1
        /\ row # Missing
    BY <1>1, <1>5, RowIds DEF Bump, Row, Missing
  <2>2. rows'[n] = row /\ \A m \in Names : m # n => rows'[m] = rows[m]
    BY <1>1, <1>5 DEF TypeInv, TypeOK
  <2>3. \A m \in Names : \A e \in ledger[m] : e.id \in Nat /\ e.version \in Nat
    BY DEF TypeInv, TypeOK, Row
  <2>4. \A e \in ledger[n] : e.id = row.id => e.version <= rows[n].version
    BY <1>1, <1>5, <2>1 DEF LedgerInv, RowsOK
  <2>5. 0 < row.id /\ row.id <= ops /\ 0 < row.version /\ row.id \in Nat
    BY <1>1, <1>5, <2>1, RowIds DEF Row
  <2>6. \A m \in Names : \A e \in ledger[m] : e.id = row.id => m = n
    BY <1>1, <1>5, <2>1 DEF LedgerInv, LedgerOK, RowsOK
  <2>7. ledger'[n] = ledger[n] \cup {row} /\ \A m \in Names : m # n => ledger'[m] = ledger[m]
    BY <1>1, <1>5 DEF TypeInv, TypeOK
  <2> HIDE DEF row, n
  <2>8. LedgerOK'
    <3>1. ASSUME NEW m \in Names, NEW e \in ledger'[m]
          PROVE  0 < e.id /\ e.id <= ops' /\ 0 < e.version
      <4>1. e \in ledger[m] \/ e = row
        BY <2>7
      <4>2. QED
        BY <1>1, <2>5, <4>1 DEF LedgerInv, LedgerOK
    <3>2. ASSUME NEW m \in Names, NEW k \in Names, NEW a \in ledger'[m], NEW b \in ledger'[k],
                 a.id = b.id
          PROVE  m = k /\ (a.version = b.version => a.value = b.value)
      <4>1. /\ a \in ledger[m] \/ (a = row /\ m = n)
            /\ b \in ledger[k] \/ (b = row /\ k = n)
        BY <2>7
      <4>2. CASE a \in ledger[m] /\ b \in ledger[k]
        BY <3>2, <4>2 DEF LedgerInv, LedgerOK
      <4>3. CASE a = row /\ b = row /\ m = n /\ k = n
        BY <4>3
      <4>4. \A e \in ledger[n] : e.id = row.id => e.version # row.version
        BY <1>1, <2>1, <2>3, <2>4 DEF Row
      <4>5. QED
        BY <2>6, <3>2, <4>1, <4>2, <4>3, <4>4
    <3>3. QED
      BY <3>1, <3>2 DEF LedgerOK
  <2>9. RowsOK'
    <3>1. ASSUME NEW m \in Names, rows'[m] # Missing
          PROVE  rows'[m] \in ledger'[m] /\ \A k \in Names : rows'[k].id = rows'[m].id => k = m
      BY <1>1, <1>5, <2>1, <2>2, <2>7, <3>1 DEF LedgerInv, RowsOK
    <3>2. ASSUME NEW m \in Names, rows'[m] # Missing, NEW e \in ledger'[m], e.id = rows'[m].id
          PROVE  e.version <= rows'[m].version
      <4>1. CASE m = n
        BY <1>5, <2>1, <2>2, <2>3, <2>4, <2>7, <3>2, <4>1 DEF Row
      <4>2. CASE m # n
        BY <1>1, <1>5, <2>1, <2>2, <2>7, <3>2, <4>2 DEF LedgerInv, RowsOK
      <4>3. QED
        BY <4>1, <4>2
    <3>3. QED
      BY <3>1, <3>2 DEF RowsOK
  <2>10. HistoryOK'
    BY <1>1, <1>5, <2>1, <2>2, <2>7 DEF LedgerInv, HistoryOK, TypeInv, TypeOK, Archived
  <2>11. QED
    BY <1>3, <2>8, <2>9, <2>10 DEF LedgerInv
<1>6. QED
  BY <1>2, <1>4, <1>5

LEMMA DeleteLedger ==
  ASSUME TypeInv, LedgerInv, NEW p \in Procs, NEW n \in Names, Delete(p, n)
  PROVE  LedgerInv'
<1>1. /\ rows' = [rows EXCEPT ![n] = Missing]
      /\ history' = {h \in history : h.row.id # rows[n].id}
      /\ cache' \in {cache, [cache EXCEPT ![n] = Missing]}
      /\ UNCHANGED <<pc, job, ops, ledger>>
  BY DEF Delete, HistoryWithout, DroppedByDelete, Dropped
<1>2. LedgerOK'
  BY <1>1 DEF LedgerInv, LedgerOK
<1>3. rows'[n] = Missing /\ \A m \in Names : m # n => rows'[m] = rows[m]
  BY <1>1 DEF TypeInv, TypeOK
<1>4. RowsOK'
  <2>1. \A m \in Names : rows'[m] # Missing => m # n /\ rows'[m].id # rows'[n].id
    BY <1>3, RowIds DEF Missing, Row
  <2>2. QED
    BY <1>1, <1>3, <2>1 DEF LedgerInv, RowsOK
<1>5. HistoryOK'
  BY <1>1, <1>3 DEF LedgerInv, HistoryOK, TypeInv, TypeOK, Archived
<1>6. CacheOK' /\ JobsOK'
  BY <1>1 DEF LedgerInv, CacheOK, JobsOK, CarriedOK, TypeInv, TypeOK
<1>7. QED
  BY <1>2, <1>4, <1>5, <1>6 DEF LedgerInv

\* A call moves on without touching the tables: nothing is lost if the row it
\* carries, where that row will be used, was once current.
LEMMA MoveLedger ==
  ASSUME TypeInv, LedgerInv, NEW p \in Procs, NEW label, NEW j,
         Goto(p, label, j), CarriedOK(label, j),
         UNCHANGED <<rows, ledger, history>>, ops' \in Nat, ops <= ops', CacheOK'
  PROVE  LedgerInv'
<1>1. LedgerOK' /\ RowsOK'
  BY TablesUnchanged
<1>2. HistoryOK'
  BY DEF LedgerInv, HistoryOK
<1>3. JobsOK'
  BY DEF LedgerInv, JobsOK, CarriedOK, Goto, TypeInv, TypeOK
<1>4. QED
  BY <1>1, <1>2, <1>3 DEF LedgerInv

\* The same for a call that returns.
LEMMA ReturnLedger ==
  ASSUME TypeInv, LedgerInv, NEW p \in Procs, Return(p),
         UNCHANGED <<rows, ledger, history, ops>>, CacheOK'
  PROVE  LedgerInv'
  BY MoveLedger DEF Return, CarriedOK, TypeInv, TypeOK

\* The cache changes by losing entries.
LEMMA CacheShrinks ==
  ASSUME TypeInv, LedgerInv, UNCHANGED ledger,
         \A n \in Names : cache'[n] \in {cache[n], Missing}
  PROVE  CacheOK'
  BY DEF LedgerInv, CacheOK

LEMMA LedgerStep == TypeInv /\ LedgerInv /\ [Next]_vars => LedgerInv'
<1> SUFFICES ASSUME TypeInv, LedgerInv, [Next]_vars PROVE LedgerInv'
  OBVIOUS
<1> USE ServerIsAProcess
<1>1. ops \in Nat /\ ops + 1 \in Nat /\ ops <= ops + 1 /\ ops <= ops
  BY DEF TypeInv, TypeOK
<1>2. ASSUME NEW p \in Procs, NEW n \in Names, NEW new \in Values \cup {NoValue},
             StartUpdate(p, n, new)
      PROVE  LedgerInv'
  <2> DEFINE j == [Loaded([NoJob EXCEPT !.name = n, !.new = new], rows[n])
                     EXCEPT !.op = ops + 1]
  <2>1. Goto(p, AfterLoad(new), j) /\ ops' = ops + 1 /\ UNCHANGED <<rows, ledger, history, cache>>
    BY <1>2 DEF StartUpdate, Begin
  <2>2. j.row = rows[n] /\ j.name = n /\ rows[n] \in ledger[n]
    BY <1>2 DEF Loaded, NoJob, StartUpdate, LedgerInv, RowsOK
  <2> HIDE DEF j
  <2>3. CacheOK'
    BY <2>1 DEF LedgerInv, CacheOK
  <2>4. CarriedOK(AfterLoad(new), j)
    BY <2>2 DEF CarriedOK, AfterLoad
  <2>5. QED
    BY <1>1, <2>1, <2>3, <2>4, MoveLedger
<1>3. ASSUME NEW n \in Names, NEW new \in Values \cup {NoValue}, StartUiSave(n, new)
      PROVE  LedgerInv'
  <2>1. PICK j : Goto(Server, "load", j)
    BY <1>3 DEF StartUiSave, Begin
  <2>2. ops' = ops + 1 /\ UNCHANGED <<rows, ledger, history, cache>>
    BY <1>3 DEF StartUiSave, Begin
  <2>3. CacheOK'
    BY <2>2 DEF LedgerInv, CacheOK
  <2>4. QED
    BY <1>1, <2>1, <2>2, <2>3, MoveLedger DEF CarriedOK
<1>4. ASSUME NEW p \in Procs, Load(p)
      PROVE  LedgerInv'
  <2> DEFINE n == job[p].name
             j == Loaded(job[p], rows[n])
  <2>1. /\ UNCHANGED <<rows, ledger, history, cache, ops>>
        /\ n \in Names /\ job[p] \in Job
        /\ \/ Return(p)
           \/ rows[n] # Missing /\ Goto(p, AfterLoad(job[p].new), j)
    BY <1>4 DEF Load, TypeInv, TypeOK
  <2>2. CacheOK'
    BY <2>1 DEF LedgerInv, CacheOK
  <2>3. j.row = rows[n] /\ j.name = n /\ (rows[n] # Missing => rows[n] \in ledger[n])
    BY <2>1 DEF Loaded, Job, LedgerInv, RowsOK
  <2> HIDE DEF j
  <2>4. rows[n] # Missing => CarriedOK(AfterLoad(job[p].new), j)
    BY <2>3 DEF CarriedOK, AfterLoad
  <2>5. QED
    BY <1>1, <2>1, <2>2, <2>4, MoveLedger, ReturnLedger
<1>5. ASSUME NEW p \in Procs, ArchiveRow(p)
      PROVE  LedgerInv'
  <2>1. /\ pc[p] = "archive" /\ job[p].name \in Names /\ job[p].row \in ledger[job[p].name]
        /\ UNCHANGED <<rows, ledger, cache, ops>>
    BY <1>5 DEF ArchiveRow, TypeInv, LedgerInv, JobsOK, CarriedOK
  <2>2. LedgerOK' /\ RowsOK' /\ CacheOK'
    BY <1>1, <2>1, TablesUnchanged DEF LedgerInv, CacheOK
  <2>3. JobsOK'
    <3>1. \E label \in {"idle", "count"} : \E j : Goto(p, label, j)
      BY <1>5 DEF ArchiveRow, Return
    <3>2. QED
      BY <2>1, <3>1, CarriedKept DEF LedgerGrows
  <2>4. HistoryOK'
    BY <1>5, <2>1 DEF ArchiveRow, LedgerInv, HistoryOK
  <2>5. QED
    BY <2>2, <2>3, <2>4 DEF LedgerInv
<1>6. ASSUME NEW p \in Procs, CountHistory(p)
      PROVE  LedgerInv'
  <2>1. /\ \E label \in {"prune", "commit"} : \E j : Goto(p, label, j)
        /\ UNCHANGED <<rows, ledger, history, cache, ops>>
    BY <1>6 DEF CountHistory
  <2>2. CacheOK'
    BY <2>1 DEF LedgerInv, CacheOK
  <2>3. QED
    BY <1>1, <2>1, <2>2, MoveLedger DEF CarriedOK
<1>7. ASSUME NEW p \in Procs, PruneHistory(p)
      PROVE  LedgerInv'
  <2>1. Goto(p, "commit", job[p]) /\ history' \subseteq history
        /\ UNCHANGED <<rows, ledger, cache, ops>>
    BY <1>7 DEF PruneHistory
  <2>2. LedgerOK' /\ RowsOK' /\ CacheOK' /\ HistoryOK'
    BY <1>1, <2>1, TablesUnchanged DEF LedgerInv, CacheOK, HistoryOK
  <2>3. JobsOK'
    BY <2>1, CarriedKept DEF LedgerGrows
  <2>4. QED
    BY <2>2, <2>3 DEF LedgerInv
<1>8. ASSUME NEW p \in Procs, FinishCreate(p) \/ FinishUpdate(p) \/ FinishHit(p)
      PROVE  LedgerInv'
  <2>1. /\ Return(p) /\ UNCHANGED <<rows, ledger, history, ops>>
        /\ \A n \in Names : cache'[n] \in {cache[n], Missing}
    BY <1>8 DEF FinishCreate, FinishUpdate, FinishHit, Dropped, TypeInv, TypeOK
  <2>2. QED
    BY <2>1, CacheShrinks, ReturnLedger
<1>9. ASSUME NEW p \in Procs, NEW n \in Names, Get(p, n)
      PROVE  LedgerInv'
  <2>1. /\ UNCHANGED <<rows, ledger, history, cache, ops>> /\ rows[n] \in ledger[n]
        /\ rows[n] \in Row
    BY <1>9 DEF Get, LedgerInv, RowsOK, TypeInv, TypeOK
  <2>2. PICK row : \/ /\ CacheHit(n) /\ row = [rows[n] EXCEPT !.value = cache[n].value]
                      /\ Goto(p, "hit", Loaded([NoJob EXCEPT !.name = n], row))
                   \/ row = rows[n] /\ Goto(p, "read", Loaded([NoJob EXCEPT !.name = n], row))
    BY <1>9 DEF Get
  <2> DEFINE j == Loaded([NoJob EXCEPT !.name = n], row)
  <2>3. j.row = row /\ j.name = n
    BY DEF NoJob, Loaded
  <2>4. CacheOK'
    BY <2>1 DEF LedgerInv, CacheOK
  <2> HIDE DEF j
  <2>5. CASE row = rows[n] /\ Goto(p, "read", j)
    BY <1>1, <2>1, <2>3, <2>4, <2>5, MoveLedger DEF CarriedOK
  <2>6. CASE /\ CacheHit(n) /\ row = [rows[n] EXCEPT !.value = cache[n].value]
             /\ Goto(p, "hit", j)
    <3>1. cache[n] \in ledger[n] /\ cache[n].version = rows[n].version
      BY <2>6 DEF CacheHit, LedgerInv, CacheOK
    <3>2. row.version = cache[n].version /\ row.value = cache[n].value
      BY <2>1, <2>6, <3>1 DEF Row
    <3>3. Content(cache[n]) = Content(row)
      BY <3>2 DEF Content
    <3>4. CarriedOK("hit", j)
      BY <2>3, <3>1, <3>3 DEF CarriedOK
    <3>5. QED
      BY <1>1, <2>1, <2>4, <2>6, <3>4, MoveLedger
  <2>7. QED
    BY <2>2, <2>5, <2>6 DEF j
<1>10. ASSUME NEW p \in Procs, FinishRead(p)
       PROVE  LedgerInv'
  <2>1. pc[p] = "read" /\ Return(p) /\ UNCHANGED <<rows, ledger, history, ops>>
    BY <1>10 DEF FinishRead
  <2>2. job[p].row \in ledger[job[p].name] /\ job[p].name \in Names
    BY <2>1 DEF LedgerInv, JobsOK, CarriedOK, TypeInv
  <2>3. CacheOK'
    BY <1>10, <2>1, <2>2 DEF FinishRead, LedgerInv, CacheOK, TypeInv, TypeOK
  <2>4. QED
    BY <2>1, <2>3, ReturnLedger
<1>11. ASSUME NEW p \in Procs, Crash(p) \/ StatementFails(p)
       PROVE  LedgerInv'
  <2>1. /\ Return(p) /\ UNCHANGED <<rows, ledger, history, ops>>
        /\ \A n \in Names : cache'[n] \in {cache[n], Missing}
    BY <1>11 DEF Crash, StatementFails, Interrupt, Dropped, TypeInv, TypeOK
  <2>2. QED
    BY <2>1, CacheShrinks, ReturnLedger
<1>12. ASSUME \/ \E n \in Names : UiOpen(n) \/ Expire(n)
              \/ RefreshCache
              \/ UNCHANGED vars
       PROVE  LedgerInv'
  <2>1. /\ UNCHANGED <<rows, ledger, history, ops, pc, job>>
        /\ \A n \in Names : cache'[n] \in {cache[n], Missing}
    BY <1>12 DEF UiOpen, Expire, RefreshCache, vars, TypeInv, TypeOK
  <2>2. LedgerOK' /\ RowsOK' /\ CacheOK'
    BY <1>1, <2>1, TablesUnchanged, CacheShrinks
  <2>3. HistoryOK' /\ JobsOK'
    BY <2>1 DEF LedgerInv, HistoryOK, JobsOK, CarriedOK
  <2>4. QED
    BY <2>2, <2>3 DEF LedgerInv
<1>13. ASSUME NEW p \in Procs, NEW n \in Names, StartEmptyUpdate(p, n)
       PROVE  LedgerInv'
  <2>1. PICK j : Goto(p, "finish", j)
    BY <1>13 DEF StartEmptyUpdate, Begin
  <2>2. ops' = ops + 1 /\ UNCHANGED <<rows, ledger, history, cache>>
    BY <1>13 DEF StartEmptyUpdate, Begin
  <2>3. CacheOK'
    BY <2>2 DEF LedgerInv, CacheOK
  <2>4. QED
    BY <1>1, <2>1, <2>2, <2>3, MoveLedger DEF CarriedOK
<1>14. QED
  BY <1>2, <1>3, <1>4, <1>5, <1>6, <1>7, <1>8, <1>9, <1>10, <1>11, <1>12, <1>13,
     CreateLedger, CommitLedger, DeleteLedger DEF Next, UpdateStep

LEMMA LedgerInvariance == Spec => [](TypeInv /\ LedgerInv)
<1>1. Init => TypeInv /\ LedgerInv
  BY TypeInit, LedgerInit
<1>2. TypeInv /\ LedgerInv /\ [Next]_vars => (TypeInv /\ LedgerInv)'
  BY TypeStep, LedgerStep
<1>3. QED
  BY <1>1, <1>2, PTL DEF Spec

\* Whatever the processes do and wherever they are cut short, every copy of a version
\* of a secret, and every answer, is one that secret had, and a version had one value.
THEOREM StoreCoherent == Spec => []Coherent
<1>1. ASSUME TypeInv, LedgerInv
      PROVE  Coherent
  <2>1. \A m, n \in Names : \A a \in ledger[m], b \in ledger[n] :
          a.id = b.id /\ a.version = b.version => m = n /\ a.value = b.value
    BY <1>1 DEF LedgerInv, LedgerOK
  <2>2. \A n \in Names : {rows[n], cache[n]} \subseteq ledger[n] \cup {Missing}
    BY <1>1 DEF LedgerInv, RowsOK, CacheOK
  <2>3. \A h \in history : h.row \in ledger[h.name]
    BY <1>1 DEF LedgerInv, HistoryOK
  <2>4. \A p \in Procs : pc[p] \in {"hit", "read"} =>
          \E e \in ledger[job[p].name] : Content(e) = Content(job[p].row)
    BY <1>1 DEF LedgerInv, JobsOK, CarriedOK
  <2>5. QED
    BY <2>1, <2>2, <2>3, <2>4 DEF Coherent
<1>2. QED
  BY <1>1, LedgerInvariance, PTL

\* The archived versions of a name are versions of the secret that has the name
\* now, and no archived version is ahead of it.
THEOREM StoreHistoryOfLiveRow == Spec => []HistoryOfLiveRow
<1>1. ASSUME TypeInv, LedgerInv, NEW h \in history
      PROVE  h.row.id = rows[h.name].id /\ h.row.version <= rows[h.name].version
  <2>1. h.row \in ledger[h.name] /\ h.row.id = rows[h.name].id /\ h.name \in Names
    BY <1>1 DEF LedgerInv, HistoryOK, TypeInv, TypeOK, Archived
  <2>2. rows[h.name] # Missing
    BY <1>1, <2>1 DEF LedgerInv, LedgerOK, Missing
  <2>3. QED
    BY <1>1, <2>1, <2>2 DEF LedgerInv, RowsOK
<1>2. TypeInv /\ LedgerInv => HistoryOfLiveRow
  BY <1>1 DEF HistoryOfLiveRow
<1>3. QED
  BY <1>2, LedgerInvariance, PTL

-----------------------------------------------------------------------------
(* When no process but the server deletes secrets, the cache is sound and  *)
(* the store behaves as one register for each name, however many processes *)
(* create, update and read beside the server.                              *)

ServerDeletes == Deleters \subseteq {Server}

\* A cache entry, and a row the server is about to cache, belong to the secret that
\* has the name now.
EntriesOK ==
  \A n \in Names : cache[n] # Missing => rows[n] # Missing /\ rows[n].id = cache[n].id

ReadOK ==
  LET j == job[Server]
  IN  pc[Server] = "read" => rows[j.name] # Missing /\ rows[j.name].id = j.row.id

AnswersOK == \A p \in Procs : pc[p] \in {"hit", "read"} => 0 < job[p].row.version

CacheInv == EntriesOK /\ ReadOK /\ AnswersOK

\* What most steps have in common: no call starts to answer, no row disappears or
\* is replaced by a row with another id, and no entry is cached.
NoNewAnswer ==
  \A p \in Procs : pc'[p] \in {"hit", "read"} => pc'[p] = pc[p] /\ job'[p] = job[p]

RowsLast ==
  \A n \in Names : rows[n] # Missing => rows'[n] # Missing /\ rows'[n].id = rows[n].id

NothingCached == \A n \in Names : cache'[n] \in {cache[n], Missing}

LEMMA QuietStep ==
  ASSUME TypeInv, CacheInv, NoNewAnswer, RowsLast, NothingCached
  PROVE  CacheInv'
<1>1. EntriesOK'
  BY DEF CacheInv, EntriesOK, RowsLast, NothingCached
<1>2. ReadOK'
  <2> SUFFICES ASSUME pc'[Server] = "read"
               PROVE  /\ rows'[job'[Server].name] # Missing
                      /\ rows'[job'[Server].name].id = job'[Server].row.id
    BY DEF ReadOK
  <2>1. pc[Server] = "read" /\ job'[Server] = job[Server]
    BY ServerIsAProcess DEF NoNewAnswer
  <2>2. job[Server].name \in Names
    BY <2>1, ServerIsAProcess DEF TypeInv
  <2>3. QED
    BY <2>1, <2>2 DEF CacheInv, ReadOK, RowsLast
<1>3. AnswersOK'
  BY DEF CacheInv, AnswersOK, NoNewAnswer
<1>4. QED
  BY <1>1, <1>2, <1>3 DEF CacheInv

\* A call that goes to a statement other than the end of a read.
LEMMA QuietGoto ==
  ASSUME TypeInv, NEW p \in Procs, NEW label, NEW j, Goto(p, label, j),
         label \notin {"hit", "read"}
  PROVE  NoNewAnswer
  BY DEF Goto, NoNewAnswer, TypeInv, TypeOK

LEMMA QuietReturn ==
  ASSUME TypeInv, NEW p \in Procs, Return(p)
  PROVE  NoNewAnswer
  BY QuietGoto DEF Return

LEMMA QuietBegin ==
  ASSUME TypeInv, NEW p \in Procs, NEW label, NEW j, Begin(p, label, j),
         label \notin {"hit", "read"}
  PROVE  NoNewAnswer
  BY QuietGoto DEF Begin

\* The steps that only move a call on, or drop entries of the cache.
LEMMA QuietActions ==
  ASSUME TypeInv,
         \/ \E p \in Procs, n \in Names, new \in Values \cup {NoValue} : StartUpdate(p, n, new)
         \/ \E p \in Procs, n \in Names : StartEmptyUpdate(p, n)
         \/ \E n \in Names, new \in Values \cup {NoValue} : StartUiSave(n, new)
         \/ \E p \in Procs :
              \/ FinishCreate(p) \/ Load(p) \/ ArchiveRow(p) \/ CountHistory(p)
              \/ PruneHistory(p) \/ FinishUpdate(p) \/ FinishHit(p)
              \/ Crash(p) \/ StatementFails(p)
         \/ \E n \in Names : UiOpen(n) \/ Expire(n)
         \/ RefreshCache
         \/ UNCHANGED vars
  PROVE  NoNewAnswer /\ UNCHANGED rows /\ NothingCached
<1> USE ServerIsAProcess
<1>1. ASSUME NEW p \in Procs, NEW n \in Names, NEW new, StartUpdate(p, n, new)
      PROVE  NoNewAnswer /\ UNCHANGED rows /\ NothingCached
  <2>1. AfterLoad(new) \notin {"hit", "read"}
    BY DEF AfterLoad
  <2>2. QED
    BY <1>1, <2>1, QuietBegin DEF StartUpdate, NothingCached
<1>2. ASSUME NEW n \in Names, NEW new, StartUiSave(n, new)
      PROVE  NoNewAnswer /\ UNCHANGED rows /\ NothingCached
  <2>1. PICK j : Begin(Server, "load", j)
    BY <1>2 DEF StartUiSave
  <2>2. QED
    BY <1>2, <2>1, QuietBegin DEF StartUiSave, NothingCached
<1>3. ASSUME NEW p \in Procs, Load(p)
      PROVE  NoNewAnswer /\ UNCHANGED rows /\ NothingCached
  <2>1. AfterLoad(job[p].new) \notin {"hit", "read"}
    BY DEF AfterLoad
  <2>2. QED
    BY <1>3, <2>1, QuietGoto, QuietReturn DEF Load, NothingCached
<1>4. ASSUME NEW p \in Procs,
             ArchiveRow(p) \/ CountHistory(p) \/ PruneHistory(p) \/ FinishCreate(p)
             \/ FinishHit(p)
      PROVE  NoNewAnswer /\ UNCHANGED rows /\ NothingCached
  <2>1. Return(p) \/ \E label \in {"count", "prune", "commit"} : \E j : Goto(p, label, j)
    BY <1>4 DEF ArchiveRow, CountHistory, PruneHistory, FinishCreate, FinishHit
  <2>2. NoNewAnswer
    BY <2>1, QuietGoto, QuietReturn
  <2>3. UNCHANGED <<rows, cache>>
    BY <1>4 DEF ArchiveRow, CountHistory, PruneHistory, FinishCreate, FinishHit
  <2>4. QED
    BY <2>2, <2>3 DEF NothingCached
<1>5. ASSUME NEW p \in Procs, FinishUpdate(p) \/ Crash(p) \/ StatementFails(p)
      PROVE  NoNewAnswer /\ UNCHANGED rows /\ NothingCached
  BY <1>5, QuietReturn
     DEF FinishUpdate, Crash, StatementFails, Interrupt, Dropped, NothingCached, TypeInv, TypeOK
<1>6. ASSUME (\E n \in Names : UiOpen(n) \/ Expire(n)) \/ RefreshCache \/ UNCHANGED vars
      PROVE  NoNewAnswer /\ UNCHANGED rows /\ NothingCached
  BY <1>6
     DEF UiOpen, Expire, RefreshCache, vars, NoNewAnswer, NothingCached, TypeInv, TypeOK
<1>7. ASSUME NEW p \in Procs, NEW n \in Names, StartEmptyUpdate(p, n)
      PROVE  NoNewAnswer /\ UNCHANGED rows /\ NothingCached
  <2>1. PICK j : Begin(p, "finish", j)
    BY <1>7 DEF StartEmptyUpdate
  <2>2. QED
    BY <1>7, <2>1, QuietBegin DEF StartEmptyUpdate, NothingCached
<1>8. QED
  BY <1>1, <1>2, <1>3, <1>4, <1>5, <1>6, <1>7

LEMMA CacheInit == Init => CacheInv
  BY ServerIsAProcess DEF Init, CacheInv, EntriesOK, ReadOK, AnswersOK

LEMMA CacheStep ==
  ASSUME ServerDeletes, TypeInv, LedgerInv, CacheInv, [Next]_vars
  PROVE  CacheInv'
<1> USE ServerIsAProcess
<1>1. ASSUME NoNewAnswer /\ UNCHANGED rows /\ NothingCached
      PROVE  CacheInv'
  BY <1>1, QuietStep DEF RowsLast
<1>2. ASSUME NEW p \in Procs, NEW n \in Names, NEW v \in Values, Create(p, n, v)
      PROVE  CacheInv'
  <2>1. NoNewAnswer
    BY <1>2, QuietBegin DEF Create
  <2>2. RowsLast /\ NothingCached
    BY <1>2 DEF Create, RowsLast, NothingCached, TypeInv, TypeOK
  <2>3. QED
    BY <2>1, <2>2, QuietStep
<1>3. ASSUME NEW p \in Procs, Commit(p)
      PROVE  CacheInv'
  <2>1. NoNewAnswer
    BY <1>3, QuietGoto DEF Commit
  <2>2. \A row \in Row : \A s : Bump(row, s, job[p].new).id = row.id
    BY DEF Bump
  <2>3. \A row \in Row : \A s : Bump(row, s, job[p].new) # Missing
    BY DEF Bump, Missing, Row
  <2>4. RowsLast /\ NothingCached
    BY <1>3, <2>2, <2>3 DEF Commit, RowsLast, NothingCached, TypeInv, TypeOK
  <2>5. QED
    BY <2>1, <2>4, QuietStep
<1>4. ASSUME NEW p \in Procs, NEW n \in Names, Delete(p, n)
      PROVE  CacheInv'
  <2>1. p = Server /\ pc[Server] = "idle"
    BY <1>4 DEF Delete, ServerDeletes
  <2>2. /\ rows' = [rows EXCEPT ![n] = Missing] /\ cache' = [cache EXCEPT ![n] = Missing]
        /\ UNCHANGED <<pc, job>>
    BY <1>4, <2>1 DEF Delete, DroppedByDelete, Dropped
  <2>3. QED
    BY <2>1, <2>2 DEF CacheInv, EntriesOK, ReadOK, AnswersOK, TypeInv, TypeOK
<1>5. ASSUME NEW p \in Procs, NEW n \in Names, Get(p, n)
      PROVE  CacheInv'
  <2>1. /\ rows[n] # Missing /\ rows[n] \in Row /\ 0 < rows[n].version
        /\ UNCHANGED <<rows, cache>>
    BY <1>5 DEF Get, TypeInv, TypeOK, LedgerInv, LedgerOK, RowsOK
  <2>2. PICK label \in {"hit", "read"}, row \in Row :
          /\ Goto(p, label, Loaded([NoJob EXCEPT !.name = n], row))
          /\ row.id = rows[n].id /\ row.version = rows[n].version
    <3>1. ASSUME NEW v \in Values \cup {NoValue}
          PROVE  /\ [rows[n] EXCEPT !.value = v] \in Row
                 /\ [rows[n] EXCEPT !.value = v].id = rows[n].id
                 /\ [rows[n] EXCEPT !.value = v].version = rows[n].version
      BY <2>1 DEF Row
    <3>2. cache[n].value \in Values \cup {NoValue}
      BY DEF TypeInv, TypeOK, Row
    <3> DEFINE j == [NoJob EXCEPT !.name = n]
               answer == [rows[n] EXCEPT !.value = cache[n].value]
    <3>3. Goto(p, "hit", Loaded(j, answer)) \/ Goto(p, "read", Loaded(j, rows[n]))
      BY <1>5 DEF Get
    <3>4. answer \in Row /\ answer.id = rows[n].id /\ answer.version = rows[n].version
      BY <3>1, <3>2
    <3> HIDE DEF answer
    <3>5. QED
      BY <2>1, <3>3, <3>4
  <2> DEFINE j == Loaded([NoJob EXCEPT !.name = n], row)
  <2>3. j.row = row /\ j.name = n
    BY DEF Loaded, NoJob
  <2>4. Goto(p, label, j)
    BY <2>2
  <2> HIDE DEF j
  <2>5. EntriesOK'
    BY <2>1 DEF CacheInv, EntriesOK
  <2>6. /\ pc'[p] = label /\ job'[p] = j
        /\ \A q \in Procs : q # p => pc'[q] = pc[q] /\ job'[q] = job[q]
    BY <2>4 DEF Goto, TypeInv, TypeOK
  <2>7. ReadOK' /\ AnswersOK'
    BY <2>1, <2>2, <2>3, <2>6 DEF CacheInv, ReadOK, AnswersOK
  <2>8. QED
    BY <2>5, <2>7 DEF CacheInv
<1>6. ASSUME NEW p \in Procs, FinishRead(p)
      PROVE  CacheInv'
  <2>1. NoNewAnswer /\ UNCHANGED rows /\ pc[p] = "read"
    BY <1>6, QuietReturn DEF FinishRead
  <2>2. \/ NothingCached
        \/ p = Server /\ cache' = [cache EXCEPT ![job[Server].name] = job[Server].row]
    BY <1>6 DEF FinishRead, NothingCached
  <2>3. CASE NothingCached
    BY <2>1, <2>3, <1>1
  <2>4. CASE p = Server /\ cache' = [cache EXCEPT ![job[Server].name] = job[Server].row]
    <3>1. EntriesOK'
      BY <2>1, <2>4 DEF CacheInv, EntriesOK, ReadOK, TypeInv, TypeOK
    <3>2. ReadOK' /\ AnswersOK'
      BY <2>1 DEF CacheInv, ReadOK, AnswersOK, NoNewAnswer
    <3>3. QED
      BY <3>1, <3>2 DEF CacheInv
  <2>5. QED
    BY <2>2, <2>3, <2>4
<1>7. QED
  BY <1>1, <1>2, <1>3, <1>4, <1>5, <1>6, QuietActions DEF Next, UpdateStep

LEMMA CacheInvariance ==
  ASSUME ServerDeletes
  PROVE  Spec => [](TypeInv /\ LedgerInv /\ CacheInv)
<1>1. Init => TypeInv /\ LedgerInv /\ CacheInv
  BY TypeInit, LedgerInit, CacheInit
<1>2. TypeInv /\ LedgerInv /\ CacheInv /\ [Next]_vars => (TypeInv /\ LedgerInv /\ CacheInv)'
  BY TypeStep, LedgerStep, CacheStep
<1>3. QED
  BY <1>1, <1>2, PTL DEF Spec

\* An entry the version test accepts is of the same row and the same version as the
\* row, and a version of a row has one value.
LEMMA HitIsCurrent ==
  ASSUME TypeInv, LedgerInv, CacheInv, NEW n \in Names, CacheHit(n)
  PROVE  cache[n].value = rows[n].value
  BY DEF CacheHit, CacheInv, EntriesOK, LedgerInv, LedgerOK, RowsOK, CacheOK

\* No answer of the cache is out of date, as long as the server alone deletes.
THEOREM StoreCacheSound ==
  ASSUME ServerDeletes
  PROVE  Spec => []CacheSound
<1>1. TypeInv /\ LedgerInv /\ CacheInv => CacheSound
  BY HitIsCurrent DEF CacheSound
<1>2. QED
  BY <1>1, CacheInvariance, PTL

-----------------------------------------------------------------------------
(***************************************************************************)
(* The refinement mapping of Register, and what each step does to it.      *)
(***************************************************************************)

Reg == [n \in Names |-> Content(rows[n])]

Answer == [p \in Procs |->
             IF pc[p] \in {"hit", "read"} THEN Content(job[p].row) ELSE Content(Missing)]

LEMMA ContentOfRow ==
  ASSUME TypeInv, LedgerInv, NEW n \in Names
  PROVE  rows[n] # Missing <=> Content(rows[n]) # Register!Absent
<1>1. Register!Absent = [version |-> 0, value |-> NoValue]
  BY DEF Register!Absent
<1>2. CASE rows[n] = Missing
  BY <1>1, <1>2 DEF Content, Missing
<1>3. CASE rows[n] # Missing
  <2>1. 0 < rows[n].version
    BY <1>3 DEF LedgerInv, LedgerOK, RowsOK
  <2>2. Content(rows[n]).version = rows[n].version /\ Register!Absent.version = 0
    BY <1>1 DEF Content
  <2>3. QED
    BY <1>3, <2>1, <2>2
<1>4. QED
  BY <1>2, <1>3

\* A call that was not about to answer and still is not.
LEMMA SilentGoto ==
  ASSUME TypeInv, NEW p \in Procs, NEW label, NEW j, Goto(p, label, j),
         {pc[p], label} \cap {"hit", "read"} = {}
  PROVE  Answer' = Answer
  BY DEF Goto, Answer, TypeInv, TypeOK

LEMMA SilentReturn ==
  ASSUME TypeInv, NEW p \in Procs, Return(p), pc[p] \notin {"hit", "read"}
  PROVE  Answer' = Answer
  BY SilentGoto DEF Return

LEMMA SilentBegin ==
  ASSUME TypeInv, NEW p \in Procs, NEW label, NEW j, Begin(p, label, j),
         label \notin {"hit", "read"}
  PROVE  Answer' = Answer
  BY SilentGoto DEF Begin

\* The end of a read, or of the process that serves it, is a Reply.
LEMMA AnswerGoes ==
  ASSUME TypeInv, CacheInv, NEW p \in Procs, Return(p), pc[p] \in {"hit", "read"},
         UNCHANGED rows
  PROVE  Register!Reply(p)
<1>1. Answer' = [Answer EXCEPT ![p] = Register!Absent]
  BY DEF Return, Goto, Answer, Register!Absent, Content, Missing, TypeInv, TypeOK
<1>2. Answer[p] = Content(job[p].row)
  BY DEF Answer
<1>3. Content(job[p].row).version = job[p].row.version /\ Register!Absent.version = 0
  BY DEF Content, Register!Absent
<1>4. 0 < job[p].row.version
  BY DEF CacheInv, AnswersOK
<1>5. Answer[p] # Register!Absent
  BY <1>2, <1>3, <1>4
<1>6. QED
  BY <1>1, <1>5 DEF Register!Reply, Answer

\* Any end of a call: a Reply, or nothing the caller of a read can see.
LEMMA ReturnMaps ==
  ASSUME TypeInv, CacheInv, NEW p \in Procs, Return(p), UNCHANGED rows
  PROVE  [Register!Next]_(Register!vars)
<1>1. CASE pc[p] \in {"hit", "read"}
  BY <1>1, AnswerGoes DEF Register!Next
<1>2. CASE pc[p] \notin {"hit", "read"}
  BY <1>2, SilentReturn DEF Register!vars, Answer
<1>3. QED
  BY <1>1, <1>2

LEMMA CreateMaps ==
  ASSUME TypeInv, LedgerInv, NEW p \in Procs, NEW n \in Names, NEW v \in Values,
         Create(p, n, v)
  PROVE  Register!Create(n, v)
<1> DEFINE row == [id |-> ops + 1, version |-> 1, value |-> v]
<1>1. rows' = [rows EXCEPT ![n] = row] /\ rows[n] = Missing
  BY DEF Create
<1>2. Content(row) = [version |-> 1, value |-> v]
  BY DEF Content
<1> HIDE DEF row
<1>3. Answer' = Answer
  BY SilentBegin DEF Create
<1>4. Reg' = [Reg EXCEPT ![n] = [version |-> 1, value |-> v]]
  BY <1>1, <1>2 DEF Reg, TypeInv, TypeOK
<1>5. Reg[n] = Register!Absent
  BY <1>1, ContentOfRow DEF Reg
<1>6. QED
  BY <1>3, <1>4, <1>5 DEF Register!Create, Reg, Answer

LEMMA CommitMaps ==
  ASSUME TypeInv, LedgerInv, NEW p \in Procs, Commit(p)
  PROVE  [Register!Next]_(Register!vars)
<1> DEFINE n == job[p].name
           new == job[p].new
           row == Bump(rows[n], job[p].row, new)
<1>1. n \in Names /\ new \in Values \cup {NoValue}
  BY DEF Commit, TypeInv, TypeOK, Job
<1>2. \/ UNCHANGED rows
      \/ rows[n] # Missing /\ new # NoValue /\ rows' = [rows EXCEPT ![n] = row]
  BY DEF Commit
<1>3. Content(row) = [version |-> rows[n].version + 1, value |-> new]
  BY DEF Content, Bump
<1>4. Answer' = Answer
  BY SilentGoto DEF Commit
<1> HIDE DEF n, new, row
<1>5. CASE UNCHANGED rows
  BY <1>4, <1>5 DEF Register!vars, Answer
<1>6. CASE rows[n] # Missing /\ new # NoValue /\ rows' = [rows EXCEPT ![n] = row]
  <2>1. Reg[n] # Register!Absent /\ Reg[n].version = rows[n].version
    BY <1>1, <1>6, ContentOfRow DEF Reg, Content
  <2>2. Reg' = [Reg EXCEPT ![n] = [version |-> Reg[n].version + 1, value |-> new]]
    BY <1>1, <1>3, <1>6, <2>1 DEF Reg, TypeInv, TypeOK
  <2>3. Register!Put(n, new)
    BY <1>4, <2>1, <2>2 DEF Register!Put, Reg, Answer
  <2>4. QED
    BY <1>1, <1>6, <2>3 DEF Register!Next
<1>7. QED
  BY <1>2, <1>5, <1>6

LEMMA DeleteMaps ==
  ASSUME TypeInv, LedgerInv, NEW p \in Procs, NEW n \in Names, Delete(p, n)
  PROVE  [Register!Next]_(Register!vars)
<1>1. rows' = [rows EXCEPT ![n] = Missing] /\ Answer' = Answer
  BY DEF Delete, Answer
<1>2. CASE rows[n] = Missing
  <2>1. Reg' = Reg
    BY <1>1, <1>2 DEF Reg, TypeInv, TypeOK
  <2>2. QED
    BY <1>1, <2>1 DEF Register!vars, Reg, Answer
<1>3. CASE rows[n] # Missing
  <2>1. Reg[n] # Register!Absent
    BY <1>3, ContentOfRow DEF Reg
  <2>2. Content(Missing) = Register!Absent
    BY DEF Content, Missing, Register!Absent
  <2>3. Reg' = [Reg EXCEPT ![n] = Register!Absent]
    BY <1>1, <2>2 DEF Reg, TypeInv, TypeOK
  <2>4. Register!Remove(n)
    BY <1>1, <2>1, <2>3 DEF Register!Remove, Reg, Answer
  <2>5. QED
    BY <2>4 DEF Register!Next
<1>4. QED
  BY <1>2, <1>3

\* The answer is fixed when the row is read, and a cached value is the row's.
LEMMA GetMaps ==
  ASSUME TypeInv, LedgerInv, CacheInv, NEW p \in Procs, NEW n \in Names, Get(p, n)
  PROVE  Register!Read(p, n)
<1>1. rows[n] # Missing /\ rows[n] \in Row /\ pc[p] = "idle" /\ UNCHANGED rows
  BY DEF Get, TypeInv, TypeOK
<1> DEFINE j == [NoJob EXCEPT !.name = n]
           cached == [rows[n] EXCEPT !.value = cache[n].value]
<1>2. \/ CacheHit(n) /\ Goto(p, "hit", Loaded(j, cached))
      \/ Goto(p, "read", Loaded(j, rows[n]))
  BY DEF Get
<1>3. \A row : Loaded(j, row).row = row
  BY DEF Loaded, NoJob
<1>4. CacheHit(n) => cached = rows[n]
  BY <1>1, HitIsCurrent DEF Row
<1> HIDE DEF j, cached
<1>5. PICK label \in {"hit", "read"} : Goto(p, label, Loaded(j, rows[n]))
  BY <1>2, <1>4
<1>6. Answer' = [Answer EXCEPT ![p] = Reg[n]]
  BY <1>1, <1>3, <1>5 DEF Goto, Answer, Reg, TypeInv, TypeOK
<1>7. Answer[p] = Register!Absent
  BY <1>1 DEF Answer, Content, Missing, Register!Absent
<1>8. Reg[n] # Register!Absent
  BY <1>1, ContentOfRow DEF Reg
<1>9. QED
  BY <1>1, <1>6, <1>7, <1>8 DEF Register!Read, Reg, Answer

\* Steps between the statements of a call that neither read nor write the row.
LEMMA SilentMaps ==
  ASSUME TypeInv, UNCHANGED rows, Answer' = Answer
  PROVE  [Register!Next]_(Register!vars)
  BY DEF Register!vars, Answer

LEMMA StepMaps ==
  ASSUME TypeInv, LedgerInv, CacheInv, [Next]_vars
  PROVE  [Register!Next]_(Register!vars)
<1> USE ServerIsAProcess
<1>1. ASSUME NEW p \in Procs, NEW n \in Names, NEW v \in Values, Create(p, n, v)
      PROVE  [Register!Next]_(Register!vars)
  BY <1>1, CreateMaps DEF Register!Next
<1>2. ASSUME NEW p \in Procs, NEW n \in Names, NEW new \in Values \cup {NoValue},
             StartUpdate(p, n, new)
      PROVE  [Register!Next]_(Register!vars)
  <2>1. AfterLoad(new) \notin {"hit", "read"}
    BY DEF AfterLoad
  <2>2. QED
    BY <1>2, <2>1, SilentBegin, SilentMaps DEF StartUpdate
<1>3. ASSUME NEW n \in Names, NEW new \in Values \cup {NoValue}, StartUiSave(n, new)
      PROVE  [Register!Next]_(Register!vars)
  <2>1. PICK j : Begin(Server, "load", j) /\ UNCHANGED rows
    BY <1>3 DEF StartUiSave
  <2>2. QED
    BY <2>1, SilentBegin, SilentMaps
<1>4. ASSUME NEW p \in Procs,
             Load(p) \/ ArchiveRow(p) \/ CountHistory(p) \/ PruneHistory(p)
      PROVE  [Register!Next]_(Register!vars)
  <2>1. AfterLoad(job[p].new) \notin {"hit", "read"}
    BY DEF AfterLoad
  <2>2. \/ Return(p)
        \/ \E label \in {AfterLoad(job[p].new), "count", "prune", "commit"} : \E j :
             Goto(p, label, j)
    BY <1>4 DEF Load, ArchiveRow, CountHistory, PruneHistory
  <2>3. UNCHANGED rows /\ pc[p] \notin {"hit", "read"}
    BY <1>4 DEF Load, ArchiveRow, CountHistory, PruneHistory
  <2>4. QED
    BY <2>1, <2>2, <2>3, SilentGoto, SilentReturn, SilentMaps
<1>5. ASSUME NEW p \in Procs,
             FinishCreate(p) \/ FinishUpdate(p) \/ FinishHit(p) \/ FinishRead(p)
             \/ Crash(p) \/ StatementFails(p)
      PROVE  [Register!Next]_(Register!vars)
  <2>1. Return(p) /\ UNCHANGED rows
    BY <1>5
       DEF FinishCreate, FinishUpdate, FinishHit, FinishRead, Crash, StatementFails, Interrupt
  <2>2. QED
    BY <2>1, ReturnMaps
<1>6. ASSUME (\E n \in Names : UiOpen(n) \/ Expire(n)) \/ RefreshCache \/ UNCHANGED vars
      PROVE  [Register!Next]_(Register!vars)
  <2>1. UNCHANGED <<rows, pc, job>>
    BY <1>6 DEF UiOpen, Expire, RefreshCache, vars
  <2>2. QED
    BY <2>1, SilentMaps DEF Answer
<1>7. ASSUME NEW p \in Procs, NEW n \in Names, Get(p, n)
      PROVE  [Register!Next]_(Register!vars)
  BY <1>7, GetMaps DEF Register!Next
<1>8. ASSUME NEW p \in Procs, NEW n \in Names, StartEmptyUpdate(p, n)
      PROVE  [Register!Next]_(Register!vars)
  <2>1. PICK j : Begin(p, "finish", j) /\ UNCHANGED rows
    BY <1>8 DEF StartEmptyUpdate
  <2>2. QED
    BY <2>1, SilentBegin, SilentMaps
<1>9. QED
  BY <1>1, <1>2, <1>3, <1>4, <1>5, <1>6, <1>7, <1>8, CommitMaps, DeleteMaps DEF Next, UpdateStep

\* Reads, through the cache or past it, and writes of any number of processes behave
\* as on one versioned register for each name, as long as the server alone deletes.
THEOREM StoreImplementsRegister ==
  ASSUME ServerDeletes
  PROVE  Spec => ImplementsRegister
<1>1. Init => Register!Init
  BY DEF Init, Register!Init, Register!Absent, Content, Missing
<1>2. TypeInv /\ LedgerInv /\ CacheInv /\ [Next]_vars => [Register!Next]_(Register!vars)
  BY StepMaps
<1>3. QED
  BY <1>1, <1>2, CacheInvariance, PTL DEF Spec, ImplementsRegister, Register!Spec
-----------------------------------------------------------------------------
(***************************************************************************)
(* When the server alone writes, what a call has read stays as it read it: *)
(* the history is a window of the versions, the audit trail accounts for   *)
(* every change, and a form replaces the version it shows.                 *)
(***************************************************************************)

ServerWrites == Writers \subseteq {Server} /\ Deleters \subseteq {Server}

\* The other processes read, at most.
OthersRead == \A p \in Procs \ {Server} : pc[p] \in {"idle", "hit", "read"}

\* The row a call of the server is about does not change under it.
RowKept ==
  LET j == job[Server]
  IN  /\ pc[Server] \in Updating =>
           rows[j.name] # Missing /\ (j.expect # 0 => rows[j.name].version = j.expect)
      /\ pc[Server] \in {"archive", "count", "prune"} => j.new # NoValue
      /\ pc[Server] = "archive" => j.row = rows[j.name]

\* The server is replacing the value of n and has reached one of the labels.
Replacing(n, labels) ==
  pc[Server] \in labels /\ job[Server].name = n /\ job[Server].new # NoValue

\* The history leads up to this version: to the next one of the row while the row's
\* version is archived and the row not yet updated.
Top(n) == rows[n].version + (IF Replacing(n, {"count", "prune", "commit"}) THEN 1 ELSE 0)

\* A version more than MaxHistory is there between archiving and pruning.
Slack(n) == IF Replacing(n, {"count", "prune"}) THEN 1 ELSE 0

VersionKept(n, k) == \E h \in HistoryOf(n) : h.row.version = k

NoHole(n) == \A h \in HistoryOf(n) : \A k \in h.row.version .. (Top(n) - 1) : VersionKept(n, k)

Window(n) ==
  /\ \A g, h \in HistoryOf(n) : g.row.version = h.row.version => g = h
  /\ \A k \in Nat : VersionKept(n, k) <=> 1 <= k /\ k < Top(n) /\ k + MaxHistory + Slack(n) >= Top(n)
  /\ Replacing(n, {"prune"}) => job[Server].excess = 1 /\ MaxHistory + 1 < Top(n)

LEMMA GotoEffect ==
  ASSUME TypeInv, NEW p \in Procs, NEW label, NEW j, Goto(p, label, j)
  PROVE  /\ pc'[p] = label /\ job'[p] = j
         /\ \A q \in Procs \ {p} : pc'[q] = pc[q] /\ job'[q] = job[q]
  BY DEF Goto, TypeInv, TypeOK

\* A call of the server that moves on with the name, the value and the version it had.
LEMMA KeepsRow ==
  ASSUME TypeInv, OthersRead, RowKept, NEW label \in Updating \ {"load", "archive"}, NEW j,
         Goto(Server, label, j), pc[Server] \in {"archive", "count", "prune"},
         j.name = job[Server].name, j.new = job[Server].new, j.expect = job[Server].expect,
         UNCHANGED rows
  PROVE  OthersRead' /\ RowKept'
<1>1. /\ pc'[Server] = label /\ job'[Server] = j
      /\ \A q \in Procs \ {Server} : pc'[q] = pc[q]
  BY ServerIsAProcess, GotoEffect
<1>2. QED
  BY <1>1 DEF OthersRead, RowKept, Updating

LEMMA ControlStep ==
  ASSUME ServerWrites, TypeInv, OthersRead, RowKept, [Next]_vars
  PROVE  OthersRead' /\ RowKept'
<1> USE ServerIsAProcess
\* A process that reads, or is cut short, and the server at the end of a call.
<1>1. ASSUME NEW p \in Procs, NEW label \in {"idle", "hit", "read", "created", "finish"}, NEW j,
             Goto(p, label, j), p # Server => label \in {"idle", "hit", "read"},
             p # Server => UNCHANGED rows
      PROVE  OthersRead' /\ RowKept'
  <2>1. pc'[p] = label /\ \A q \in Procs \ {p} : pc'[q] = pc[q] /\ job'[q] = job[q]
    BY <1>1, GotoEffect
  <2>2. OthersRead'
    BY <1>1, <2>1 DEF OthersRead
  <2>3. CASE p = Server
    BY <2>1, <2>2, <2>3 DEF RowKept, Updating
  <2>4. CASE p # Server
    BY <1>1, <2>1, <2>2, <2>4 DEF RowKept
  <2>5. QED
    BY <2>3, <2>4
<1>2. ASSUME NEW p \in Procs, Return(p), p # Server => UNCHANGED rows
      PROVE  OthersRead' /\ RowKept'
  BY <1>1, <1>2 DEF Return
<1>3. ASSUME NEW p \in Procs, NEW n \in Names, NEW v \in Values, Create(p, n, v)
      PROVE  OthersRead' /\ RowKept'
  <2>1. p = Server
    BY <1>3 DEF Create, ServerWrites
  <2>2. QED
    BY <1>1, <1>3, <2>1 DEF Create, Begin
<1>4. ASSUME NEW p \in Procs, NEW n \in Names, Delete(p, n)
      PROVE  OthersRead' /\ RowKept'
  <2>1. pc[Server] = "idle" /\ pc' = pc
    BY <1>4 DEF Delete, ServerWrites
  <2>2. QED
    BY <2>1 DEF OthersRead, RowKept, Updating
<1>5. ASSUME NEW p \in Procs, NEW n \in Names, NEW new \in Values \cup {NoValue},
             StartUpdate(p, n, new)
      PROVE  OthersRead' /\ RowKept'
  <2> DEFINE j == [Loaded([NoJob EXCEPT !.name = n, !.new = new], rows[n]) EXCEPT !.op = ops + 1]
  <2>1. p = Server /\ rows[n] # Missing /\ rows' = rows
    BY <1>5 DEF StartUpdate, ServerWrites
  <2>2. j.name = n /\ j.new = new /\ j.row = rows[n] /\ j.expect = 0
    BY DEF Loaded, NoJob
  <2>3. Goto(Server, AfterLoad(new), j)
    BY <1>5, <2>1 DEF StartUpdate, Begin
  <2> HIDE DEF j
  <2>4. /\ pc'[Server] = AfterLoad(new) /\ job'[Server] = j
        /\ \A q \in Procs \ {Server} : pc'[q] = pc[q]
    BY <2>3, GotoEffect
  <2>5. QED
    BY <2>1, <2>2, <2>4 DEF OthersRead, RowKept, AfterLoad
<1>6. ASSUME NEW n \in Names, NEW new \in Values \cup {NoValue}, StartUiSave(n, new)
      PROVE  OthersRead' /\ RowKept'
  <2> DEFINE j == [[NoJob EXCEPT !.name = n, !.new = new, !.expect = tab[n]] EXCEPT !.op = ops + 1]
  <2>1. rows[n] # Missing /\ tab[n] = rows[n].version /\ rows' = rows
    BY <1>6 DEF StartUiSave, FormIsCurrent
  <2>2. j.name = n /\ j.new = new /\ j.expect = tab[n]
    BY DEF NoJob
  <2>3. Goto(Server, "load", j)
    BY <1>6 DEF StartUiSave, Begin
  <2> HIDE DEF j
  <2>4. /\ pc'[Server] = "load" /\ job'[Server] = j
        /\ \A q \in Procs \ {Server} : pc'[q] = pc[q]
    BY <2>3, GotoEffect
  <2>5. QED
    BY <2>1, <2>2, <2>4 DEF OthersRead, RowKept
<1>7. ASSUME NEW p \in Procs, UpdateStep(p) \/ FinishCreate(p)
      PROVE  p = Server
  BY <1>7 DEF UpdateStep, Load, ArchiveRow, CountHistory, PruneHistory, Commit, FinishUpdate,
              FinishCreate, OthersRead
<1>8. ASSUME Load(Server)
      PROVE  OthersRead' /\ RowKept'
  <2> DEFINE j == Loaded(job[Server], rows[job[Server].name])
  <2>1. rows[job[Server].name] # Missing /\ rows' = rows /\ pc[Server] = "load"
    BY <1>8 DEF Load, RowKept, Updating
  <2>2. /\ j.name = job[Server].name /\ j.new = job[Server].new /\ j.expect = job[Server].expect
        /\ j.row = rows[j.name]
    BY DEF Loaded, TypeInv, TypeOK, Job
  <2>3. Goto(Server, AfterLoad(job[Server].new), j)
    BY <1>8, <2>1 DEF Load
  <2> HIDE DEF j
  <2>4. /\ pc'[Server] = AfterLoad(job[Server].new) /\ job'[Server] = j
        /\ \A q \in Procs \ {Server} : pc'[q] = pc[q]
    BY <2>3, GotoEffect
  <2>5. QED
    BY <2>1, <2>2, <2>4 DEF OthersRead, RowKept, AfterLoad, Updating
<1>9. ASSUME ArchiveRow(Server)
      PROVE  OthersRead' /\ RowKept'
  BY <1>2, <1>9, KeepsRow DEF ArchiveRow, Updating
<1>10. ASSUME CountHistory(Server)
       PROVE  OthersRead' /\ RowKept'
  <2> DEFINE j == [job[Server] EXCEPT
                     !.excess = Cardinality(HistoryOf(job[Server].name)) - MaxHistory]
  <2>1. Goto(Server, "prune", j) \/ Goto(Server, "commit", job[Server])
    BY <1>10 DEF CountHistory
  <2>2. j.name = job[Server].name /\ j.new = job[Server].new /\ j.expect = job[Server].expect
    BY DEF TypeInv, TypeOK, Job
  <2> HIDE DEF j
  <2>3. QED
    BY <1>10, <2>1, <2>2, KeepsRow DEF CountHistory, Updating
<1>11. ASSUME PruneHistory(Server)
       PROVE  OthersRead' /\ RowKept'
  BY <1>11, KeepsRow DEF PruneHistory, Updating
<1>12. ASSUME Commit(Server) \/ FinishUpdate(Server) \/ FinishCreate(Server)
       PROVE  OthersRead' /\ RowKept'
  BY <1>1, <1>2, <1>12 DEF Commit, FinishUpdate, FinishCreate
<1>13. ASSUME NEW p \in Procs, NEW n \in Names, Get(p, n)
       PROVE  OthersRead' /\ RowKept'
  BY <1>1, <1>13 DEF Get
<1>14. ASSUME NEW p \in Procs, FinishHit(p) \/ FinishRead(p) \/ Crash(p) \/ StatementFails(p)
       PROVE  OthersRead' /\ RowKept'
  BY <1>2, <1>14 DEF FinishHit, FinishRead, Crash, StatementFails, Interrupt
<1>15. ASSUME (\E n \in Names : UiOpen(n) \/ Expire(n)) \/ RefreshCache \/ UNCHANGED vars
       PROVE  OthersRead' /\ RowKept'
  BY <1>15 DEF UiOpen, Expire, RefreshCache, vars, OthersRead, RowKept
<1>16. ASSUME NEW p \in Procs, NEW n \in Names, StartEmptyUpdate(p, n)
       PROVE  OthersRead' /\ RowKept'
  <2>1. p = Server
    BY <1>16 DEF StartEmptyUpdate, ServerWrites
  <2>2. QED
    BY <1>1, <1>16, <2>1 DEF StartEmptyUpdate, Begin
<1>17. QED
  BY <1>3, <1>4, <1>5, <1>6, <1>7, <1>8, <1>9, <1>10, <1>11, <1>12, <1>13, <1>14, <1>15, <1>16
     DEF Next, UpdateStep


WholeHistory(n) == NoHole(n) /\ (faults = 0 => Window(n))

HistoryInv == \A n \in Names : WholeHistory(n)

LEMMA HistoryNumbers ==
  ASSUME TypeInv, NEW n \in Names
  PROVE  /\ rows[n].version \in Nat /\ Top(n) \in Nat /\ Slack(n) \in {0, 1} /\ MaxHistory \in Nat
         /\ Top(n) \in {rows[n].version, rows[n].version + 1}
         /\ HistoryOf(n) \subseteq history /\ IsFiniteSet(HistoryOf(n))
         /\ \A h \in HistoryOf(n) : h.row.version \in Nat /\ h.name = n
         /\ \A k : VersionKept(n, k) => k \in Nat
<1>1. HistoryOf(n) \subseteq history /\ \A h \in HistoryOf(n) : h.row \in Row /\ h.name = n
  BY DEF TypeInv, TypeOK, HistoryOf, Archived
<1>2. IsFiniteSet(HistoryOf(n))
  BY <1>1, FS_Subset DEF TypeInv
<1>3. rows[n].version \in Nat /\ \A h \in HistoryOf(n) : h.row.version \in Nat
  BY <1>1 DEF TypeInv, TypeOK, Row
<1>4. QED
  BY <1>1, <1>2, <1>3, BoundAssumption DEF Top, Slack, VersionKept

\* A step that leaves the history of n as it is.
LEMMA HistoryKept ==
  ASSUME TypeInv, TypeInv', HistoryInv, NEW n \in Names, UNCHANGED HistoryOf(n), Top(n)' <= Top(n),
         faults' = 0 => faults = 0 /\ Top(n)' = Top(n) /\ Slack(n)' = Slack(n),
         faults' = 0 /\ Replacing(n, {"prune"})' =>
           Replacing(n, {"prune"}) /\ job'[Server].excess = job[Server].excess
  PROVE  WholeHistory(n)'
<1>1. \A k : VersionKept(n, k)' <=> VersionKept(n, k)
  BY DEF VersionKept
<1>2. Top(n) \in Nat /\ Top(n)' \in Nat /\ \A h \in HistoryOf(n) : h.row.version \in Nat
  <2>1. Top(n)' \in Nat
    BY DEF TypeInv, TypeOK, Row, Top
  <2>2. QED
    BY <2>1, HistoryNumbers
<1>3. NoHole(n)'
  BY <1>1, <1>2 DEF HistoryInv, WholeHistory, NoHole
<1>4. ASSUME faults' = 0 PROVE Window(n)'
  BY <1>1, <1>4 DEF HistoryInv, WholeHistory, Window
<1>5. QED
  BY <1>3, <1>4 DEF WholeHistory

\* No version was superseded yet.
LEMMA HistoryEmpty ==
  ASSUME NEW n \in Names, HistoryOf(n)' = {}, Top(n)' \in {0, 1}, ~ Replacing(n, {"prune"})'
  PROVE  WholeHistory(n)'
<1>1. \A k : ~ VersionKept(n, k)'
  BY DEF VersionKept
<1>2. QED
  BY <1>1 DEF WholeHistory, NoHole, Window

\* As many rows as versions: the size of a history that is a window.
LEMMA WindowSize ==
  ASSUME TypeInv, NEW n \in Names, NEW a \in Nat, NEW b \in Nat,
         \A g, h \in HistoryOf(n) : g.row.version = h.row.version => g = h,
         \A k \in Nat : VersionKept(n, k) <=> a <= k /\ k <= b
  PROVE  Cardinality(HistoryOf(n)) = IF a > b THEN 0 ELSE b - a + 1
<1> DEFINE f == [h \in HistoryOf(n) |-> h.row.version]
<1>1. f \in [HistoryOf(n) -> a .. b]
  <2>1. \A h \in HistoryOf(n) : h.row.version \in Nat /\ VersionKept(n, h.row.version)
    BY HistoryNumbers DEF VersionKept
  <2>2. QED
    BY <2>1
<1>2. \A k \in a .. b : \E h \in HistoryOf(n) : f[h] = k
  BY DEF VersionKept
<1>3. f \in Bijection(HistoryOf(n), a .. b)
  <2>1. \A g, h \in HistoryOf(n) : f[g] = f[h] => g = h
    OBVIOUS
  <2>2. DOMAIN f = HistoryOf(n)
    OBVIOUS
  <2> HIDE DEF f
  <2>3. QED
    BY <1>1, <1>2, <2>1, <2>2 DEF Bijection, Injection, Surjection, IsInjective
<1>4. IsFiniteSet(HistoryOf(n)) /\ ExistsBijection(HistoryOf(n), a .. b)
  BY <1>3, HistoryNumbers DEF ExistsBijection
<1> HIDE DEF f
<1>5. Cardinality(a .. b) = Cardinality(HistoryOf(n))
  BY <1>4, FS_Bijection
<1>6. Cardinality(a .. b) = IF a > b THEN 0 ELSE b - a + 1
  BY FS_Interval
<1>7. QED
  BY <1>5, <1>6


\* The row that is archived is the current version: the history leads up to the next.
LEMMA ArchiveHistory ==
  ASSUME TypeInv, TypeInv', LedgerInv, RowKept, HistoryInv, ArchiveRow(Server)
  PROVE  HistoryInv'
<1> USE ServerIsAProcess
<1>0. PICK n \in Names : n = job[Server].name
  BY DEF ArchiveRow, TypeInv
<1> DEFINE new == [op |-> job[Server].op, name |-> n, row |-> job[Server].row]
<1>1. /\ pc[Server] = "archive" /\ n = job[Server].name /\ job[Server].new # NoValue
      /\ rows[n] # Missing /\ job[Server].row = rows[n]
      /\ UNCHANGED <<rows, faults>>
  BY <1>0 DEF ArchiveRow, RowKept, Updating
<1>2. history' = history \cup {new} /\ Goto(Server, "count", job[Server])
  BY <1>1 DEF ArchiveRow
<1>3. pc'[Server] = "count" /\ job'[Server] = job[Server]
  BY <1>2, GotoEffect
<1>4. 0 < rows[n].version /\ rows[n].version \in Nat
  BY <1>1 DEF LedgerInv, LedgerOK, RowsOK, TypeInv, TypeOK, Row
<1>5. ASSUME NEW m \in Names \ {n} PROVE WholeHistory(m)'
  <2>1. UNCHANGED HistoryOf(m)
    BY <1>2, <1>5 DEF HistoryOf
  <2>2. /\ Top(m)' = Top(m) /\ Slack(m)' = Slack(m) /\ ~ Replacing(m, {"prune"})'
        /\ Top(m) \in Nat
    BY <1>1, <1>3, <1>5, HistoryNumbers DEF Top, Slack, Replacing
  <2>3. QED
    BY <1>1, <2>1, <2>2, HistoryKept
<1>6. WholeHistory(n)'
  <2>1. HistoryOf(n)' = HistoryOf(n) \cup {new} /\ new.row.version = rows[n].version
    BY <1>1, <1>2 DEF HistoryOf
  <2>2. /\ Top(n) = rows[n].version /\ Slack(n) = 0
        /\ Top(n)' = rows[n].version + 1 /\ Slack(n)' = 1 /\ ~ Replacing(n, {"prune"})'
    BY <1>1, <1>3, <1>4 DEF Top, Slack, Replacing
  <2> HIDE DEF new
  <2>3. \A k : VersionKept(n, k)' <=> VersionKept(n, k) \/ k = rows[n].version
    BY <2>1 DEF VersionKept
  <2>4. \A h \in HistoryOf(n) : h.row.version \in Nat /\ VersionKept(n, h.row.version)
    BY <1>1, HistoryNumbers DEF VersionKept
  <2>5. NoHole(n)'
    BY <1>1, <1>4, <2>1, <2>2, <2>3, <2>4 DEF HistoryInv, WholeHistory, NoHole
  <2>6. ASSUME faults' = 0 PROVE Window(n)'
    <3>1. Window(n) /\ MaxHistory \in Nat
      BY <1>1, <2>6, BoundAssumption DEF HistoryInv, WholeHistory
    <3>2. \A h \in HistoryOf(n) : h.row.version # rows[n].version
      BY <1>4, <2>2, <2>4, <3>1 DEF Window
    <3>3. \A g, h \in HistoryOf(n)' : g.row.version = h.row.version => g = h
      BY <2>1, <3>1, <3>2 DEF Window
    <3>4. \A k \in Nat :
            VersionKept(n, k)' <=> 1 <= k /\ k < Top(n)' /\ k + MaxHistory + Slack(n)' >= Top(n)'
      BY <1>4, <2>2, <2>3, <3>1 DEF Window
    <3>5. QED
      BY <2>2, <3>3, <3>4 DEF Window
  <2>7. QED
    BY <2>5, <2>6 DEF WholeHistory
<1>7. QED
  BY <1>5, <1>6 DEF HistoryInv

\* The count is one above the cap, or the history needs no pruning.
LEMMA CountHistoryKept ==
  ASSUME TypeInv, TypeInv', RowKept, HistoryInv, CountHistory(Server)
  PROVE  HistoryInv'
<1> USE ServerIsAProcess
<1>0. PICK n \in Names : n = job[Server].name
  BY DEF CountHistory, TypeInv
<1> DEFINE size == Cardinality(HistoryOf(n))
           j == [job[Server] EXCEPT !.excess = size - MaxHistory]
<1>1. /\ pc[Server] = "count" /\ n = job[Server].name /\ job[Server].new # NoValue
      /\ UNCHANGED <<rows, history, faults>>
  BY <1>0 DEF CountHistory, RowKept
<1>2. /\ j.name = n /\ j.new = job[Server].new
      /\ j.excess = size - MaxHistory
  BY <1>0 DEF TypeInv, TypeOK, Job
<1>3. \/ size > MaxHistory /\ pc'[Server] = "prune" /\ job'[Server] = j
      \/ ~ (size > MaxHistory) /\ pc'[Server] = "commit" /\ job'[Server] = job[Server]
  <2>1. \/ size > MaxHistory /\ Goto(Server, "prune", j)
        \/ ~ (size > MaxHistory) /\ Goto(Server, "commit", job[Server])
    BY <1>0 DEF CountHistory, Excess
  <2> HIDE DEF j
  <2>2. QED
    BY <2>1, GotoEffect
<1> HIDE DEF j, size
<1>4. \A m \in Names : HistoryOf(m)' = HistoryOf(m)
  BY <1>1 DEF HistoryOf
<1>5. ASSUME NEW m \in Names \ {n} PROVE WholeHistory(m)'
  <2>1. /\ Top(m)' = Top(m) /\ Slack(m)' = Slack(m) /\ ~ Replacing(m, {"prune"})'
        /\ Top(m) \in Nat
    BY <1>1, <1>2, <1>3, <1>5, HistoryNumbers DEF Top, Slack, Replacing
  <2>2. QED
    BY <1>1, <1>4, <2>1, HistoryKept
<1>6. WholeHistory(n)'
  <2>1. /\ Top(n) = rows[n].version + 1 /\ Slack(n) = 1 /\ Top(n)' = Top(n)
        /\ Slack(n)' = IF size > MaxHistory THEN 1 ELSE 0
        /\ Replacing(n, {"prune"})' <=> size > MaxHistory
    BY <1>1, <1>2, <1>3 DEF Top, Slack, Replacing
  <2>2. \A k : VersionKept(n, k)' <=> VersionKept(n, k)
    BY <1>1, <1>4 DEF VersionKept
  <2>3. Top(n) \in Nat /\ 0 < Top(n) /\ MaxHistory \in Nat
    BY <1>1, <2>1, HistoryNumbers
  <2>4. NoHole(n)'
    BY <1>1, <1>4, <2>1, <2>2 DEF HistoryInv, WholeHistory, NoHole
  <2>5. ASSUME faults' = 0 PROVE Window(n)'
    <3>1. Window(n)
      BY <1>1, <2>5 DEF HistoryInv, WholeHistory
    <3>2. CASE MaxHistory + 1 < Top(n)
      <4> DEFINE low == Top(n) - 1 - MaxHistory
      <4>1. low \in Nat /\ Top(n) - 1 \in Nat /\ low <= Top(n) - 1
        BY <2>3, <3>2
      <4>2. \A k \in Nat : VersionKept(n, k) <=> low <= k /\ k <= Top(n) - 1
        BY <2>1, <2>3, <3>1, <3>2 DEF Window
      <4>3. size = MaxHistory + 1
        <5> DEFINE high == Top(n) - 1
        <5>1. low \in Nat /\ high \in Nat /\ \A k \in Nat : VersionKept(n, k) <=> low <= k /\ k <= high
          BY <4>1, <4>2
        <5>2. low <= high /\ high - low + 1 = MaxHistory + 1
          BY <2>3, <4>1
        <5> HIDE DEF low, high
        <5>3. size = IF low > high THEN 0 ELSE high - low + 1
          BY <3>1, <5>1, WindowSize DEF Window, size
        <5>4. QED
          BY <5>1, <5>2, <5>3
      <4>4. size > MaxHistory /\ size - MaxHistory = 1
        BY <2>3, <4>3
      <4>5. job'[Server].excess = 1
        BY <1>2, <1>3, <4>4
      <4>6. QED
        BY <1>1, <1>4, <2>1, <2>2, <3>1, <3>2, <4>4, <4>5 DEF Window
    <3>3. CASE ~ (MaxHistory + 1 < Top(n))
      <4>1. \A k \in Nat : VersionKept(n, k) <=> 1 <= k /\ k <= Top(n) - 1
        BY <2>1, <2>3, <3>1, <3>3 DEF Window
      <4>2. size = IF 1 > Top(n) - 1 THEN 0 ELSE Top(n) - 1 - 1 + 1
        <5>1. 1 \in Nat /\ Top(n) - 1 \in Nat
          BY <2>3
        <5>2. QED
          BY <1>1, <3>1, <4>1, <5>1, WindowSize DEF Window, size
      <4>3. ~ (size > MaxHistory)
        BY <2>3, <3>3, <4>2
      <4>4. \A k \in Nat :
              VersionKept(n, k)' <=> 1 <= k /\ k < Top(n)' /\ k + MaxHistory + Slack(n)' >= Top(n)'
        BY <2>1, <2>2, <2>3, <3>3, <4>1, <4>3
      <4>5. QED
        BY <1>1, <1>4, <2>1, <3>1, <4>3, <4>4 DEF Window
    <3>4. QED
      BY <3>2, <3>3
  <2>6. QED
    BY <2>4, <2>5 DEF WholeHistory
<1>7. QED
  BY <1>5, <1>6 DEF HistoryInv


\* What goes is the oldest: no hole is left, and of a window with one version too many
\* the version that is too many.
LEMMA PruneHistoryKept ==
  ASSUME TypeInv, TypeInv', RowKept, HistoryInv, PruneHistory(Server)
  PROVE  HistoryInv'
<1> USE ServerIsAProcess
<1>0. PICK n \in Names : n = job[Server].name
  BY DEF PruneHistory, TypeInv
<1>1. /\ pc[Server] = "prune" /\ n = job[Server].name /\ job[Server].new # NoValue
      /\ UNCHANGED <<rows, faults>>
      /\ pc'[Server] = "commit" /\ job'[Server] = job[Server]
  BY <1>0, GotoEffect DEF PruneHistory, RowKept
<1>2. PICK gone \in SUBSET HistoryOf(n) :
        Pruned(n, job[Server].excess, gone) /\ history' = history \ gone
  BY <1>0 DEF PruneHistory
<1>3. \A h \in HistoryOf(n) \ gone, g \in gone : g.row.version <= h.row.version
  BY <1>2 DEF Pruned, OldestOf
<1>4. HistoryOf(n)' = HistoryOf(n) \ gone /\ \A m \in Names \ {n} : HistoryOf(m)' = HistoryOf(m)
  BY <1>2 DEF HistoryOf
<1>5. ASSUME NEW m \in Names \ {n} PROVE WholeHistory(m)'
  <2>1. /\ Top(m)' = Top(m) /\ Slack(m)' = Slack(m) /\ ~ Replacing(m, {"prune"})'
        /\ Top(m) \in Nat
    BY <1>1, <1>5, HistoryNumbers DEF Top, Slack, Replacing
  <2>2. QED
    BY <1>1, <1>4, <2>1, HistoryKept
<1>6. WholeHistory(n)'
  <2>1. /\ rows[n].version \in Nat /\ Top(n) \in Nat /\ MaxHistory \in Nat
        /\ \A h \in HistoryOf(n) : h.row.version \in Nat
        /\ IsFiniteSet(HistoryOf(n))
    BY HistoryNumbers
  <2>2. /\ Top(n)' = Top(n) /\ Slack(n) = 1 /\ Slack(n)' = 0
        /\ Replacing(n, {"prune"}) /\ ~ Replacing(n, {"prune"})'
    BY <1>1, <2>1 DEF Top, Slack, Replacing
  <2>3. NoHole(n)'
    <3>1. ASSUME NEW h \in HistoryOf(n) \ gone, NEW k \in h.row.version .. (Top(n) - 1)
          PROVE  \E g \in HistoryOf(n) \ gone : g.row.version = k
      <4>1. k \in Nat /\ h.row.version <= k
        BY <2>1, <3>1
      <4>2. PICK g \in HistoryOf(n) : g.row.version = k
        BY DEF HistoryInv, WholeHistory, NoHole, VersionKept
      <4>3. CASE g \in gone
        <5>1. h.row.version = k
          BY <1>3, <2>1, <4>1, <4>2, <4>3
        <5>2. QED
          BY <5>1
      <4>4. QED
        BY <4>2, <4>3
    <3>2. QED
      BY <1>4, <2>2, <3>1 DEF NoHole, VersionKept
  <2>4. ASSUME faults' = 0 PROVE Window(n)'
    <3>1. Window(n) /\ job[Server].excess = 1 /\ MaxHistory + 1 < Top(n)
      BY <1>1, <2>2, <2>4 DEF HistoryInv, WholeHistory, Window
    <3>2. PICK low \in Nat : low = Top(n) - 1 - MaxHistory /\ 1 <= low /\ low < Top(n)
      BY <2>1, <3>1
    <3>3. PICK h \in HistoryOf(n) : h.row.version = low
      BY <2>1, <2>2, <3>1, <3>2 DEF Window, VersionKept
    <3>4. \E g \in HistoryOf(n) : gone = {g}
      <4>1. Cardinality(HistoryOf(n)) \in Nat /\ Cardinality(HistoryOf(n)) # 0
        BY <2>1, <3>3, FS_CardinalityType, FS_EmptySet
      <4>2. Cardinality(gone) = 1
        BY <1>2, <3>1, <4>1 DEF Pruned
      <4>3. IsFiniteSet(gone)
        BY <2>1, FS_Subset
      <4>4. QED
        BY <4>2, <4>3, FS_Singleton
    <3>5. PICK g \in HistoryOf(n) : gone = {g}
      BY <3>4
    <3>6. \A f \in HistoryOf(n) : low <= f.row.version
      BY <2>1, <2>2, <3>1, <3>2 DEF Window, VersionKept
    <3>7. g = h
      <4>1. CASE g # h
        <5>1. g.row.version <= low
          BY <1>3, <3>3, <3>5, <4>1
        <5>2. g.row.version = h.row.version
          BY <2>1, <3>3, <3>6, <5>1
        <5>3. QED
          BY <3>1, <5>2 DEF Window
      <4>2. QED
        BY <4>1
    <3>8. \A k \in Nat : VersionKept(n, k)' <=> VersionKept(n, k) /\ k # low
      BY <1>4, <3>1, <3>3, <3>5, <3>7 DEF Window, VersionKept
    <3>9. \A k \in Nat :
            VersionKept(n, k)' <=> 1 <= k /\ k < Top(n)' /\ k + MaxHistory + Slack(n)' >= Top(n)'
      BY <2>1, <2>2, <3>1, <3>2, <3>8 DEF Window
    <3>10. QED
      BY <1>4, <2>2, <3>1, <3>9 DEF Window
  <2>5. QED
    BY <2>3, <2>4 DEF WholeHistory
<1>7. QED
  BY <1>5, <1>6 DEF HistoryInv

\* The row becomes the version the history already leads up to.
LEMMA CommitHistory ==
  ASSUME TypeInv, TypeInv', RowKept, HistoryInv, Commit(Server)
  PROVE  HistoryInv'
<1> USE ServerIsAProcess
<1>0. PICK n \in Names : n = job[Server].name
  BY DEF Commit, TypeInv
<1>1. /\ pc[Server] = "commit" /\ n = job[Server].name /\ rows[n] # Missing
      /\ pc'[Server] = "finish" /\ UNCHANGED <<history, faults>>
  BY <1>0, GotoEffect DEF Commit, RowKept, Updating
<1>2. /\ \A m \in Names \ {n} : rows'[m].version = rows[m].version
      /\ rows'[n].version = rows[n].version + (IF job[Server].new = NoValue THEN 0 ELSE 1)
  <2>1. rows[n].version \in Nat
    BY HistoryNumbers
  <2>2. CASE job[Server].new = NoValue
    BY <1>0, <1>1, <2>1, <2>2 DEF Commit
  <2>3. CASE job[Server].new # NoValue
    <3> DEFINE row == Bump(rows[n], job[Server].row, job[Server].new)
    <3>1. rows' = [rows EXCEPT ![n] = row] /\ row.version = rows[n].version + 1
      BY <1>0, <1>1, <2>3 DEF Commit, Bump
    <3> HIDE DEF row
    <3>2. QED
      BY <2>3, <3>1 DEF TypeInv, TypeOK
  <2>4. QED
    BY <2>2, <2>3
<1>3. ASSUME NEW m \in Names PROVE WholeHistory(m)'
  <2>1. rows[m].version \in Nat /\ Top(m) \in Nat
    BY HistoryNumbers
  <2>2. Top(m)' = Top(m) /\ Slack(m)' = Slack(m) /\ ~ Replacing(m, {"prune"})'
    BY <1>1, <1>2, <2>1 DEF Top, Slack, Replacing
  <2>3. UNCHANGED HistoryOf(m)
    BY <1>1 DEF HistoryOf
  <2>4. QED
    BY <1>1, <2>1, <2>2, <2>3, HistoryKept
<1>4. QED
  BY <1>3 DEF HistoryInv

LEMMA CreateHistory ==
  ASSUME TypeInv, TypeInv', LedgerInv, HistoryInv, NEW n \in Names, NEW v \in Values,
         Create(Server, n, v)
  PROVE  HistoryInv'
<1> USE ServerIsAProcess
<1>1. /\ pc[Server] = "idle" /\ rows[n] = Missing /\ UNCHANGED <<history, faults>>
      /\ rows' = [rows EXCEPT ![n] = [id |-> ops + 1, version |-> 1, value |-> v]]
  BY DEF Create, Begin
<1>2. pc'[Server] = "created"
  BY GotoEffect DEF Create, Begin
<1>3. \A m \in Names : HistoryOf(m)' = HistoryOf(m)
  BY <1>1 DEF HistoryOf
<1>4. ASSUME NEW m \in Names \ {n} PROVE WholeHistory(m)'
  <2>1. rows'[m] = rows[m] /\ Top(m) \in Nat
    BY <1>1, HistoryNumbers DEF TypeInv, TypeOK
  <2>2. Top(m)' = Top(m) /\ Slack(m)' = Slack(m) /\ ~ Replacing(m, {"prune"})'
    BY <1>1, <1>2, <2>1 DEF Top, Slack, Replacing
  <2>3. QED
    BY <1>1, <1>3, <2>1, <2>2, HistoryKept
<1>5. WholeHistory(n)'
  <2>1. HistoryOf(n) = {}
    <3>1. ASSUME NEW h \in history
          PROVE  h.row.id = rows[h.name].id /\ h.row.id # 0
      <4>1. /\ h.name \in Names /\ h.row \in ledger[h.name]
            /\ h.row.id = rows[h.name].id
        BY DEF LedgerInv, HistoryOK, TypeInv, TypeOK, Archived
      <4>2. 0 < h.row.id
        BY <4>1 DEF LedgerInv, LedgerOK
      <4>3. QED
        BY <4>1, <4>2
    <3>2. rows[n].id = 0
      BY <1>1 DEF Missing
    <3>3. QED
      BY <3>1, <3>2 DEF HistoryOf
  <2>2. rows'[n].version = 1
    BY <1>1 DEF TypeInv, TypeOK
  <2>3. Top(n)' = 1 /\ ~ Replacing(n, {"prune"})'
    BY <1>2, <2>2 DEF Top, Replacing
  <2>4. QED
    BY <1>3, <2>1, <2>3, HistoryEmpty
<1>6. QED
  BY <1>4, <1>5 DEF HistoryInv

LEMMA DeleteHistory ==
  ASSUME TypeInv, TypeInv', LedgerInv, HistoryInv, NEW n \in Names, Delete(Server, n)
  PROVE  HistoryInv'
<1> USE ServerIsAProcess
<1>1. /\ pc[Server] = "idle" /\ UNCHANGED <<pc, faults>>
      /\ rows' = [rows EXCEPT ![n] = Missing]
      /\ history' = {h \in history : h.row.id # rows[n].id}
  BY DEF Delete, HistoryWithout
<1>2. \A h \in history : h.row.id = rows[h.name].id /\ h.row.id # 0 /\ h.name \in Names
  BY DEF LedgerInv, LedgerOK, HistoryOK, TypeInv, TypeOK, Archived, Row
<1>3. ASSUME NEW m \in Names \ {n} PROVE WholeHistory(m)'
  <2>1. rows'[m] = rows[m] /\ Top(m) \in Nat
    BY <1>1, HistoryNumbers DEF TypeInv, TypeOK
  <2>2. \A h \in HistoryOf(m) : h.row.id # rows[n].id
    <3>1. ASSUME NEW h \in HistoryOf(m), h.row.id = rows[n].id PROVE FALSE
      <4>1. h \in history /\ h.name = m
        BY DEF HistoryOf
      <4>2. rows[m].id = rows[n].id /\ rows[m].id # 0
        BY <1>2, <3>1, <4>1
      <4>3. rows[n] # Missing
        BY <4>2 DEF Missing
      <4>4. m = n
        BY <4>2, <4>3 DEF LedgerInv, RowsOK
      <4>5. QED
        BY <4>4
    <3>2. QED
      BY <3>1
  <2>3. HistoryOf(m)' = HistoryOf(m)
    BY <1>1, <2>2 DEF HistoryOf
  <2>4. Top(m)' = Top(m) /\ Slack(m)' = Slack(m) /\ ~ Replacing(m, {"prune"})'
    BY <1>1, <2>1 DEF Top, Slack, Replacing
  <2>5. QED
    BY <1>1, <2>1, <2>3, <2>4, HistoryKept
<1>4. WholeHistory(n)'
  <2>1. HistoryOf(n)' = {}
    BY <1>1, <1>2 DEF HistoryOf
  <2>2. rows'[n].version = 0
    BY <1>1 DEF TypeInv, TypeOK, Missing
  <2>3. Top(n)' = 0 /\ ~ Replacing(n, {"prune"})'
    BY <1>1, <2>2 DEF Top, Replacing
  <2>4. QED
    BY <2>1, <2>3, HistoryEmpty
<1>5. QED
  BY <1>3, <1>4 DEF HistoryInv


\* A step that leaves the tables alone and no call of the server between its archiving
\* and its UPDATE.
LEMMA TablesKept ==
  ASSUME TypeInv, TypeInv', HistoryInv, UNCHANGED <<rows, history>>,
         faults' = 0 => faults = 0,
         \A n \in Names :
           /\ ~ Replacing(n, {"count", "prune", "commit"})'
           /\ faults' = 0 => ~ Replacing(n, {"count", "prune", "commit"})
  PROVE  HistoryInv'
<1>1. ASSUME NEW n \in Names PROVE WholeHistory(n)'
  <2>1. rows[n].version \in Nat /\ UNCHANGED HistoryOf(n)
    BY HistoryNumbers DEF HistoryOf
  <2>2. Top(n)' <= Top(n)
    BY <2>1 DEF Top
  <2>3. ~ Replacing(n, {"prune"})' /\ ~ Replacing(n, {"count", "prune"})'
    BY DEF Replacing
  <2>4. faults' = 0 => Top(n)' = Top(n) /\ Slack(n)' = Slack(n)
    BY <2>3 DEF Top, Slack, Replacing
  <2>5. QED
    BY <2>1, <2>2, <2>3, <2>4, HistoryKept
<1>2. QED
  BY <1>1 DEF HistoryInv

\* A step beside the server.
LEMMA HistoryAside ==
  ASSUME TypeInv, TypeInv', HistoryInv, UNCHANGED <<rows, history>>, faults' = 0 => faults = 0,
         pc'[Server] = pc[Server], job'[Server] = job[Server]
  PROVE  HistoryInv'
<1>1. ASSUME NEW n \in Names PROVE WholeHistory(n)'
  <2>1. Top(n) \in Nat /\ UNCHANGED HistoryOf(n)
    BY HistoryNumbers DEF HistoryOf
  <2>2. Top(n)' = Top(n) /\ Slack(n)' = Slack(n)
    BY DEF Top, Slack, Replacing
  <2>3. Replacing(n, {"prune"})' <=> Replacing(n, {"prune"})
    BY DEF Replacing
  <2>4. QED
    BY <2>1, <2>2, <2>3, HistoryKept
<1>2. QED
  BY <1>1 DEF HistoryInv

LEMMA HistoryStep ==
  ASSUME ServerWrites, TypeInv, TypeInv', LedgerInv, OthersRead, RowKept, HistoryInv, [Next]_vars
  PROVE  HistoryInv'
<1> USE ServerIsAProcess
<1> DEFINE replacing == {"count", "prune", "commit"}
<1>1. ASSUME NEW p \in Procs, NEW label, NEW j, Goto(p, label, j),
             p = Server => /\ pc[Server] \notin replacing
                           /\ label \notin replacing \/ (label = "commit" /\ j.new = NoValue),
             UNCHANGED <<rows, history, faults>>
      PROVE  HistoryInv'
  <2>1. /\ pc'[p] = label /\ job'[p] = j
        /\ \A q \in Procs \ {p} : pc'[q] = pc[q] /\ job'[q] = job[q]
    BY <1>1, GotoEffect
  <2>2. CASE p = Server
    BY <1>1, <2>1, <2>2, TablesKept DEF Replacing
  <2>3. CASE p # Server
    BY <1>1, <2>1, <2>3, HistoryAside
  <2>4. QED
    BY <2>2, <2>3
<1>2. ASSUME NEW p \in Procs, Interrupt(p), UNCHANGED <<rows, history>>
      PROVE  HistoryInv'
  <2>1. /\ pc'[p] = "idle"
        /\ \A q \in Procs \ {p} : pc'[q] = pc[q] /\ job'[q] = job[q]
        /\ faults' = faults + 1 /\ faults \in Nat
    BY <1>2, GotoEffect DEF Interrupt, Return, TypeInv, TypeOK
  <2>2. faults' # 0
    BY <2>1
  <2>3. CASE p = Server
    BY <1>2, <2>1, <2>2, <2>3, TablesKept DEF Replacing
  <2>4. CASE p # Server
    BY <1>2, <2>1, <2>2, <2>4, HistoryAside
  <2>5. QED
    BY <2>3, <2>4
<1>3. ASSUME NEW p \in Procs, NEW n \in Names, NEW v \in Values, Create(p, n, v)
      PROVE  HistoryInv'
  BY <1>3, CreateHistory DEF Create, ServerWrites
<1>4. ASSUME NEW p \in Procs, NEW n \in Names, Delete(p, n)
      PROVE  HistoryInv'
  BY <1>4, DeleteHistory DEF Delete, ServerWrites
<1>5. ASSUME NEW p \in Procs, NEW n \in Names, NEW new, StartUpdate(p, n, new)
      PROVE  HistoryInv'
  <2> DEFINE j == [Loaded([NoJob EXCEPT !.name = n, !.new = new], rows[n]) EXCEPT !.op = ops + 1]
  <2>1. j.new = new /\ (AfterLoad(new) = "commit" => new = NoValue)
    BY DEF Loaded, NoJob, AfterLoad
  <2>2. /\ Goto(p, AfterLoad(new), j) /\ pc[p] = "idle" /\ UNCHANGED <<rows, history, faults>>
        /\ AfterLoad(new) \in {"commit", "archive"}
    BY <1>5 DEF StartUpdate, Begin, AfterLoad
  <2> HIDE DEF j
  <2>3. QED
    BY <1>1, <2>1, <2>2
<1>6. ASSUME NEW n \in Names, NEW new, StartUiSave(n, new)
      PROVE  HistoryInv'
  <2>1. PICK j : Goto(Server, "load", j) /\ pc[Server] = "idle" /\ UNCHANGED <<rows, history, faults>>
    BY <1>6 DEF StartUiSave, Begin
  <2>2. QED
    BY <1>1, <2>1
<1>7. ASSUME NEW p \in Procs, UpdateStep(p) \/ FinishCreate(p)
      PROVE  p = Server
  BY <1>7 DEF UpdateStep, Load, ArchiveRow, CountHistory, PruneHistory, Commit, FinishUpdate,
              FinishCreate, OthersRead
<1>8. ASSUME Load(Server)
      PROVE  HistoryInv'
  <2> DEFINE j == Loaded(job[Server], rows[job[Server].name])
  <2>1. /\ j.new = job[Server].new
        /\ AfterLoad(job[Server].new) = "commit" => job[Server].new = NoValue
    BY DEF Loaded, AfterLoad, TypeInv, TypeOK, Job
  <2>2. /\ Return(Server) \/ Goto(Server, AfterLoad(job[Server].new), j)
        /\ pc[Server] = "load" /\ UNCHANGED <<rows, history, faults>>
        /\ AfterLoad(job[Server].new) \in {"commit", "archive"}
    BY <1>8 DEF Load, AfterLoad
  <2> HIDE DEF j
  <2>3. QED
    BY <1>1, <2>1, <2>2 DEF Return
<1>9. ASSUME ArchiveRow(Server) \/ CountHistory(Server) \/ PruneHistory(Server) \/ Commit(Server)
      PROVE  HistoryInv'
  BY <1>9, ArchiveHistory, CountHistoryKept, PruneHistoryKept, CommitHistory
<1>10. ASSUME NEW p \in Procs, NEW n \in Names, Get(p, n)
       PROVE  HistoryInv'
  <2>1. PICK label, j :
          label \in {"hit", "read"} /\ Goto(p, label, j) /\ pc[p] = "idle" /\ UNCHANGED <<rows, history, faults>>
    BY <1>10 DEF Get
  <2>2. QED
    BY <1>1, <2>1
<1>11. ASSUME NEW p \in Procs,
              FinishHit(p) \/ FinishRead(p) \/ FinishCreate(p) \/ FinishUpdate(p)
       PROVE  HistoryInv'
  <2>1. Goto(p, "idle", NoJob) /\ pc[p] \notin replacing /\ UNCHANGED <<rows, history, faults>>
    BY <1>11 DEF FinishHit, FinishRead, FinishCreate, FinishUpdate, Return
  <2>2. QED
    BY <1>1, <2>1
<1>12. ASSUME NEW p \in Procs, Crash(p) \/ StatementFails(p)
       PROVE  HistoryInv'
  BY <1>2, <1>12 DEF Crash, StatementFails, Interrupt
<1>13. ASSUME (\E n \in Names : UiOpen(n) \/ Expire(n)) \/ RefreshCache \/ UNCHANGED vars
       PROVE  HistoryInv'
  <2>1. UNCHANGED <<rows, history, faults, pc, job>>
    BY <1>13 DEF UiOpen, Expire, RefreshCache, vars
  <2>2. QED
    BY <2>1, HistoryAside
<1>14. ASSUME NEW p \in Procs, NEW n \in Names, StartEmptyUpdate(p, n)
       PROVE  HistoryInv'
  <2>1. PICK j : Goto(p, "finish", j) /\ pc[p] = "idle" /\ UNCHANGED <<rows, history, faults>>
    BY <1>14 DEF StartEmptyUpdate, Begin
  <2>2. QED
    BY <1>1, <2>1
<1>15. QED
  BY <1>3, <1>4, <1>5, <1>6, <1>7, <1>8, <1>9, <1>10, <1>11, <1>12, <1>13, <1>14
     DEF Next, UpdateStep

SoleInv == OthersRead /\ RowKept /\ HistoryInv

LEMMA SoleInit == Init => SoleInv
<1> SUFFICES ASSUME Init PROVE SoleInv
  OBVIOUS
<1> USE ServerIsAProcess
<1>1. OthersRead /\ RowKept
  BY DEF Init, OthersRead, RowKept, Updating
<1>2. \A n \in Names : /\ HistoryOf(n) = {} /\ Top(n) = 0
                       /\ ~ Replacing(n, {"prune"})
                       /\ \A k : ~ VersionKept(n, k)
  BY DEF Init, HistoryOf, Top, Replacing, VersionKept, Missing
<1>4. HistoryInv
  BY <1>2 DEF HistoryInv, WholeHistory, NoHole, Window
<1>5. QED
  BY <1>1, <1>4 DEF SoleInv

LEMMA SoleInvariance ==
  ASSUME ServerWrites
  PROVE  Spec => [](TypeInv /\ LedgerInv /\ SoleInv)
<1>1. Init => TypeInv /\ LedgerInv /\ SoleInv
  BY TypeInit, LedgerInit, SoleInit
<1>2. TypeInv /\ LedgerInv /\ SoleInv /\ [Next]_vars => (TypeInv /\ LedgerInv /\ SoleInv)'
  BY TypeStep, LedgerStep, ControlStep, HistoryStep DEF SoleInv
<1>3. QED
  BY <1>1, <1>2, PTL DEF Spec

\* From the oldest version the history keeps up to the current one there is no hole, also
\* when calls of the server were killed or failed half-way.
THEOREM StoreHistoryContiguous ==
  ASSUME ServerWrites
  PROVE  Spec => []HistoryContiguous
<1>1. ASSUME TypeInv, SoleInv, NEW h \in history, NEW k \in h.row.version .. (rows[h.name].version - 1)
      PROVE  \E g \in HistoryOf(h.name) : g.row.version = k
  <2>1. h.name \in Names /\ h \in HistoryOf(h.name)
    BY <1>1 DEF HistoryOf, TypeInv, TypeOK, Archived
  <2>2. NoHole(h.name) /\ rows[h.name].version <= Top(h.name)
    BY <1>1, <2>1, HistoryNumbers DEF SoleInv, HistoryInv, WholeHistory
  <2>3. h.row.version \in Nat /\ Top(h.name) \in Nat /\ rows[h.name].version \in Nat
    BY <1>1, <2>1, HistoryNumbers
  <2>4. k \in h.row.version .. (Top(h.name) - 1)
    BY <2>2, <2>3
  <2>5. QED
    BY <2>1, <2>2, <2>4 DEF NoHole, VersionKept
<1>2. TypeInv /\ SoleInv => HistoryContiguous
  BY <1>1 DEF HistoryContiguous
<1>3. QED
  BY <1>2, SoleInvariance, PTL

\* With nothing cut short, and between updates, the history is the last MaxHistory
\* superseded versions, each in one row.
THEOREM StoreHistoryWindow ==
  ASSUME ServerWrites
  PROVE  Spec => []HistoryWindow
<1>1. ASSUME TypeInv, SoleInv, faults = 0, \A p \in Procs : pc[p] \notin Updating, NEW n \in Names
      PROVE  LET last == rows[n].version
                 kept == {h.row.version : h \in HistoryOf(n)}
             IN  /\ Cardinality(HistoryOf(n)) = Cardinality(kept)
                 /\ kept = {k \in 1 .. last : k < last /\ k + MaxHistory >= last}
  <2> DEFINE last == rows[n].version
             kept == {h.row.version : h \in HistoryOf(n)}
             f == [h \in HistoryOf(n) |-> h.row.version]
  <2>1. ~ Replacing(n, {"count", "prune", "commit"}) /\ ~ Replacing(n, {"count", "prune"})
    BY <1>1, ServerIsAProcess DEF Replacing, Updating
  <2>2. last \in Nat /\ MaxHistory \in Nat /\ \A h \in HistoryOf(n) : h.row.version \in Nat
    BY <1>1, HistoryNumbers
  <2>3. Top(n) = last /\ Slack(n) = 0 /\ Window(n)
    BY <1>1, <2>1, <2>2 DEF Top, Slack, SoleInv, HistoryInv, WholeHistory
  <2>4. \A k \in Nat : k \in kept <=> 1 <= k /\ k < last /\ k + MaxHistory >= last
    BY <2>2, <2>3 DEF Window, VersionKept
  <2>5. kept = {k \in 1 .. last : k < last /\ k + MaxHistory >= last}
    BY <2>2, <2>4
  <2>6. f \in Bijection(HistoryOf(n), kept)
    <3>1. f \in [HistoryOf(n) -> kept] /\ DOMAIN f = HistoryOf(n)
      OBVIOUS
    <3>2. \A v \in kept : \E h \in HistoryOf(n) : f[h] = v
      OBVIOUS
    <3>3. \A g, h \in HistoryOf(n) : f[g] = f[h] => g = h
      BY <2>3 DEF Window
    <3> HIDE DEF f, kept
    <3>4. QED
      BY <3>1, <3>2, <3>3 DEF Bijection, Injection, Surjection, IsInjective
  <2>7. IsFiniteSet(HistoryOf(n)) /\ ExistsBijection(HistoryOf(n), kept)
    BY <1>1, <2>6, HistoryNumbers DEF ExistsBijection
  <2> HIDE DEF kept
  <2>8. Cardinality(kept) = Cardinality(HistoryOf(n))
    BY <2>7, FS_Bijection
  <2>9. QED
    BY <2>5, <2>8 DEF kept
<1>2. TypeInv /\ SoleInv => HistoryWindow
  BY <1>1 DEF HistoryWindow
<1>3. QED
  BY <1>2, SoleInvariance, PTL

\* A form that is saved with a new value replaces the version it was loaded at, although
\* the route's test and the UPDATE are several statements apart.
THEOREM StoreSaveReplacesWhatWasSeen ==
  ASSUME ServerWrites
  PROVE  Spec => SaveReplacesWhatWasSeen
<1>1. ASSUME TypeInv, SoleInv, NEW p \in Procs, pc[p] = "commit", job[p].expect # 0
      PROVE  rows[job[p].name].version = job[p].expect
  BY <1>1 DEF SoleInv, OthersRead, RowKept, Updating
<1>2. TypeInv /\ SoleInv /\ [Next]_vars =>
        [\A p \in Procs :
           pc[p] = "commit" /\ pc'[p] = "finish" /\ job[p].expect # 0 /\ rows' # rows =>
             rows[job[p].name].version = job[p].expect]_vars
  BY <1>1
<1>3. QED
  BY <1>2, SoleInvariance, PTL DEF Spec, SaveReplacesWhatWasSeen

-----------------------------------------------------------------------------
(***************************************************************************)
(* The cap on the history, whatever processes write: each call that has    *)
(* archived and not yet pruned accounts for one row above it.              *)
(***************************************************************************)

Pruning(n) == {p \in Procs : job[p].name = n /\ pc[p] \in {"count", "prune"}}

CapInv ==
  /\ \A p \in Procs : pc[p] = "prune" => 1 <= job[p].excess
  /\ \A n \in Names :
       /\ IsFiniteSet(Pruning(n))
       /\ faults = 0 => Cardinality(HistoryOf(n)) <= MaxHistory + Cardinality(Pruning(n))

\* A smaller history of which no more calls are about to prune less.
LEMMA CapKept ==
  ASSUME TypeInv, CapInv, NEW n \in Names, HistoryOf(n)' \subseteq HistoryOf(n),
         faults' = 0 => faults = 0,
         Pruning(n)' = Pruning(n) \/ (faults' # 0 /\ Pruning(n)' \subseteq Pruning(n))
  PROVE  /\ IsFiniteSet(Pruning(n)')
         /\ faults' = 0 => Cardinality(HistoryOf(n)') <= MaxHistory + Cardinality(Pruning(n)')
<1>1. IsFiniteSet(Pruning(n)')
  BY FS_Subset DEF CapInv
<1>2. ASSUME faults' = 0
      PROVE  Cardinality(HistoryOf(n)') <= MaxHistory + Cardinality(Pruning(n)')
  <2>1. /\ Cardinality(HistoryOf(n)) <= MaxHistory + Cardinality(Pruning(n))
        /\ Pruning(n)' = Pruning(n)
    BY <1>2 DEF CapInv
  <2>2. IsFiniteSet(HistoryOf(n)) /\ IsFiniteSet(Pruning(n)) /\ MaxHistory \in Nat
    BY HistoryNumbers DEF CapInv
  <2>3. /\ Cardinality(HistoryOf(n)') <= Cardinality(HistoryOf(n))
        /\ IsFiniteSet(HistoryOf(n)')
    BY <2>2, FS_Subset
  <2>4. /\ Cardinality(HistoryOf(n)) \in Nat /\ Cardinality(HistoryOf(n)') \in Nat
        /\ Cardinality(Pruning(n)) \in Nat
    BY <2>2, <2>3, FS_CardinalityType
  <2>5. QED
    BY <2>1, <2>2, <2>3, <2>4
<1>3. QED
  BY <1>1, <1>2

\* A call that is not about to count or prune, and does not go there.
LEMMA CapAside ==
  ASSUME TypeInv, CapInv, NEW p \in Procs, NEW label, NEW j, Goto(p, label, j),
         {pc[p], label} \cap {"count", "prune"} = {}, UNCHANGED <<history, faults>>
  PROVE  CapInv'
<1>1. pc'[p] = label /\ \A q \in Procs \ {p} : pc'[q] = pc[q] /\ job'[q] = job[q]
  BY GotoEffect
<1>2. \A q \in Procs : pc'[q] = "prune" => 1 <= job'[q].excess
  BY <1>1 DEF CapInv
<1>3. ASSUME NEW n \in Names
      PROVE  HistoryOf(n)' = HistoryOf(n) /\ Pruning(n)' = Pruning(n)
  BY <1>1 DEF HistoryOf, Pruning
<1>4. QED
  BY <1>2, <1>3, CapKept DEF CapInv

LEMMA CapArchive ==
  ASSUME TypeInv, CapInv, NEW p \in Procs, ArchiveRow(p)
  PROVE  CapInv'
<1> DEFINE new == [op |-> job[p].op, name |-> job[p].name, row |-> job[p].row]
<1>1. pc[p] = "archive" /\ UNCHANGED faults
  BY DEF ArchiveRow
<1>2. CASE Return(p) /\ UNCHANGED history
  BY <1>1, <1>2, CapAside DEF Return
<1>3. CASE history' = history \cup {new} /\ Goto(p, "count", job[p])
  <2>1. /\ pc'[p] = "count" /\ job'[p] = job[p]
        /\ \A q \in Procs \ {p} : pc'[q] = pc[q] /\ job'[q] = job[q]
    BY <1>3, GotoEffect
  <2>2. \A q \in Procs : pc'[q] = "prune" => 1 <= job'[q].excess
    BY <2>1 DEF CapInv
  <2>3. ASSUME NEW n \in Names \ {job[p].name}
        PROVE  HistoryOf(n)' = HistoryOf(n) /\ Pruning(n)' = Pruning(n)
    BY <1>1, <1>3, <2>1, <2>3 DEF HistoryOf, Pruning
  <2>4. ASSUME NEW n \in Names, n = job[p].name
        PROVE  /\ IsFiniteSet(Pruning(n)')
               /\ faults' = 0 => Cardinality(HistoryOf(n)') <= MaxHistory + Cardinality(Pruning(n)')
    <3>1. HistoryOf(n)' = HistoryOf(n) \cup {new} /\ Pruning(n)' = Pruning(n) \cup {p} /\ p \notin Pruning(n)
      BY <1>1, <1>3, <2>1, <2>4 DEF HistoryOf, Pruning
    <3> HIDE DEF new
    <3>2. IsFiniteSet(HistoryOf(n)) /\ IsFiniteSet(Pruning(n)) /\ MaxHistory \in Nat
      BY HistoryNumbers DEF CapInv
    <3>3. /\ Cardinality(HistoryOf(n)') <= Cardinality(HistoryOf(n)) + 1
          /\ Cardinality(HistoryOf(n)) \in Nat /\ Cardinality(HistoryOf(n)') \in Nat
      <4>1. Cardinality(HistoryOf(n)) \in Nat
        BY <3>2, FS_CardinalityType
      <4>2. Cardinality(HistoryOf(n) \cup {new}) =
              IF new \in HistoryOf(n) THEN Cardinality(HistoryOf(n)) ELSE Cardinality(HistoryOf(n)) + 1
        BY <3>2, FS_AddElement
      <4>3. QED
        BY <3>1, <4>1, <4>2
    <3>4. /\ IsFiniteSet(Pruning(n)') /\ Cardinality(Pruning(n)') = Cardinality(Pruning(n)) + 1
          /\ Cardinality(Pruning(n)) \in Nat
      BY <3>1, <3>2, FS_AddElement, FS_CardinalityType
    <3>5. QED
      BY <1>1, <3>2, <3>3, <3>4 DEF CapInv
  <2>5. QED
    BY <1>1, <2>2, <2>3, <2>4, CapKept DEF CapInv
<1>4. QED
  BY <1>2, <1>3 DEF ArchiveRow

LEMMA CapCount ==
  ASSUME TypeInv, CapInv, NEW p \in Procs, CountHistory(p)
  PROVE  CapInv'
<1>0. PICK n \in Names : n = job[p].name
  BY DEF CountHistory, TypeInv
<1> DEFINE size == Cardinality(HistoryOf(n))
           j == [job[p] EXCEPT !.excess = size - MaxHistory]
<1>1. pc[p] = "count" /\ UNCHANGED <<history, faults>>
  BY DEF CountHistory
<1>2. /\ IsFiniteSet(HistoryOf(n)) /\ IsFiniteSet(Pruning(n)) /\ MaxHistory \in Nat
      /\ size \in Nat
  BY HistoryNumbers, FS_CardinalityType DEF CapInv
<1>3. j.name = n /\ j.excess = size - MaxHistory
  BY <1>0 DEF TypeInv, TypeOK, Job
<1>4. \/ size > MaxHistory /\ Goto(p, "prune", j)
      \/ ~ (size > MaxHistory) /\ Goto(p, "commit", job[p])
  BY <1>0 DEF CountHistory, Excess
<1> HIDE DEF j, size
<1>5. \A m \in Names : HistoryOf(m)' = HistoryOf(m)
  BY <1>1 DEF HistoryOf
<1>6. CASE size > MaxHistory /\ Goto(p, "prune", j)
  <2>1. /\ pc'[p] = "prune" /\ job'[p] = j
        /\ \A q \in Procs \ {p} : pc'[q] = pc[q] /\ job'[q] = job[q]
    BY <1>6, GotoEffect
  <2>2. 1 <= j.excess
    BY <1>2, <1>3, <1>6
  <2>3. \A m \in Names : Pruning(m)' = Pruning(m)
    BY <1>0, <1>1, <1>3, <2>1 DEF Pruning
  <2>4. QED
    BY <1>1, <1>5, <2>1, <2>2, <2>3, CapKept DEF CapInv
<1>7. CASE ~ (size > MaxHistory) /\ Goto(p, "commit", job[p])
  <2>1. /\ pc'[p] = "commit" /\ job'[p] = job[p]
        /\ \A q \in Procs \ {p} : pc'[q] = pc[q] /\ job'[q] = job[q]
    BY <1>7, GotoEffect
  <2>2. \A m \in Names \ {n} : Pruning(m)' = Pruning(m)
    BY <1>0, <1>1, <2>1 DEF Pruning
  <2>3. Pruning(n)' \subseteq Pruning(n)
    BY <1>0, <1>1, <2>1 DEF Pruning
  <2>4. IsFiniteSet(Pruning(n)') /\ Cardinality(Pruning(n)') \in Nat
    BY <1>2, <2>3, FS_Subset, FS_CardinalityType
  <2>5. Cardinality(HistoryOf(n)') <= MaxHistory + Cardinality(Pruning(n)')
    BY <1>2, <1>5, <1>7, <2>4 DEF size
  <2>6. QED
    BY <1>1, <1>5, <2>1, <2>2, <2>4, <2>5, CapKept DEF CapInv
<1>8. QED
  BY <1>4, <1>6, <1>7

\* A prune deletes what was in excess when the rows were counted, one row at least.
LEMMA CapPrune ==
  ASSUME TypeInv, CapInv, NEW p \in Procs, PruneHistory(p)
  PROVE  CapInv'
<1>0. PICK n \in Names : n = job[p].name
  BY DEF PruneHistory, TypeInv
<1>1. /\ pc[p] = "prune" /\ UNCHANGED faults
      /\ 1 <= job[p].excess /\ job[p].excess \in Nat
  BY DEF PruneHistory, CapInv, TypeInv, TypeOK, Job
<1>2. /\ pc'[p] = "commit" /\ job'[p] = job[p]
      /\ \A q \in Procs \ {p} : pc'[q] = pc[q] /\ job'[q] = job[q]
  BY GotoEffect DEF PruneHistory
<1>3. PICK gone \in SUBSET HistoryOf(n) :
        Pruned(n, job[p].excess, gone) /\ history' = history \ gone
  BY <1>0 DEF PruneHistory
<1>4. HistoryOf(n)' = HistoryOf(n) \ gone /\ \A m \in Names \ {n} : HistoryOf(m)' = HistoryOf(m)
  BY <1>3 DEF HistoryOf
<1>5. \A q \in Procs : pc'[q] = "prune" => 1 <= job'[q].excess
  BY <1>2 DEF CapInv
<1>6. \A m \in Names \ {n} : Pruning(m)' = Pruning(m)
  BY <1>0, <1>1, <1>2 DEF Pruning
<1>7. Pruning(n)' = Pruning(n) \ {p} /\ p \in Pruning(n)
  BY <1>0, <1>1, <1>2 DEF Pruning
<1>8. IsFiniteSet(HistoryOf(n)) /\ IsFiniteSet(Pruning(n)) /\ MaxHistory \in Nat
  BY HistoryNumbers DEF CapInv
<1>9. /\ IsFiniteSet(Pruning(n)') /\ Cardinality(Pruning(n)') = Cardinality(Pruning(n)) - 1
      /\ Cardinality(Pruning(n)) \in Nat /\ Cardinality(Pruning(n)') \in Nat
  <2>1. IsFiniteSet(Pruning(n)') /\ Cardinality(Pruning(n)') = Cardinality(Pruning(n)) - 1
    BY <1>7, <1>8, FS_RemoveElement
  <2>2. QED
    BY <1>8, <2>1, FS_CardinalityType
<1>10. /\ Cardinality(HistoryOf(n)') = Cardinality(HistoryOf(n)) - Cardinality(gone)
       /\ Cardinality(HistoryOf(n)) \in Nat
  <2>1. IsFiniteSet(gone) /\ IsFiniteSet(HistoryOf(n) \ gone)
    BY <1>8, FS_Subset
  <2>2. /\ Cardinality(gone) \in Nat /\ Cardinality(HistoryOf(n) \ gone) \in Nat
        /\ Cardinality(HistoryOf(n)) \in Nat
    BY <1>8, <2>1, FS_CardinalityType
  <2>3. (HistoryOf(n) \ gone) \cup gone = HistoryOf(n) /\ (HistoryOf(n) \ gone) \cap gone = {}
    OBVIOUS
  <2>4. Cardinality((HistoryOf(n) \ gone) \cup gone) =
          Cardinality(HistoryOf(n) \ gone) + Cardinality(gone) - Cardinality((HistoryOf(n) \ gone) \cap gone)
    BY <2>1, FS_Union
  <2>5. Cardinality(HistoryOf(n)) = Cardinality(HistoryOf(n) \ gone) + Cardinality(gone) - 0
    BY <2>3, <2>4, FS_EmptySet
  <2>6. QED
    BY <1>4, <2>2, <2>5
<1>11. faults' = 0 => Cardinality(HistoryOf(n)') <= MaxHistory + Cardinality(Pruning(n)')
  <2>1. Cardinality(gone) =
          IF job[p].excess <= Cardinality(HistoryOf(n)) THEN job[p].excess ELSE Cardinality(HistoryOf(n))
    BY <1>3 DEF Pruned
  <2>2. faults' = 0 => Cardinality(HistoryOf(n)) <= MaxHistory + Cardinality(Pruning(n))
    BY <1>1 DEF CapInv
  <2>3. QED
    BY <1>1, <1>8, <1>9, <1>10, <2>1, <2>2
<1>12. QED
  BY <1>1, <1>4, <1>5, <1>6, <1>9, <1>11, CapKept DEF CapInv

LEMMA CapStep ==
  ASSUME TypeInv, CapInv, [Next]_vars
  PROVE  CapInv'
<1> USE ServerIsAProcess
<1>1. ASSUME NEW p \in Procs, NEW n \in Names, NEW v \in Values, Create(p, n, v)
      PROVE  CapInv'
  BY <1>1, CapAside DEF Create, Begin
<1>2. ASSUME NEW p \in Procs, NEW n \in Names, NEW new,
             \/ StartUpdate(p, n, new) \/ StartEmptyUpdate(p, n)
             \/ StartUiSave(n, new) \/ Get(p, n)
      PROVE  CapInv'
  <2>1. PICK q, label, j :
          /\ q \in Procs /\ label \in {"commit", "archive", "load", "hit", "read", "finish"}
          /\ Goto(q, label, j) /\ pc[q] = "idle" /\ UNCHANGED <<history, faults>>
    BY <1>2 DEF StartUpdate, StartEmptyUpdate, StartUiSave, Get, Begin, AfterLoad
  <2>2. QED
    BY <2>1, CapAside
<1>3. ASSUME NEW p \in Procs,
             \/ Load(p) \/ Commit(p) \/ FinishUpdate(p) \/ FinishCreate(p)
             \/ FinishHit(p) \/ FinishRead(p)
      PROVE  CapInv'
  <2>1. PICK label, j :
          /\ label \in {"idle", "commit", "archive", "finish"}
          /\ Goto(p, label, j) /\ pc[p] \notin {"count", "prune"}
          /\ UNCHANGED <<history, faults>>
    BY <1>3 DEF Load, Commit, FinishUpdate, FinishCreate, FinishHit, FinishRead, Return, AfterLoad
  <2>2. QED
    BY <2>1, CapAside
<1>4. ASSUME NEW p \in Procs, Crash(p) \/ StatementFails(p)
      PROVE  CapInv'
  <2>1. /\ Goto(p, "idle", NoJob) /\ faults' = faults + 1 /\ faults \in Nat /\ UNCHANGED history
    BY <1>4 DEF Crash, StatementFails, Interrupt, Return, TypeInv, TypeOK
  <2>2. /\ pc'[p] = "idle" /\ faults' # 0
        /\ \A q \in Procs \ {p} : pc'[q] = pc[q] /\ job'[q] = job[q]
    BY <2>1, GotoEffect
  <2>3. \A q \in Procs : pc'[q] = "prune" => 1 <= job'[q].excess
    BY <2>2 DEF CapInv
  <2>4. \A n \in Names : HistoryOf(n)' = HistoryOf(n) /\ Pruning(n)' \subseteq Pruning(n)
    BY <2>1, <2>2 DEF HistoryOf, Pruning
  <2>5. QED
    BY <2>2, <2>3, <2>4, CapKept DEF CapInv
<1>5. ASSUME \/ \E p \in Procs, n \in Names : Delete(p, n)
             \/ \E n \in Names : UiOpen(n) \/ Expire(n)
             \/ RefreshCache
             \/ UNCHANGED vars
      PROVE  CapInv'
  <2>1. UNCHANGED <<pc, job, faults>> /\ history' \subseteq history
    BY <1>5 DEF Delete, HistoryWithout, UiOpen, Expire, RefreshCache, vars
  <2>2. \A n \in Names : HistoryOf(n)' \subseteq HistoryOf(n) /\ Pruning(n)' = Pruning(n)
    BY <2>1 DEF HistoryOf, Pruning
  <2>3. QED
    BY <2>1, <2>2, CapKept DEF CapInv
<1>6. QED
  BY <1>1, <1>2, <1>3, <1>4, <1>5, CapArchive, CapCount, CapPrune DEF Next, UpdateStep

\* The cap holds for any number of processes that update one secret at the same time,
\* though each prunes by a count of its own that the others may have outdated.
THEOREM StoreHistoryCapped == Spec => []HistoryCapped
<1>1. Init => CapInv
  <2>1. ASSUME Init, NEW n \in Names PROVE HistoryOf(n) = {} /\ Pruning(n) = {}
    BY <2>1 DEF Init, HistoryOf, Pruning
  <2>2. ASSUME Init PROVE \A p \in Procs : pc[p] # "prune"
    BY <2>2 DEF Init
  <2>3. QED
    BY <2>1, <2>2, FS_EmptySet, BoundAssumption DEF CapInv
<1>2. TypeInv /\ CapInv /\ [Next]_vars => CapInv'
  BY CapStep
<1>3. TypeInv /\ CapInv => HistoryCapped
  <2> SUFFICES ASSUME TypeInv, CapInv, faults = 0, \A p \in Procs : pc[p] \notin Updating,
                      NEW n \in Names
               PROVE  Cardinality(HistoryOf(n)) <= MaxHistory
    BY DEF HistoryCapped
  <2>1. Pruning(n) = {}
    BY DEF Pruning, Updating
  <2>2. Cardinality(Pruning(n)) = 0 /\ Cardinality(HistoryOf(n)) <= MaxHistory + Cardinality(Pruning(n))
    BY <2>1, FS_EmptySet DEF CapInv
  <2>3. Cardinality(HistoryOf(n)) \in Nat /\ MaxHistory \in Nat
    BY HistoryNumbers, FS_CardinalityType
  <2>4. QED
    BY <2>2, <2>3
<1>4. QED
  BY <1>1, <1>2, <1>3, TypeInvariance, PTL DEF Spec

-----------------------------------------------------------------------------
(***************************************************************************)
(* The audit trail, whatever processes write: each call that has changed a *)
(* row, or has nothing to change, is counted among those that are about to *)
(* write their entry, until the entry is there or the call is cut short.   *)
(***************************************************************************)

Ending(n) == {p \in Procs : job[p].name = n /\ pc[p] \in {"created", "finish"}}

\* What entries are due for: changes of the row, and updates that had none to make.
Due(n) == commits[n] + vain[n]

Accounted(n) ==
  /\ IsFiniteSet(Ending(n))
  /\ audit[n] + Cardinality(Ending(n)) <= Due(n)
  /\ Due(n) <= audit[n] + Cardinality(Ending(n)) + faults

LogInv == \A n \in Names : Accounted(n)

LEMMA LogNumbers ==
  ASSUME TypeInv, LogInv, NEW n \in Names
  PROVE  /\ IsFiniteSet(Ending(n)) /\ Cardinality(Ending(n)) \in Nat
         /\ commits[n] \in Nat /\ vain[n] \in Nat /\ Due(n) \in Nat
         /\ audit[n] \in Nat /\ faults \in Nat
         /\ audit[n] + Cardinality(Ending(n)) <= Due(n)
         /\ Due(n) <= audit[n] + Cardinality(Ending(n)) + faults
<1>1. Accounted(n)
  BY DEF LogInv
<1>2. IsFiniteSet(Ending(n)) /\ Cardinality(Ending(n)) \in Nat
  BY <1>1, FS_CardinalityType DEF Accounted
<1>3. commits[n] \in Nat /\ vain[n] \in Nat /\ audit[n] \in Nat /\ faults \in Nat
  BY DEF TypeInv, TypeOK
<1>4. QED
  BY <1>1, <1>2, <1>3 DEF Accounted, Due

\* A call that comes to its end, having changed the row of its name or found nothing
\* to change.
LEMMA LogEnters ==
  ASSUME TypeInv, LogInv, NEW p \in Procs, NEW label \in {"created", "finish"}, NEW j,
         Goto(p, label, j), pc[p] \notin {"created", "finish"}, j.name \in Names,
         \/ commits' = [commits EXCEPT ![j.name] = @ + 1] /\ UNCHANGED vain
         \/ vain' = [vain EXCEPT ![j.name] = @ + 1] /\ UNCHANGED commits,
         UNCHANGED <<audit, faults>>
  PROVE  LogInv'
<1>1. /\ pc'[p] = label /\ job'[p] = j
      /\ \A q \in Procs \ {p} : pc'[q] = pc[q] /\ job'[q] = job[q]
  BY GotoEffect
<1>2. commits \in [Names -> Nat] /\ vain \in [Names -> Nat]
  BY DEF TypeInv, TypeOK
<1>3. ASSUME NEW n \in Names, n # j.name
      PROVE  Accounted(n)'
  <2>1. Ending(n)' = Ending(n)
    BY <1>1, <1>3 DEF Ending
  <2>2. Due(n)' = Due(n)
    BY <1>2, <1>3 DEF Due
  <2>3. QED
    BY <2>1, <2>2, LogNumbers DEF Accounted
<1>4. ASSUME NEW n \in Names, n = j.name
      PROVE  Accounted(n)'
  <2>1. Ending(n)' = Ending(n) \cup {p} /\ p \notin Ending(n)
    BY <1>1, <1>4 DEF Ending
  <2>2. IsFiniteSet(Ending(n)') /\ Cardinality(Ending(n)') = Cardinality(Ending(n)) + 1
    BY <2>1, LogNumbers, FS_AddElement
  <2>3. Due(n)' = Due(n) + 1
    BY <1>2, <1>4 DEF Due
  <2>4. QED
    BY <2>2, <2>3, LogNumbers DEF Accounted
<1>5. QED
  BY <1>3, <1>4 DEF LogInv

\* A call at its end that writes its entry, or is cut short.
LEMMA LogLeaves ==
  ASSUME TypeInv, LogInv, NEW p \in Procs, Goto(p, "idle", NoJob), pc[p] \in {"created", "finish"},
         UNCHANGED <<commits, vain>>,
         \/ audit' = [audit EXCEPT ![job[p].name] = @ + 1] /\ UNCHANGED faults
         \/ UNCHANGED audit /\ faults' = faults + 1
  PROVE  LogInv'
<1>1. /\ pc'[p] = "idle" /\ \A q \in Procs \ {p} : pc'[q] = pc[q] /\ job'[q] = job[q]
  BY GotoEffect
<1>2. audit \in [Names -> Nat] /\ faults \in Nat
  BY DEF TypeInv, TypeOK
<1>3. ASSUME NEW n \in Names
      PROVE  Due(n)' = Due(n)
  BY DEF Due
<1>4. ASSUME NEW n \in Names, n # job[p].name
      PROVE  Accounted(n)'
  <2>1. Ending(n)' = Ending(n)
    BY <1>1, <1>4 DEF Ending
  <2>2. audit'[n] = audit[n] /\ faults' \in {faults, faults + 1}
    BY <1>2, <1>4
  <2>3. QED
    BY <1>3, <2>1, <2>2, LogNumbers DEF Accounted
<1>5. ASSUME NEW n \in Names, n = job[p].name
      PROVE  Accounted(n)'
  <2>1. Ending(n)' = Ending(n) \ {p} /\ p \in Ending(n)
    BY <1>1, <1>5 DEF Ending
  <2>2. IsFiniteSet(Ending(n)') /\ Cardinality(Ending(n)') = Cardinality(Ending(n)) - 1
    BY <2>1, LogNumbers, FS_RemoveElement
  <2>3. \/ audit'[n] = audit[n] + 1 /\ faults' = faults
        \/ audit'[n] = audit[n] /\ faults' = faults + 1
    BY <1>2, <1>5
  <2>4. QED
    BY <1>3, <2>2, <2>3, LogNumbers DEF Accounted
<1>6. QED
  BY <1>4, <1>5 DEF LogInv

\* A call that neither is at its end nor comes to it.
LEMMA LogAside ==
  ASSUME TypeInv, LogInv, NEW p \in Procs, NEW label, NEW j, Goto(p, label, j),
         {pc[p], label} \cap {"created", "finish"} = {}, UNCHANGED <<commits, vain, audit>>,
         faults' \in {faults, faults + 1}
  PROVE  LogInv'
<1>1. pc'[p] = label /\ \A q \in Procs \ {p} : pc'[q] = pc[q] /\ job'[q] = job[q]
  BY GotoEffect
<1>2. ASSUME NEW n \in Names
      PROVE  Accounted(n)'
  <2>1. Ending(n)' = Ending(n) /\ Due(n)' = Due(n)
    BY <1>1 DEF Ending, Due
  <2>2. QED
    BY <2>1, LogNumbers DEF Accounted
<1>3. QED
  BY <1>2 DEF LogInv

LEMMA LogStep ==
  ASSUME TypeInv, LogInv, [Next]_vars
  PROVE  LogInv'
<1> USE ServerIsAProcess
<1>1. ASSUME NEW p \in Procs, NEW n \in Names, NEW v \in Values, Create(p, n, v)
      PROVE  LogInv'
  <2> DEFINE k == [[NoJob EXCEPT !.name = n] EXCEPT !.op = ops + 1]
  <2>3. Goto(p, "created", k) /\ k.name = n
    BY <1>1 DEF Create, Begin, NoJob
  <2> HIDE DEF k
  <2>1. PICK j : Goto(p, "created", j) /\ j.name = n
    BY <2>3
  <2>2. pc[p] = "idle" /\ commits' = [commits EXCEPT ![n] = @ + 1] /\ UNCHANGED <<audit, faults, vain>>
    BY <1>1 DEF Create, Begin
  <2>4. QED
    BY <2>1, <2>2, LogEnters
<1>2. ASSUME NEW p \in Procs, NEW n \in Names, NEW new,
             StartUpdate(p, n, new) \/ StartUiSave(n, new) \/ Get(p, n)
      PROVE  LogInv'
  <2>1. PICK q, label, j :
          /\ q \in Procs /\ label \in {"commit", "archive", "load", "hit", "read"}
          /\ Goto(q, label, j) /\ pc[q] = "idle" /\ UNCHANGED <<commits, vain, audit, faults>>
    BY <1>2 DEF StartUpdate, StartUiSave, Get, Begin, AfterLoad
  <2>2. QED
    BY <2>1, LogAside
<1>3. ASSUME NEW p \in Procs, NEW n \in Names, StartEmptyUpdate(p, n)
      PROVE  LogInv'
  <2> DEFINE k == [[NoJob EXCEPT !.name = n] EXCEPT !.op = ops + 1]
  <2>3. Goto(p, "finish", k) /\ k.name = n
    BY <1>3 DEF StartEmptyUpdate, Begin, NoJob
  <2> HIDE DEF k
  <2>1. PICK j : Goto(p, "finish", j) /\ j.name = n
    BY <2>3
  <2>2. pc[p] = "idle" /\ vain' = [vain EXCEPT ![n] = @ + 1] /\ UNCHANGED <<audit, faults, commits>>
    BY <1>3 DEF StartEmptyUpdate, Begin
  <2>4. QED
    BY <2>1, <2>2, LogEnters
<1>4. ASSUME NEW p \in Procs,
             \/ Load(p) \/ ArchiveRow(p) \/ CountHistory(p) \/ PruneHistory(p)
             \/ FinishHit(p) \/ FinishRead(p)
      PROVE  LogInv'
  <2>1. PICK label, j :
          /\ label \in {"idle", "archive", "count", "prune", "commit"} /\ Goto(p, label, j)
          /\ pc[p] \in {"load", "archive", "count", "prune", "hit", "read"}
          /\ UNCHANGED <<commits, vain, audit, faults>>
    BY <1>4 DEF Load, ArchiveRow, CountHistory, PruneHistory, FinishHit, FinishRead, Return, AfterLoad
  <2>2. QED
    BY <2>1, LogAside
<1>5. ASSUME NEW p \in Procs, Commit(p)
      PROVE  LogInv'
  <2>1. /\ Goto(p, "finish", job[p]) /\ pc[p] = "commit" /\ UNCHANGED <<audit, faults>>
        /\ \/ commits' = [commits EXCEPT ![job[p].name] = @ + 1] /\ UNCHANGED vain
           \/ vain' = [vain EXCEPT ![job[p].name] = @ + 1] /\ UNCHANGED commits
    BY <1>5 DEF Commit
  <2>2. job[p].name \in Names
    BY <2>1 DEF TypeInv
  <2>3. QED
    BY <2>1, <2>2, LogEnters
<1>6. ASSUME NEW p \in Procs, FinishCreate(p) \/ FinishUpdate(p)
      PROVE  LogInv'
  BY <1>6, LogLeaves DEF FinishCreate, FinishUpdate, Return
<1>7. ASSUME NEW p \in Procs, Crash(p) \/ StatementFails(p)
      PROVE  LogInv'
  <2>1. Goto(p, "idle", NoJob) /\ faults' = faults + 1 /\ UNCHANGED <<commits, vain, audit>>
    BY <1>7 DEF Crash, StatementFails, Interrupt, Return
  <2>2. CASE pc[p] \in {"created", "finish"}
    BY <2>1, <2>2, LogLeaves
  <2>3. CASE pc[p] \notin {"created", "finish"}
    BY <2>1, <2>3, LogAside
  <2>4. QED
    BY <2>2, <2>3
<1>8. ASSUME \/ \E p \in Procs, n \in Names : Delete(p, n)
             \/ \E n \in Names : UiOpen(n) \/ Expire(n)
             \/ RefreshCache
             \/ UNCHANGED vars
      PROVE  LogInv'
  <2>1. UNCHANGED <<pc, job, faults, commits, vain, audit>>
    BY <1>8 DEF Delete, UiOpen, Expire, RefreshCache, vars
  <2>2. QED
    BY <2>1 DEF LogInv, Accounted, Due, Ending
<1>9. QED
  BY <1>1, <1>2, <1>3, <1>4, <1>5, <1>6, <1>7, <1>8 DEF Next, UpdateStep

\* For any number of processes that create, update and delete beside each other, the
\* entries 'create' and 'update' of a secret are those of its changes and of the updates
\* that had nothing to change, but for the calls that have not ended yet and those that
\* were cut short.
THEOREM StoreAuditAccounts == Spec => []AuditAccounts
<1>1. Init => LogInv
  <2>1. ASSUME Init, NEW n \in Names
        PROVE  Ending(n) = {} /\ commits[n] = 0 /\ vain[n] = 0 /\ audit[n] = 0 /\ faults = 0
    BY <2>1 DEF Init, Ending
  <2>2. ASSUME Init, NEW n \in Names PROVE Accounted(n)
    BY <2>1, <2>2, FS_EmptySet DEF Accounted, Due
  <2>3. QED
    BY <2>2 DEF LogInv
<1>2. TypeInv /\ LogInv /\ [Next]_vars => LogInv'
  BY LogStep
<1>3. LogInv => AuditAccounts
  BY DEF LogInv, Accounted, Due, Ending, AuditAccounts, Unlogged
<1>4. QED
  BY <1>1, <1>2, <1>3, TypeInvariance, PTL DEF Spec
=============================================================================
