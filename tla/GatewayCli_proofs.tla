-------------------------- MODULE GatewayCli_proofs --------------------------
(***************************************************************************)
(* Proofs about GatewayCli, for any names and any number of commands: the  *)
(* type invariant; that every stored value is encrypted under the salt     *)
(* stored beside it, or under one that a race of two first starts or a     *)
(* restore beside running processes lost; and that no value is blanked by  *)
(* accident.                                                               *)
(***************************************************************************)
EXTENDS GatewayCli, TLAPS

USE CliAssumption DEF CliAssumption

Phases == {"idle", "saltless", "salted", "deriving", "ready", "found", "missing"}

Ops == {"none", "serve", "init", "set", "grant", "delete", "read", "import"}

Process == [at : Phases, op : Ops, remote : BOOLEAN, key : 0 .. MaxSalts,
            name : Names, asked : Asked]

TypeOK ==
  /\ file \in Content /\ main \in Content
  /\ backup \in Content \cup {NoFile}
  /\ proc \in [Procs -> Process]
  /\ salts \in 0 .. MaxSalts
  /\ lost \subseteq 0 .. MaxSalts

LEMMA IdleTyped ==
  /\ Idle \in Process
  /\ Idle.at = "idle" /\ Idle.key = 0
  /\ Absent \in Rows /\ Empty \in Content
<1>1. (CHOOSE n \in Names : TRUE) \in Names
  OBVIOUS
<1>2. NoValue \in Asked /\ Absent \in Rows
  BY DEF NoValue, Asked, Values, Absent, Rows
<1>3. Idle \in Process /\ Idle.at = "idle" /\ Idle.key = 0
  BY <1>1, <1>2 DEF Idle, Process, Phases, Ops
<1>4. QED
  BY <1>2, <1>3 DEF Empty, Content

\* What a call writes is a row, under the key of its process or of the server's.
LEMMA AfterTyped ==
  ASSUME TypeOK, NEW p \in Procs
  PROVE  /\ After(p) \in Rows
         /\ After(p).key \in {0, file.rows[proc[p].name].key, WriterKey(p)}
<1>1. proc[p] \in Process /\ proc[p].name \in Names /\ Server \in Procs /\ proc[Server] \in Process
  BY DEF TypeOK, Process, Procs
<1>2. WriterKey(p) \in 0 .. MaxSalts
  BY <1>1 DEF WriterKey, Process
<1>3. file.rows[proc[p].name] \in Rows
  BY <1>1 DEF TypeOK, Content
<1>4. Row(WriterKey(p), proc[p].asked) \in Rows
  BY <1>1, <1>2 DEF Row, Rows, Process, Asked
<1>5. Absent \in Rows /\ Absent.key = 0
  BY IdleTyped DEF Absent
<1>6. Row(WriterKey(p), proc[p].asked).key = WriterKey(p)
  BY DEF Row
<1>7. After(p) \in {file.rows[proc[p].name], Absent, Row(WriterKey(p), proc[p].asked)}
  BY DEF After
<1>8. QED
  BY <1>3, <1>4, <1>5, <1>6, <1>7

\* A restore leaves the backup, or parts of it beside parts of what was there.
LEMMA RestoreTyped ==
  ASSUME TypeOK, Restore
  PROVE  /\ file' \in Content
         /\ file'.salt \in {file.salt, backup.salt}
         /\ \A n \in Names : file'.rows[n] \in {file.rows[n], backup.rows[n]}
         /\ Quiet => file' = backup
<1>1. file \in Content /\ backup \in Content
  BY DEF TypeOK, Restore
<1>2. CASE Quiet
  BY <1>1, <1>2 DEF Restore, Restored
<1>3. CASE ~Quiet
  <2>1. file' \in Mixed(file, backup)
    BY <1>3 DEF Restore, Restored
  <2>2. /\ file'.salt \in {file.salt, backup.salt}
        /\ file'.admin \in {file.admin, backup.admin}
        /\ file'.rows \in [Names -> {file.rows[n] : n \in Names} \cup {backup.rows[n] : n \in Names}]
        /\ \A n \in Names : file'.rows[n] \in {file.rows[n], backup.rows[n]}
        /\ file' = [salt |-> file'.salt, admin |-> file'.admin, rows |-> file'.rows]
    BY <2>1 DEF Mixed
  <2>3. \A n \in Names : file.rows[n] \in Rows /\ backup.rows[n] \in Rows
    BY <1>1 DEF Content
  <2>4. file'.rows \in [Names -> Rows]
    BY <2>2, <2>3
  <2>5. file'.salt \in 0 .. MaxSalts /\ file'.admin \in BOOLEAN
    BY <1>1, <2>2 DEF Content
  <2>6. file' \in Content
    BY <2>2, <2>4, <2>5 DEF Content
  <2>7. QED
    BY <1>3, <2>2, <2>6
<1>4. QED
  BY <1>2, <1>3

-----------------------------------------------------------------------------

LEMMA TypeInit == Init => TypeOK
<1> SUFFICES ASSUME Init PROVE TypeOK
  OBVIOUS
<1>1. proc \in [Procs -> Process]
  BY IdleTyped DEF Init
<1>2. salts \in 0 .. MaxSalts
  <2>1. salts = 0
    BY DEF Init
  <2>2. QED
    BY <2>1
<1>0. lost \subseteq 0 .. MaxSalts
  BY DEF Init
<1>3. file \in Content /\ main \in Content /\ backup \in Content \cup {NoFile}
  BY IdleTyped DEF Init
<1>4. QED
  BY <1>0, <1>1, <1>2, <1>3 DEF TypeOK

LEMMA TypeStep == TypeOK /\ [Next]_vars => TypeOK'
<1> SUFFICES ASSUME TypeOK, [Next]_vars PROVE TypeOK'
  OBVIOUS
<1> USE IdleTyped
<1>0. Server \in Procs /\ Commands \subseteq Procs
  BY DEF Procs
<1>1. CASE StartServer
  BY <1>0, <1>1 DEF StartServer, TypeOK, Process, Phases, Ops, Content
<1>2. ASSUME NEW p \in Commands, StartInit(p) PROVE TypeOK'
  BY <1>0, <1>2 DEF StartInit, TypeOK, Process, Phases, Ops
<1>3. ASSUME NEW p \in Commands, CreateAdmin(p) PROVE TypeOK'
  BY <1>0, <1>3 DEF CreateAdmin, Exit, TypeOK, Content
<1>4. ASSUME NEW p \in Commands, StartCommand(p) PROVE TypeOK'
  <2>1. PICK op \in {"set", "grant", "delete", "read", "import"}, remote \in BOOLEAN :
          proc' = [proc EXCEPT ![p] =
            [Idle EXCEPT !.at = IF remote THEN "ready" ELSE "deriving", !.op = op,
                         !.remote = remote, !.key = IF remote THEN 0 ELSE file.salt]]
    BY <1>4 DEF StartCommand
  <2>2. [Idle EXCEPT !.at = IF remote THEN "ready" ELSE "deriving", !.op = op,
                     !.remote = remote, !.key = IF remote THEN 0 ELSE file.salt] \in Process
    BY DEF TypeOK, Content, Process, Phases, Ops
  <2>3. proc' \in [Procs -> Process]
    BY <1>0, <2>1, <2>2 DEF TypeOK
  <2>4. QED
    BY <1>4, <2>3 DEF StartCommand, TypeOK
<1>5. ASSUME NEW p \in Commands, Ends(p) PROVE TypeOK'
  BY <1>0, <1>5 DEF Ends, Exit, TypeOK
<1>6. ASSUME NEW p \in Commands, Finish(p) PROVE TypeOK'
  <2>1. proc' \in [Procs -> Process]
    BY <1>0, <1>6 DEF Finish, Exit, Goto, TypeOK, Process, Phases
  <2>2. file' \in Content
    BY <1>0, <1>6, AfterTyped DEF Finish, TypeOK, Content
  <2>3. QED
    BY <1>6, <2>1, <2>2 DEF Finish, TypeOK
<1>7. ASSUME NEW p \in Commands, NEW n \in Names, NEW a \in Asked, Look(p, n, a) PROVE TypeOK'
  BY <1>0, <1>7 DEF Look, TypeOK, Process, Phases
<1>8. ASSUME NEW p \in Procs, StoreSalt(p) PROVE TypeOK'
  <2>1. salts + 1 \in 0 .. MaxSalts
    BY <1>8 DEF StoreSalt, TypeOK
  <2>2. file' \in Content
    <3>1. file' = [file EXCEPT !.salt = salts + 1]
      BY <1>8 DEF StoreSalt
    <3>2. QED
      BY <2>1, <3>1 DEF TypeOK, Content
  <2>3. proc' \in [Procs -> Process]
    <3>1. PICK at \in Phases : proc' = [proc EXCEPT ![p].at = at, ![p].key = salts + 1]
      BY <1>8 DEF StoreSalt, Phases
    <3>2. QED
      BY <2>1, <3>1 DEF TypeOK, Process
  <2>4. lost' \subseteq 0 .. MaxSalts
    BY <1>8, <2>1 DEF StoreSalt, TypeOK
  <2>5. QED
    BY <1>8, <2>1, <2>2, <2>3, <2>4 DEF StoreSalt, TypeOK
<1>9. ASSUME NEW p \in Procs, Derived(p) PROVE TypeOK'
  BY <1>9 DEF Derived, Goto, TypeOK, Process, Phases
<1>10. ASSUME NEW p \in Procs, Stop(p) PROVE TypeOK'
  BY <1>10 DEF Stop, Exit, TypeOK
<1>11. ASSUME NEW n \in Names, Request(n) PROVE TypeOK'
  <2>1. PICK a \in Asked : \E row \in {Absent, Row(proc[Server].key, a)} : file' = [file EXCEPT !.rows[n] = row]
    BY <1>11 DEF Request
  <2>2. Row(proc[Server].key, a) \in Rows
    BY <1>0 DEF Row, Rows, Asked, TypeOK, Process
  <2>3. file' \in Content
    BY <2>1, <2>2 DEF TypeOK, Content
  <2>4. QED
    BY <1>11, <2>3 DEF Request, TypeOK
<1>12. CASE Checkpoint
  BY <1>12 DEF Checkpoint, TypeOK
<1>13. CASE CopyOut
  BY <1>13 DEF CopyOut, TypeOK
<1>14. CASE Restore
  <2>1. file' \in Content /\ main' \in Content
    BY <1>14, RestoreTyped DEF Restore, TypeOK
  <2>2. lost' \subseteq 0 .. MaxSalts
    BY <1>14 DEF Restore, TypeOK, Content
  <2>3. QED
    BY <1>14, <2>1, <2>2 DEF Restore, TypeOK
<1>15. CASE UNCHANGED vars
  BY <1>15 DEF vars, TypeOK
<1>16. QED
  BY <1>1, <1>2, <1>3, <1>4, <1>5, <1>6, <1>7, <1>8, <1>9, <1>10, <1>11, <1>12,
     <1>13, <1>14, <1>15 DEF Next

\* The states the processes and the files are in, for any names and commands.
THEOREM CliTypeCorrect == Spec => []TypeOK
  BY TypeInit, TypeStep, PTL DEF Spec

-----------------------------------------------------------------------------
(* A file whose values belong to its salt, but for those of a lost one. *)
Sealed(c) == \A n \in Names : c.rows[n].key \in {0, c.salt} \cup lost

(* Every key in memory is that of the salt in the file, and a process that *)
(* saw none sees none yet, unless the salt is one that is lost.            *)
KeyInv ==
  /\ Sealed(file) /\ Sealed(main) /\ (backup # NoFile => Sealed(backup))
  /\ \A p \in Procs : proc[p].key \in {0, file.salt} \cup lost
  /\ \A p \in Procs : proc[p].at = "saltless" => file.salt \in {0} \cup lost

LEMMA KeyStart == Init => KeyInv
  BY IdleTyped DEF Init, KeyInv, Sealed, Empty, Absent

\* What is in the file under a salt stays readable, or was under a lost one.
LEMMA KeyStep == TypeOK /\ KeyInv /\ [Next]_vars => KeyInv'
<1> SUFFICES ASSUME TypeOK, KeyInv, [Next]_vars PROVE KeyInv'
  OBVIOUS
<1> USE IdleTyped
<1>0. Server \in Procs /\ Commands \subseteq Procs
  BY DEF Procs
<1>b. /\ Sealed(file) /\ Sealed(main) /\ (backup # NoFile => Sealed(backup))
      /\ \A p \in Procs : proc[p].key \in {0, file.salt} \cup lost
      /\ \A p \in Procs : proc[p].at = "saltless" => file.salt \in {0} \cup lost
  BY DEF KeyInv
<1>1. CASE StartServer
  BY <1>0, <1>b, <1>1 DEF StartServer, TypeOK, Process, KeyInv, Sealed
<1>2. ASSUME NEW p \in Commands, StartInit(p) PROVE KeyInv'
  BY <1>0, <1>b, <1>2 DEF StartInit, FindsSalt, TypeOK, Process, KeyInv, Sealed
<1>3. ASSUME NEW p \in Commands, CreateAdmin(p) PROVE KeyInv'
  BY <1>0, <1>b, <1>3 DEF CreateAdmin, Exit, TypeOK, Content, Process, KeyInv, Sealed
<1>4. ASSUME NEW p \in Commands, StartCommand(p) PROVE KeyInv'
  BY <1>0, <1>b, <1>4 DEF StartCommand, TypeOK, Process, KeyInv, Sealed
<1>5. ASSUME NEW p \in Commands, Ends(p) PROVE KeyInv'
  BY <1>0, <1>b, <1>5 DEF Ends, Exit, TypeOK, Process, KeyInv, Sealed
<1>6. ASSUME NEW p \in Commands, Finish(p) PROVE KeyInv'
  <2>1. WriterKey(p) \in {0, file.salt} \cup lost
    BY <1>0, <1>b DEF WriterKey
  <2>2. After(p).key \in {0, file.salt} \cup lost
    BY <1>0, <1>b, <2>1, AfterTyped DEF Sealed, TypeOK, Process
  <2>3. (\A n \in Names : file'.rows[n].key \in {0, file.salt} \cup lost) /\ file'.salt = file.salt
    BY <1>0, <1>b, <1>6, <2>2 DEF Finish, Sealed, TypeOK, Content
  <2>4. \A q \in Procs : /\ proc'[q].key \in {0, file.salt} \cup lost
                         /\ proc'[q].at = "saltless" => proc[q].at = "saltless"
    BY <1>0, <1>b, <1>6 DEF Finish, Exit, Goto, TypeOK, Process
  <2>5. QED
    BY <1>b, <1>6, <2>3, <2>4 DEF Finish, KeyInv, Sealed
<1>7. ASSUME NEW p \in Commands, NEW n \in Names, NEW a \in Asked, Look(p, n, a) PROVE KeyInv'
  BY <1>0, <1>b, <1>7 DEF Look, TypeOK, Process, KeyInv, Sealed
<1>8. ASSUME NEW p \in Procs, StoreSalt(p) PROVE KeyInv'
  <2>1. file.salt \in {0} \cup lost /\ lost \subseteq lost'
    BY <1>b, <1>8 DEF StoreSalt
  <2>2. file'.salt = salts + 1 /\ file'.rows = file.rows
    BY <1>8 DEF StoreSalt, TypeOK, Content
  <2>3. \A n \in Names : file'.rows[n].key \in {0} \cup lost'
    BY <1>b, <2>1, <2>2 DEF Sealed
  <2>4. \A q \in Procs : proc'[q].key \in {0, salts + 1} \cup lost'
    <3>1. \A q \in Procs : proc[q].key \in {0} \cup lost'
      BY <1>b, <2>1
    <3>2. proc'[p].key = salts + 1 /\ \A q \in Procs \ {p} : proc'[q] = proc[q]
      BY <1>8 DEF StoreSalt, TypeOK, Process
    <3>3. QED
      BY <3>1, <3>2
  <2>5. ASSUME NEW q \in Procs, proc'[q].at = "saltless" PROVE salts + 1 \in lost'
    <3>1. q # p /\ proc[q].at = "saltless"
      BY <1>8, <2>5 DEF StoreSalt, TypeOK, Process
    <3>2. QED
      BY <1>8, <3>1 DEF StoreSalt, Contested
  <2>6. UNCHANGED <<main, backup>>
    BY <1>8 DEF StoreSalt
  <2>7. QED
    BY <1>b, <2>1, <2>2, <2>3, <2>4, <2>5, <2>6 DEF KeyInv, Sealed
<1>9. ASSUME NEW p \in Procs, Derived(p) PROVE KeyInv'
  BY <1>b, <1>9 DEF Derived, Goto, TypeOK, Process, KeyInv, Sealed
<1>10. ASSUME NEW p \in Procs, Stop(p) PROVE KeyInv'
  BY <1>b, <1>10 DEF Stop, Exit, TypeOK, Process, KeyInv, Sealed
<1>11. ASSUME NEW n \in Names, Request(n) PROVE KeyInv'
  <2>1. PICK a \in Asked : \E row \in {Absent, Row(proc[Server].key, a)} :
          file' = [file EXCEPT !.rows[n] = row]
    BY <1>11 DEF Request
  <2>2. PICK row \in {Absent, Row(proc[Server].key, a)} : file' = [file EXCEPT !.rows[n] = row]
    BY <2>1
  <2>3. row.key \in {0, file.salt} \cup lost
    BY <1>0, <1>b DEF Absent, Row
  <2>4. (\A m \in Names : file'.rows[m].key \in {0, file.salt} \cup lost) /\ file'.salt = file.salt
    BY <1>b, <2>2, <2>3 DEF Sealed, TypeOK, Content
  <2>5. QED
    BY <1>b, <1>11, <2>4 DEF Request, KeyInv, Sealed
<1>12. CASE Checkpoint
  BY <1>b, <1>12 DEF Checkpoint, KeyInv, Sealed
<1>13. CASE CopyOut
  BY <1>b, <1>13 DEF CopyOut, KeyInv, Sealed
<1>14. CASE Restore
  <2>0. UNCHANGED <<backup, proc>> /\ main' = backup /\ Sealed(backup) /\ lost \subseteq lost'
    BY <1>b, <1>14 DEF Restore
  <2>1. CASE Quiet
    <3>1. file' = backup /\ lost' = lost /\ \A p \in Procs : proc[p] = Idle
      BY <1>14, <2>1, RestoreTyped DEF Restore, Quiet
    <3>2. QED
      BY <2>0, <3>1 DEF KeyInv, Sealed
  <2>2. CASE ~Quiet
    <3>1. {file.salt, backup.salt} \subseteq {file'.salt} \cup lost'
      BY <1>14, <2>2, RestoreTyped DEF Restore
    <3>2. \A n \in Names : file'.rows[n].key \in {0, file.salt, backup.salt} \cup lost
      BY <1>b, <1>14, <2>0, RestoreTyped DEF Sealed
    <3>3. Sealed(file)'
      BY <2>0, <3>1, <3>2 DEF Sealed
    <3>4. \A p \in Procs : proc[p].key \in {0, file'.salt} \cup lost'
      BY <1>b, <2>0, <3>1
    <3>5. ASSUME NEW p \in Procs, proc[p].at = "saltless" PROVE file'.salt \in {0} \cup lost'
      <4>1. file.salt \in {0} \cup lost
        BY <1>b, <3>5
      <4>2. QED
        BY <1>14, <2>2, <4>1, RestoreTyped DEF Restore
    <3>6. QED
      BY <2>0, <3>3, <3>4, <3>5 DEF KeyInv, Sealed
  <2>3. QED
    BY <2>1, <2>2
<1>15. CASE UNCHANGED vars
  BY <1>b, <1>15 DEF vars, KeyInv, Sealed
<1>16. QED
  BY <1>1, <1>2, <1>3, <1>4, <1>5, <1>6, <1>7, <1>8, <1>9, <1>10, <1>11, <1>12,
     <1>13, <1>14, <1>15 DEF Next

\* Whatever starts, is killed, is copied or restored, also beside running processes,
\* a stored value is encrypted under the salt in its file or under one that a race
\* of two first starts or a restore under its users lost.
THEOREM CliReadable == Spec => []Readable
<1>1. KeyInv => Readable
  BY DEF KeyInv, Readable, Sealed
<1>2. QED
  BY TypeInit, TypeStep, KeyStart, KeyStep, <1>1, PTL DEF Spec

-----------------------------------------------------------------------------
(* No file has an empty value that nobody meant, and no call is about to   *)
(* write one.                                                              *)
Meant(c) == \A n \in Names : c.rows[n].value = "blank" => c.rows[n].meant

BlankInv ==
  /\ Meant(file) /\ Meant(main) /\ (backup # NoFile => Meant(backup))
  /\ \A p \in Procs : proc[p].at \in {"found", "missing"} =>
       /\ p # Server
       /\ proc[p].op \in {"set", "grant", "delete", "import"}
       /\ proc[p].op \in {"set", "import"} => Accepted(proc[p].asked)

LEMMA BlankStart == Init => BlankInv
  BY IdleTyped DEF Init, BlankInv, Meant, Empty, Absent

LEMMA BlankStep == TypeOK /\ BlankInv /\ [Next]_vars => BlankInv'
<1> SUFFICES ASSUME TypeOK, BlankInv, [Next]_vars PROVE BlankInv'
  OBVIOUS
<1> USE IdleTyped
<1>0. Server \in Procs /\ Commands \subseteq Procs
  BY DEF Procs
<1>1. CASE StartServer
  BY <1>0, <1>1 DEF StartServer, TypeOK, Process, BlankInv, Meant
<1>2. ASSUME NEW p \in Commands, StartInit(p) PROVE BlankInv'
  BY <1>0, <1>2 DEF StartInit, TypeOK, Process, BlankInv, Meant
<1>3. ASSUME NEW p \in Commands, CreateAdmin(p) PROVE BlankInv'
  BY <1>0, <1>3 DEF CreateAdmin, Exit, TypeOK, Content, Process, BlankInv, Meant
<1>4. ASSUME NEW p \in Commands, StartCommand(p) PROVE BlankInv'
  BY <1>0, <1>4 DEF StartCommand, TypeOK, Process, BlankInv, Meant
<1>5. ASSUME NEW p \in Commands, Ends(p) PROVE BlankInv'
  BY <1>0, <1>5 DEF Ends, Exit, TypeOK, Process, BlankInv, Meant
<1>6. ASSUME NEW p \in Commands, Finish(p) PROVE BlankInv'
  <2>1. proc[p].op \in {"set", "grant", "delete", "import"}
        /\ (proc[p].op \in {"set", "import"} => Accepted(proc[p].asked))
    BY <1>0, <1>6 DEF Finish, BlankInv
  <2>2. proc[p].name \in Names
    BY <1>0 DEF TypeOK, Process
  <2>3. After(p).value = "blank" => After(p).meant
    BY <2>1, <2>2 DEF After, Row, Absent, Accepted, BlankInv, Meant
  <2>4. Meant(file')
    BY <1>6, <2>3 DEF Finish, BlankInv, Meant, TypeOK, Content
  <2>5. \A q \in Procs : proc'[q].at \in {"found", "missing"} => proc'[q] = proc[q]
    BY <1>0, <1>6 DEF Finish, Exit, Goto, TypeOK, Process
  <2>6. QED
    BY <1>6, <2>4, <2>5 DEF Finish, BlankInv, Meant
<1>7. ASSUME NEW p \in Commands, NEW n \in Names, NEW a \in Asked, Look(p, n, a) PROVE BlankInv'
  <2>1. proc[p].op \in {"set", "grant", "delete", "import"}
    BY <1>7 DEF Look
  <2>2. proc[p].op \in {"set", "import"} => Accepted(a)
    BY <1>7, <2>1 DEF Look, Accepted, Imports
  <2>3. proc'[p].op = proc[p].op /\ proc'[p].asked = a
        /\ \A q \in Procs \ {p} : proc'[q] = proc[q]
    BY <1>0, <1>7 DEF Look, TypeOK, Process
  <2>4. p # Server
    OBVIOUS
  <2>5. UNCHANGED <<file, main, backup>>
    BY <1>7 DEF Look
  <2>6. Meant(file') /\ Meant(main') /\ (backup' # NoFile => Meant(backup'))
    BY <2>5 DEF BlankInv
  <2>7. ASSUME NEW q \in Procs, proc'[q].at \in {"found", "missing"}
        PROVE  /\ q # Server
               /\ proc'[q].op \in {"set", "grant", "delete", "import"}
               /\ proc'[q].op \in {"set", "import"} => Accepted(proc'[q].asked)
    <3>1. CASE q = p
      BY <2>1, <2>2, <2>3, <2>4, <3>1
    <3>2. CASE q # p
      BY <2>3, <2>7, <3>2 DEF BlankInv
    <3>3. QED
      BY <3>1, <3>2
  <2>8. QED
    BY <2>6, <2>7 DEF BlankInv, Meant, Accepted
<1>8. ASSUME NEW p \in Procs, StoreSalt(p) PROVE BlankInv'
  <2>1. Meant(file')
    BY <1>8 DEF StoreSalt, BlankInv, Meant, TypeOK, Content
  <2>2. \A q \in Procs : proc'[q].at \in {"found", "missing"} => proc'[q] = proc[q]
    BY <1>8 DEF StoreSalt, TypeOK, Process
  <2>3. QED
    BY <1>8, <2>1, <2>2 DEF StoreSalt, BlankInv, Meant
<1>9. ASSUME NEW p \in Procs, Derived(p) PROVE BlankInv'
  BY <1>9 DEF Derived, Goto, TypeOK, Process, BlankInv, Meant
<1>10. ASSUME NEW p \in Procs, Stop(p) PROVE BlankInv'
  BY <1>10 DEF Stop, Exit, TypeOK, Process, BlankInv, Meant
<1>11. ASSUME NEW n \in Names, Request(n) PROVE BlankInv'
  <2>1. PICK row : (row.value = "blank" => row.meant) /\ file' = [file EXCEPT !.rows[n] = row]
    BY <1>11 DEF Request, Row, Absent
  <2>2. Meant(file')
    BY <2>1 DEF BlankInv, Meant, TypeOK, Content
  <2>3. QED
    BY <1>11, <2>2 DEF Request, BlankInv, Meant
<1>12. CASE Checkpoint
  BY <1>12 DEF Checkpoint, BlankInv, Meant
<1>13. CASE CopyOut
  BY <1>13 DEF CopyOut, BlankInv, Meant
<1>14. CASE Restore
  <2>1. Meant(file) /\ Meant(backup)
    BY <1>14 DEF Restore, BlankInv
  <2>2. Meant(file')
    BY <1>14, <2>1, RestoreTyped DEF Meant
  <2>3. Meant(main') /\ (backup' # NoFile => Meant(backup')) /\ UNCHANGED proc
    BY <1>14, <2>1 DEF Restore
  <2>4. QED
    BY <2>2, <2>3 DEF BlankInv, Accepted
<1>15. CASE UNCHANGED vars
  BY <1>15 DEF vars, BlankInv, Meant
<1>16. QED
  BY <1>1, <1>2, <1>3, <1>4, <1>5, <1>6, <1>7, <1>8, <1>9, <1>10, <1>11, <1>12,
     <1>13, <1>14, <1>15 DEF Next

\* No command, import, client or restore leaves an empty value that nobody passed
\* explicitly, for any number of commands between whose two calls others write.
THEOREM CliNeverBlanked == Spec => []NeverBlanked
<1>1. BlankInv => NeverBlanked
  BY DEF BlankInv, NeverBlanked, Meant
<1>2. QED
  BY TypeInit, TypeStep, BlankStart, BlankStep, <1>1, PTL DEF Spec
=============================================================================
