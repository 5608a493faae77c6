----------------------------- MODULE GatewayCli -----------------------------
(***************************************************************************)
(* The server's start and the `gateway` commands as processes that share   *)
(* one SQLite file: src/server.ts and src/cli.ts.  Every value in the file *)
(* is encrypted under a key derived from the salt in the same file; the    *)
(* server finds or stores that salt when it starts, `gateway init` stores  *)
(* it, and every other command reads it and then derives its key.          *)
(* A command runs against the file (local) or through the server's REST    *)
(* interface (remote); either way it first looks whether the secret exists *)
(* and then writes, in two calls between which other processes act.        *)
(* `gateway backup` and `gateway restore` copy the main database file,     *)
(* which in WAL mode holds what was last checkpointed; neither looks       *)
(* whether anything runs.                                                  *)
(***************************************************************************)
EXTENDS Naturals

CONSTANTS Names,       \* secret names
          Commands,    \* the command processes that may run at a time
          Server,      \* the server's process
          NoFile,      \* no backup was taken
          MaxSalts     \* bound: salts ever generated

ASSUME CliAssumption ==
  Server \notin Commands /\ Names # {} /\ MaxSalts \in Nat

VARIABLES file,        \* what a connection sees: the salt, the admin, the rows
          main,        \* what the main database file alone holds
          backup,      \* the file `gateway backup` wrote, or NoFile
          proc,        \* the processes
          salts,       \* ghost: how many salts were generated
          lost         \* ghost: salts that were or may be replaced under someone who uses them

vars == <<file, main, backup, proc, salts, lost>>

Procs == Commands \cup {Server}
Values == {"blank", "text"}
Absent == [key |-> 0, value |-> "text", meant |-> FALSE]

(* A row remembers the salt its writer's key came from and, as a ghost,    *)
(* whether its value was passed explicitly (--value, or a request's body). *)
Rows == [key : 0..MaxSalts, value : Values, meant : BOOLEAN]
Content == [salt : 0..MaxSalts, admin : BOOLEAN, rows : [Names -> Rows]]
Empty   == [salt |-> 0, admin |-> FALSE, rows |-> [n \in Names |-> Absent]]

Asked == [value : Values, meant : BOOLEAN]   \* a value and how it was given
NoValue == [value |-> "text", meant |-> FALSE]

Idle == [at |-> "idle", op |-> "none", remote |-> FALSE, key |-> 0,
         name |-> CHOOSE n \in Names : TRUE, asked |-> NoValue]
Has(n) == file.rows[n].key # 0
ServerUp == proc[Server].at = "ready"

Init == /\ file = Empty /\ main = Empty /\ backup = NoFile
        /\ proc = [p \in Procs |-> Idle]
        /\ salts = 0 /\ lost = {}

Goto(p, at) == proc' = [proc EXCEPT ![p].at = at]
Exit(p) == proc' = [proc EXCEPT ![p] = Idle]

-----------------------------------------------------------------------------
(* Starting: both the server and `gateway init` go on to generate a salt   *)
(* when they found none; init stops when there is one.                     *)
FindsSalt_Ignored == FALSE
FindsSalt == file.salt # 0

StartServer ==
  /\ proc[Server] = Idle
  /\ proc' = [proc EXCEPT ![Server] =
       IF file.salt # 0
         THEN [Idle EXCEPT !.at = "deriving", !.op = "serve", !.key = file.salt]
         ELSE [Idle EXCEPT !.at = "saltless", !.op = "serve"]]
  /\ UNCHANGED <<file, main, backup, salts, lost>>

StartInit(p) ==
  /\ proc[p] = Idle /\ ~FindsSalt
  /\ proc' = [proc EXCEPT ![p] = [Idle EXCEPT !.at = "saltless", !.op = "init"]]
  /\ UNCHANGED <<file, main, backup, salts, lost>>

(* Another process is about to store a salt of its own. *)
Contested(p) == \E q \in Procs \ {p} : proc[q].at = "saltless"

(* setSalt replaces whatever salt is there by now *)
StoreSalt(p) ==
  /\ proc[p].at = "saltless" /\ salts < MaxSalts
  /\ salts' = salts + 1
  /\ lost' = IF Contested(p) THEN lost \cup {salts + 1} ELSE lost
  /\ file' = [file EXCEPT !.salt = salts + 1]
  /\ proc' = [proc EXCEPT ![p].at = IF p = Server THEN "deriving" ELSE "salted",
                          ![p].key = salts + 1]
  /\ UNCHANGED <<main, backup>>

(* init's last step; the admin's row may have come with another init *)
CreateAdmin(p) ==
  /\ proc[p].at = "salted"
  /\ file' = [file EXCEPT !.admin = TRUE]
  /\ Exit(p)
  /\ UNCHANGED <<main, backup, salts, lost>>

(* deriveKey is awaited: the salt was read before, the key is used after *)
Derived(p) ==
  /\ proc[p].at = "deriving"
  /\ Goto(p, "ready")
  /\ UNCHANGED <<file, main, backup, salts, lost>>

-----------------------------------------------------------------------------
(* The commands on secrets.  A value comes from --value, where '' is taken *)
(* as meant, or from a prompt, where '' is refused; import skips entries   *)
(* with an empty value and has no way to mean one.                         *)
Accepted_Unchecked(a) == TRUE
Accepted(a) == a.meant \/ a.value # "blank"
Imports(a) == ~a.meant /\ a.value # "blank"

(* secret grant and secret delete take no value and want a stored one *)
Grants(n, a) == Has(n) /\ a = NoValue
Deletes(n, a) == Has(n) /\ a = NoValue

(* createStack, or the remote client: no salt, no local command *)
StartCommand(p) ==
  \E op \in {"set", "grant", "delete", "read", "import"}, remote \in BOOLEAN :
    /\ proc[p] = Idle
    /\ remote => op # "import"
    /\ remote \/ FindsSalt
    /\ proc' = [proc EXCEPT ![p] =
         [Idle EXCEPT !.at = IF remote THEN "ready" ELSE "deriving", !.op = op,
                      !.remote = remote, !.key = IF remote THEN 0 ELSE file.salt]]
    /\ UNCHANGED <<file, main, backup, salts, lost>>

(* Through the server the look is a read of the value, which fails when    *)
(* the server's key does not decrypt it; against the file it is a row.     *)
CanLook(p, n) ==
  proc[p].remote /\ proc[p].op # "delete"
    => ServerUp /\ (Has(n) => file.rows[n].key = proc[Server].key)

Look(p, n, a) ==
  /\ proc[p].at = "ready" /\ proc[p].op \in {"set", "grant", "delete", "import"}
  /\ CanLook(p, n)
  /\ CASE proc[p].op = "set"    -> Accepted(a)
       [] proc[p].op = "import" -> Imports(a)
       [] proc[p].op = "grant"  -> Grants(n, a)
       [] proc[p].op = "delete" -> Deletes(n, a)
  /\ proc' = [proc EXCEPT ![p].at = IF Has(n) THEN "found" ELSE "missing",
                          ![p].name = n, ![p].asked = a]
  /\ UNCHANGED <<file, main, backup, salts, lost>>

(* secret grant on a missing name, a refused prompt, get, list, history,   *)
(* env, audit, rotation-report, and any command the server does not answer *)
Ends(p) ==
  /\ proc[p].at = "ready" /\ p # Server
  /\ Exit(p)
  /\ UNCHANGED <<file, main, backup, salts, lost>>

WriterKey(p) == IF proc[p].remote THEN proc[Server].key ELSE proc[p].key
Row(key, a) == [key |-> key, value |-> a.value, meant |-> a.meant]

(* What the second call leaves of a row: an update or a deletion of a row  *)
(* that is gone and a creation of one that came meanwhile fail; the REST   *)
(* interface refuses to create an empty value, explicit or not.            *)
After(p) ==
  LET c       == proc[p]
      row     == file.rows[c.name]
      refused == \/ (row.key = 0) = (c.at = "found")
                 \/ c.at = "missing" /\ c.remote /\ c.asked.value = "blank"
  IN  CASE refused \/ c.op = "grant" -> row
        [] c.op = "delete"           -> Absent
        [] OTHER                     -> Row(WriterKey(p), c.asked)

(* import goes on to its next entry, whatever became of this one *)
Finish(p) ==
  /\ proc[p].at \in {"found", "missing"}
  /\ file' = IF proc[p].remote /\ ~ServerUp THEN file
             ELSE [file EXCEPT !.rows[proc[p].name] = After(p)]
  /\ IF proc[p].op = "import" THEN Goto(p, "ready") ELSE Exit(p)
  /\ UNCHANGED <<main, backup, salts, lost>>

-----------------------------------------------------------------------------
(* Other clients of the running server, REST and browser: a creation and   *)
(* the browser's update need a value, a REST update takes an explicit ''.  *)
Request(n) ==
  /\ ServerUp
  /\ \E a \in Asked :
       /\ a.meant /\ (a.value = "blank" => Has(n))
       /\ \E row \in {Absent, Row(proc[Server].key, a)} :
            file' = [file EXCEPT !.rows[n] = row]
  /\ UNCHANGED <<main, backup, proc, salts, lost>>

(* The process ends or is killed; what it committed stays *)
Stop(p) ==
  /\ proc[p] # Idle
  /\ Exit(p)
  /\ UNCHANGED <<file, main, backup, salts, lost>>

(* SQLite copies its write-ahead log into the main file while it is open *)
Checkpoint ==
  /\ \E p \in Procs : proc[p] # Idle
  /\ main' = file
  /\ UNCHANGED <<file, backup, proc, salts, lost>>

CopyOut ==
  /\ backup' = main
  /\ UNCHANGED <<file, main, proc, salts, lost>>

(* The copy goes over the main file, whatever runs and whatever is in the  *)
(* log.  If nothing is, the database is that of the backup; else the pages *)
(* in the log and those that processes have cached stay beside those of    *)
(* the backup, so each part may be of either.                              *)
Quiet == file = main /\ \A p \in Procs : proc[p] = Idle

Mixed(c, d) ==
  [salt : {c.salt, d.salt}, admin : {c.admin, d.admin},
   rows : {r \in [Names -> {c.rows[n] : n \in Names} \cup {d.rows[n] : n \in Names}] :
             \A n \in Names : r[n] \in {c.rows[n], d.rows[n]}}]

Restored == IF Quiet THEN {backup} ELSE Mixed(file, backup)

Restore ==
  /\ backup # NoFile
  /\ main' = backup /\ file' \in Restored
  /\ lost' = IF Quiet \/ file.salt = backup.salt THEN lost
             ELSE lost \cup {file.salt, backup.salt}
  /\ UNCHANGED <<backup, proc, salts>>

Next ==
  \/ StartServer \/ Checkpoint \/ CopyOut \/ Restore
  \/ \E p \in Commands : StartInit(p) \/ CreateAdmin(p) \/ StartCommand(p)
                         \/ Ends(p) \/ Finish(p)
  \/ \E p \in Commands, n \in Names, a \in Asked : Look(p, n, a)
  \/ \E p \in Procs : StoreSalt(p) \/ Derived(p) \/ Stop(p)
  \/ \E n \in Names : Request(n)

Spec == Init /\ [][Next]_vars

-----------------------------------------------------------------------------
(* A stored value is encrypted under the salt stored beside it, in the     *)
(* database, its main file and its backup, so that the next process to     *)
(* start can read it, whatever starts, is killed, is copied or restored,   *)
(* also under a running server: unless its salt was one that another       *)
(* process was about to replace when it was stored, or one of the two that *)
(* a restore mixed under a process or a log (server.ts:25-29,              *)
(* cli.ts:273-289, 799-828).                                               *)
Readable ==
  \A c \in {file, main, backup} \ {NoFile}, n \in Names :
    c.rows[n].key \in {0, c.salt} \cup lost

(* No stored value is empty unless someone passed the empty value          *)
(* explicitly: a bare Enter, the end of a pipe, an empty seed entry and a  *)
(* grant leave the stored value alone (cli.ts:163-187, 853-857).           *)
NeverBlanked ==
  \A n \in Names : Has(n) /\ file.rows[n].value = "blank" => file.rows[n].meant
=============================================================================
