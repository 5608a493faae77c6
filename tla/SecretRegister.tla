--------------------------- MODULE SecretRegister ---------------------------
(***************************************************************************)
(* What the gateway promises about the current value of a secret, whatever *)
(* cache, history table and set of processes stand behind it: each name is *)
(* a register that is created at version 1, moves to the next version with *)
(* every new value and disappears when it is deleted, and a read answers   *)
(* with the content the register has at some moment of the call.           *)
(***************************************************************************)
EXTENDS Naturals

CONSTANTS
  Names,    \* secret names
  Procs,    \* the processes that serve calls
  Values,   \* plaintexts
  NoValue   \* no plaintext

VARIABLES
  reg,      \* reg[n]: the content of the register n
  answer    \* answer[p]: what p is about to answer to its caller

vars == <<reg, answer>>

Content == [version : Nat, value : Values \cup {NoValue}]

Absent == [version |-> 0, value |-> NoValue]

Init ==
  /\ reg = [n \in Names |-> Absent]
  /\ answer = [p \in Procs |-> Absent]

Create(n, v) ==
  /\ reg[n] = Absent
  /\ reg' = [reg EXCEPT ![n] = [version |-> 1, value |-> v]]
  /\ UNCHANGED answer

Put(n, v) ==
  /\ reg[n] # Absent
  /\ reg' = [reg EXCEPT ![n] = [version |-> reg[n].version + 1, value |-> v]]
  /\ UNCHANGED answer

Remove(n) ==
  /\ reg[n] # Absent
  /\ reg' = [reg EXCEPT ![n] = Absent]
  /\ UNCHANGED answer

\* The moment at which a read takes effect.
Read(p, n) ==
  /\ answer[p] = Absent
  /\ reg[n] # Absent
  /\ answer' = [answer EXCEPT ![p] = reg[n]]
  /\ UNCHANGED reg

\* The answer leaves, or is lost with the process or by an error.
Reply(p) ==
  /\ answer[p] # Absent
  /\ answer' = [answer EXCEPT ![p] = Absent]
  /\ UNCHANGED reg

Next ==
  \/ \E n \in Names, v \in Values : Create(n, v) \/ Put(n, v)
  \/ \E n \in Names : Remove(n)
  \/ \E p \in Procs, n \in Names : Read(p, n)
  \/ \E p \in Procs : Reply(p)

Spec == Init /\ [][Next]_vars
=============================================================================
