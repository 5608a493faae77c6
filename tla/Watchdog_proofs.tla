-------------------------- MODULE Watchdog_proofs ---------------------------
(***************************************************************************)
(* Any number of processes that sweep the state file one after the other,  *)
(* with or without --no-alert, and are never killed while the file is      *)
(* truncated: their alerts alternate, agree with the file and never come   *)
(* from a blip, for any targets, any threshold and any number of kills at  *)
(* the other steps.  Sweeps that overlap end all of that, and the          *)
(* properties say so.                                                      *)
(***************************************************************************)
EXTENDS Watchdog, TLAPS

\* A kill in the middle of writeFileSync leaves a file that loads as empty.
NoTornFile == "write" \notin CrashPoints

USE WatchdogAssumption

-----------------------------------------------------------------------------
\* What one probe makes of a target.

LEMMA UptoType ==
  ASSUME NEW n \in Nat
  PROVE  Upto(n) \in 0 .. Threshold
  BY DEF Upto

LEMMA AfterProbeType ==
  ASSUME NEW prev \in TargetState, NEW healthy \in BOOLEAN
  PROVE  AfterProbe(prev, healthy) \in TargetState
<1>1. Upto(prev.failures + 1) \in 0 .. Threshold
  BY UptoType DEF TargetState
<1>2. QED
  BY <1>1 DEF AfterProbe, TargetState, Unseen, Statuses

LEMMA EmptyStateType == EmptyState \in [Targets -> TargetState]
  BY DEF EmptyState, Unseen, TargetState, Statuses

\* A target is down exactly when its tally is full: the tally of a target that is down
\* stays full until a healthy probe.
Full(s) == s.status = "down" <=> s.failures = Threshold

LEMMA AfterProbeFull ==
  ASSUME NEW prev \in TargetState, NEW healthy \in BOOLEAN, Full(prev)
  PROVE  /\ Full(AfterProbe(prev, healthy))
         /\ AfterProbe(prev, healthy).failures
              = IF healthy THEN 0 ELSE Upto(prev.failures + 1)
  BY DEF Full, AfterProbe, Upto, Unseen, TargetState, Statuses

-----------------------------------------------------------------------------
\* Types.

LEMMA TypeInit == Init => TypeOK
<1> SUFFICES ASSUME Init PROVE TypeOK
  OBVIOUS
<1>1. /\ up \in [Targets -> BOOLEAN]
      /\ found \in [Procs -> [Targets -> BOOLEAN]]
      /\ lost \in [Targets -> BOOLEAN]
      /\ overlapped \in BOOLEAN
  BY DEF Init
<1>2. /\ file \in [Targets -> TargetState]
      /\ state \in [Procs -> [Targets -> TargetState]]
  BY EmptyStateType DEF Init
<1>3. /\ pc \in [Procs -> Labels]
      /\ pending \in [Procs -> SUBSET Alert]
      /\ heard \in [Targets -> Statuses]
      /\ streak \in [Targets -> 0 .. Threshold]
      /\ crashes \in Nat
  BY DEF Init, Labels, Statuses
<1>4. QED
  BY <1>1, <1>2, <1>3 DEF TypeOK

LEMMA TypeStep == TypeOK /\ [Next]_vars => TypeOK'
<1> SUFFICES ASSUME TypeOK, [Next]_vars PROVE TypeOK'
  OBVIOUS
<1>1. ASSUME NEW p \in Procs, LoadState(p) PROVE TypeOK'
  BY <1>1 DEF LoadState, Goto, TypeOK, Labels
<1>2. ASSUME NEW p \in Procs, ProbeTargets(p) PROVE TypeOK'
  BY <1>2 DEF ProbeTargets, Goto, TypeOK, Labels
<1>3. ASSUME NEW p \in Procs, Decide(p) PROVE TypeOK'
  <2> DEFINE next == [t \in Targets |-> AfterProbe(state[p][t], found[p][t])]
  <2>1. next \in [Targets -> TargetState]
    BY AfterProbeType DEF TypeOK
  <2>2. Alerts(state[p], next) \in SUBSET Alert
    BY DEF Alerts
  <2>3. \A t \in Targets : Upto(streak[t] + 1) \in 0 .. Threshold
    BY UptoType DEF TypeOK
  <2>4. streak' \in [Targets -> 0 .. Threshold]
    BY <1>3, <2>3 DEF Decide
  <2> HIDE DEF next
  <2>5. state' = [state EXCEPT ![p] = next] /\ pending' = [pending EXCEPT ![p] = Alerts(state[p], next)]
    BY <1>3 DEF Decide, next
  <2>6. state' \in [Procs -> [Targets -> TargetState]] /\ pending' \in [Procs -> SUBSET Alert]
    BY <2>1, <2>2, <2>5 DEF TypeOK
  <2>7. file' \in [Targets -> TargetState] /\ pc' \in [Procs -> Labels]
    BY <1>3, EmptyStateType DEF Decide, Goto, TypeOK, Labels
  <2>8. UNCHANGED <<up, found, heard, lost, overlapped, crashes>>
    BY <1>3 DEF Decide
  <2>9. QED
    BY <2>4, <2>6, <2>7, <2>8 DEF TypeOK
<1>4. ASSUME NEW p \in Procs, WriteFile(p) PROVE TypeOK'
  <2>1. PICK label \in {"idle", "send"} : Goto(p, label)
    BY <1>4 DEF WriteFile
  <2>2. pc' \in [Procs -> Labels]
    BY <2>1 DEF Goto, TypeOK, Labels
  <2>3. lost' \in [Targets -> BOOLEAN]
    BY <1>4, Zenon DEF WriteFile, TypeOK
  <2>4. pending' \in [Procs -> SUBSET Alert]
    BY <1>4 DEF WriteFile, TypeOK
  <2>5. file' \in [Targets -> TargetState]
    BY <1>4 DEF WriteFile, TypeOK
  <2>6. UNCHANGED <<up, state, found, heard, overlapped, streak, crashes>>
    BY <1>4 DEF WriteFile
  <2>7. QED
    BY <2>2, <2>3, <2>4, <2>5, <2>6 DEF TypeOK
<1>5. ASSUME NEW p \in Procs, Send(p) PROVE TypeOK'
  BY <1>5 DEF Send, Dispatch, Goto, TypeOK, Labels, Alert
<1>6. ASSUME NEW p \in Procs, Crash(p) PROVE TypeOK'
  BY <1>6 DEF Crash, Goto, TypeOK, Labels
<1>7. ASSUME NEW t \in Targets, Flip(t) PROVE TypeOK'
  BY <1>7 DEF Flip, TypeOK
<1>8. CASE UNCHANGED vars
  BY <1>8 DEF vars, TypeOK
<1>9. QED
  BY <1>1, <1>2, <1>3, <1>4, <1>5, <1>6, <1>7, <1>8 DEF Next, Sweep, Continue

\* The type invariant of the watchdog, for any number of sweeping processes.
THEOREM WatchdogTypeCorrect == Spec => []TypeOK
<1>1. QED
  BY TypeInit, TypeStep, PTL DEF Spec

-----------------------------------------------------------------------------
(***************************************************************************)
(* What is known of the targets: the file, or from the decision of a sweep *)
(* to its end the local state of that sweep, of which the alerts are a     *)
(* part that people have not heard yet.                                    *)
(***************************************************************************)

Ending == {"write", "send"}

\* A pending alert says what is known and nobody has heard; where there is none, people
\* have heard what is known; and the tally of failures is the run of them.
Settled(known, alerts) ==
  /\ \A a \in alerts : /\ a.says = known[a.target].status
                       /\ lost[a.target] \/ heard[a.target] # a.says
  /\ \A t \in Targets \ Spoken(alerts) : lost[t] \/ heard[t] = known[t].status
  /\ \A t \in Targets : Full(known[t]) /\ known[t].failures = streak[t]

Alone == \A p, q \in Procs : pc[p] # "idle" /\ pc[q] # "idle" => p = q

\* The local copies are those of the file, but for a sweep that is about to save.
CopiesOK ==
  \A p \in Procs :
    /\ pc[p] \in {"probe", "decide", "send"} => state[p] = file
    /\ pc[p] \notin Ending => pending[p] = {}

KnownOK ==
  /\ \A p \in Procs : pc[p] \in Ending => Settled(state[p], pending[p])
  /\ (\A p \in Procs : pc[p] \notin Ending) => Settled(file, {})

InTurn == Alone /\ CopiesOK /\ KnownOK

SweepInv == ~ overlapped => InTurn

LEMMA SweepInit == Init => SweepInv
<1> SUFFICES ASSUME Init PROVE InTurn
  BY DEF SweepInv
<1>1. Alone /\ CopiesOK
  BY DEF Init, Alone, CopiesOK, Ending
<1>2. \A t \in Targets : /\ file[t] = Unseen /\ heard[t] = "ok" /\ streak[t] = 0
  BY DEF Init, EmptyState
<1>3. Settled(file, {})
  BY <1>2 DEF Settled, Full, Unseen
<1>4. \A p \in Procs : pc[p] \notin Ending
  BY DEF Init, Ending
<1>5. QED
  BY <1>1, <1>3, <1>4 DEF InTurn, KnownOK

\* A sweep that moves on while no other is under way.
LEMMA GotoAlone ==
  ASSUME TypeOK, Alone, NEW p \in Procs, NEW label \in Labels, Goto(p, label),
         pc[p] # "idle" \/ \A q \in Procs : pc[q] = "idle"
  PROVE  /\ Alone'
         /\ pc'[p] = label
         /\ \A q \in Procs \ {p} : pc[q] = "idle" /\ pc'[q] = "idle"
  BY DEF Goto, Alone, TypeOK

\* A sweep decides: an alert for each target whose status changes.
LEMMA DecideSettles ==
  ASSUME TypeOK, NEW p \in Procs, Decide(p), state[p] = file, Settled(file, {})
  PROVE  Settled(state[p], pending[p])'
<1> DEFINE next == [t \in Targets |-> AfterProbe(file[t], found[p][t])]
<1>1. PICK n, as : n = next /\ as = Alerts(file, next)
  OBVIOUS
<1>2. /\ state'[p] = n /\ pending'[p] = as
      /\ UNCHANGED <<heard, lost>>
  BY <1>1 DEF Decide, TypeOK
<1>3. \A t \in Targets : streak'[t] = IF found[p][t] THEN 0 ELSE Upto(streak[t] + 1)
  BY DEF Decide
<1>4. file \in [Targets -> TargetState] /\ \A t \in Targets : found[p][t] \in BOOLEAN
  BY DEF TypeOK
<1>5. \A t \in Targets : n[t] = AfterProbe(file[t], found[p][t])
  BY <1>1
<1>6. \A t \in Targets : n[t].status \in Statuses /\ file[t].status \in Statuses
  BY <1>4, <1>5, AfterProbeType DEF TargetState
<1>7. \A t \in Targets : lost[t] \/ heard[t] = file[t].status
  BY DEF Settled, Spoken
<1>8. \A a \in as : a \in Alert /\ a.says = n[a.target].status /\ a.says # file[a.target].status
  BY <1>1 DEF Alerts
<1> HIDE DEF next
<1>9. ASSUME NEW a \in as
      PROVE  a.says = n[a.target].status /\ (lost[a.target] \/ heard[a.target] # a.says)
  BY <1>7, <1>8 DEF Alert
<1>10. ASSUME NEW t \in Targets \ Spoken(as)
       PROVE  lost[t] \/ heard[t] = n[t].status
  <2> DEFINE a == [target |-> t, says |-> n[t].status]
  <2>1. a \in Alert /\ a.target = t /\ a.says = n[t].status
    BY <1>6 DEF Alert
  <2>2. a \notin as
    BY <2>1 DEF Spoken
  <2>3. n[t].status = file[t].status
    BY <1>1, <2>1, <2>2 DEF Alerts
  <2>4. QED
    BY <1>7, <2>3
<1>11. ASSUME NEW t \in Targets
       PROVE  Full(n[t]) /\ n[t].failures = streak'[t]
  <2>1. Full(file[t]) /\ file[t].failures = streak[t]
    BY DEF Settled
  <2>2. /\ Full(AfterProbe(file[t], found[p][t]))
        /\ AfterProbe(file[t], found[p][t]).failures
             = IF found[p][t] THEN 0 ELSE Upto(file[t].failures + 1)
    BY <1>4, <2>1, AfterProbeFull
  <2>3. QED
    BY <1>3, <1>5, <2>1, <2>2
<1>12. QED
  BY <1>2, <1>9, <1>10, <1>11 DEF Settled, Full

\* One alert is sent.
LEMMA DispatchSettles ==
  ASSUME TypeOK, NEW p \in Procs, NEW a, NEW reached \in BOOLEAN, Dispatch(p, a, reached),
         Settled(state[p], pending[p])
  PROVE  Settled(state[p], pending[p])'
<1>1. PICK n, as : n = state[p] /\ as = pending[p]
  OBVIOUS
<1>2. /\ a \in as /\ as \subseteq Alert
      /\ state'[p] = n /\ pending'[p] = as \ {a}
      /\ UNCHANGED streak
  BY <1>1 DEF Dispatch, TypeOK
<1>3. /\ a.target \in Targets /\ a.says = n[a.target].status
      /\ heard'[a.target] = IF reached THEN a.says ELSE heard[a.target]
      /\ lost'[a.target] = ~ reached
      /\ \A t \in Targets : t # a.target => heard'[t] = heard[t] /\ lost'[t] = lost[t]
  BY <1>1, <1>2 DEF Dispatch, TypeOK, Alert, Settled
<1>4. \A b \in as \ {a} : b \in Alert /\ b.target # a.target /\ b.says = n[b.target].status
  BY <1>1, <1>2, <1>3 DEF Settled, Alert
<1>5. ASSUME NEW b \in as \ {a}
      PROVE  b.says = n[b.target].status /\ (lost'[b.target] \/ heard'[b.target] # b.says)
  <2>1. b.target \in Targets
    BY <1>4 DEF Alert
  <2>2. lost[b.target] \/ heard[b.target] # b.says
    BY <1>1 DEF Settled
  <2>3. QED
    BY <1>3, <1>4, <2>1, <2>2
<1>6. ASSUME NEW t \in Targets \ Spoken(as \ {a})
      PROVE  lost'[t] \/ heard'[t] = n[t].status
  <2>1. CASE t = a.target
    BY <1>3, <2>1
  <2>2. CASE t # a.target
    <3>1. t \notin Spoken(as)
      BY <2>2 DEF Spoken
    <3>2. lost[t] \/ heard[t] = n[t].status
      BY <1>1, <3>1 DEF Settled
    <3>3. QED
      BY <1>3, <2>2, <3>2
  <2>3. QED
    BY <2>1, <2>2
<1>7. \A t \in Targets : Full(n[t]) /\ n[t].failures = streak[t]
  BY <1>1 DEF Settled
<1>8. QED
  BY <1>2, <1>5, <1>6, <1>7 DEF Settled, Full

\* The alerts that were not sent are lost, and what they told of stays known.
LEMMA LossSettles ==
  ASSUME TypeOK, NEW known, NEW alerts, Settled(known, alerts), UNCHANGED <<heard, streak>>,
         \A t \in Targets : lost'[t] = (lost[t] \/ t \in Spoken(alerts))
  PROVE  Settled(known, {})'
<1>1. \A t \in Targets : lost'[t] \/ heard'[t] = known[t].status
  BY DEF Settled
<1>2. \A t \in Targets : Full(known[t]) /\ known[t].failures = streak'[t]
  BY DEF Settled
<1>3. QED
  BY <1>1, <1>2 DEF Settled, Full

LEMMA SettledKept ==
  ASSUME NEW known, NEW alerts, Settled(known, alerts), UNCHANGED <<heard, streak>>,
         \A t \in Targets : lost[t] => lost'[t], alerts \subseteq Alert
  PROVE  Settled(known, alerts)'
<1>1. \A a \in alerts : a.target \in Targets
  BY DEF Alert
<1>2. QED
  BY <1>1 DEF Settled, Full

\* A sweep that has not decided yet.
LEMMA EarlyStep ==
  ASSUME TypeOK, InTurn, NEW p \in Procs, ~ overlapped', LoadState(p) \/ ProbeTargets(p)
  PROVE  InTurn'
<1>1. PICK label \in {"probe", "decide"} : Goto(p, label)
  BY DEF LoadState, ProbeTargets
<1>2. pc[p] # "idle" \/ \A q \in Procs : pc[q] = "idle"
  BY DEF LoadState, ProbeTargets
<1>3. /\ Alone' /\ pc'[p] = label
      /\ \A q \in Procs \ {p} : pc[q] = "idle" /\ pc'[q] = "idle"
  BY <1>1, <1>2, GotoAlone DEF InTurn, Labels
<1>4. pc[p] \in {"idle", "probe"} /\ UNCHANGED <<file, pending, heard, lost, streak>>
  BY DEF LoadState, ProbeTargets
<1>5. state'[p] = file /\ \A q \in Procs \ {p} : state'[q] = state[q]
  BY DEF LoadState, ProbeTargets, InTurn, CopiesOK, TypeOK
<1>6. CopiesOK'
  BY <1>3, <1>4, <1>5 DEF InTurn, CopiesOK, Ending
<1>7. Settled(file, {})
  BY <1>3, <1>4 DEF InTurn, KnownOK, Ending
<1>8. Settled(file, {})'
  BY <1>4, <1>7 DEF Settled, Full
<1>9. \A q \in Procs : pc'[q] \notin Ending
  BY <1>3 DEF Ending
<1>10. KnownOK'
  BY <1>8, <1>9 DEF KnownOK
<1>11. QED
  BY <1>3, <1>6, <1>10 DEF InTurn

LEMMA DecideStep ==
  ASSUME TypeOK, InTurn, NEW p \in Procs, Decide(p)
  PROVE  InTurn'
<1>1. Goto(p, "write") /\ pc[p] = "decide"
  BY DEF Decide
<1>2. /\ Alone' /\ pc'[p] = "write"
      /\ \A q \in Procs \ {p} : pc[q] = "idle" /\ pc'[q] = "idle"
  BY <1>1, GotoAlone DEF InTurn, Labels
<1>3. state[p] = file /\ Settled(file, {})
  BY <1>1, <1>2 DEF InTurn, CopiesOK, KnownOK, Ending
<1>4. Settled(state[p], pending[p])'
  BY <1>3, DecideSettles
<1>5. \A q \in Procs \ {p} : pending'[q] = pending[q]
  BY DEF Decide, TypeOK
<1>6. CopiesOK'
  BY <1>2, <1>5 DEF InTurn, CopiesOK, Ending
<1>7. KnownOK'
  BY <1>2, <1>4 DEF KnownOK, Ending
<1>8. QED
  BY <1>2, <1>6, <1>7 DEF InTurn

LEMMA WriteStep ==
  ASSUME TypeOK, InTurn, NEW p \in Procs, WriteFile(p)
  PROVE  InTurn'
<1>1. PICK label \in {"idle", "send"} : Goto(p, label)
  BY DEF WriteFile
<1>2. pc[p] = "write" /\ file' = state[p] /\ UNCHANGED <<state, heard, streak>>
  BY DEF WriteFile
<1>3. /\ Alone' /\ pc'[p] = label
      /\ \A q \in Procs \ {p} : pc[q] = "idle" /\ pc'[q] = "idle"
  BY <1>1, <1>2, GotoAlone DEF InTurn, Labels
<1>4. PICK n, as : n = state[p] /\ as = pending[p] /\ as \subseteq Alert
  BY DEF TypeOK
<1>5. Settled(n, as)
  BY <1>2, <1>4 DEF InTurn, KnownOK, Ending
<1>6. CASE pc'[p] = "idle"
  <2>1. pending' = [pending EXCEPT ![p] = {}]
    BY <1>6, <1>2 DEF WriteFile, Goto, TypeOK
  <2>2. \A t \in Targets : lost'[t] = (lost[t] \/ t \in Spoken(as))
    BY <1>6, <1>2, <1>4 DEF WriteFile, Goto, TypeOK
  <2>3. Settled(n, {})'
    BY <1>2, <1>5, <2>2, LossSettles
  <2>4. Settled(file, {})'
    BY <1>2, <1>4, <2>3
  <2>5. CopiesOK'
    BY <1>3, <1>6, <2>1 DEF InTurn, CopiesOK, Ending, TypeOK
  <2>6. KnownOK'
    BY <1>3, <1>6, <2>4 DEF KnownOK, Ending
  <2>7. QED
    BY <1>3, <2>5, <2>6 DEF InTurn
<1>7. CASE pc'[p] = "send"
  <2>1. UNCHANGED <<pending, lost>>
    BY <1>7, <1>2 DEF WriteFile, Goto, TypeOK
  <2>2. Settled(n, as)'
    BY <1>2, <1>4, <1>5, <2>1, SettledKept
  <2>3. Settled(state[p], pending[p])'
    BY <1>2, <1>4, <2>1, <2>2
  <2>4. CopiesOK'
    BY <1>2, <1>3, <1>7, <2>1 DEF InTurn, CopiesOK, Ending
  <2>5. KnownOK'
    BY <1>3, <1>7, <2>3 DEF KnownOK, Ending
  <2>6. QED
    BY <1>3, <2>4, <2>5 DEF InTurn
<1>8. QED
  BY <1>3, <1>6, <1>7

LEMMA SendStep ==
  ASSUME TypeOK, InTurn, NEW p \in Procs, NEW a, NEW reached \in BOOLEAN, Dispatch(p, a, reached)
  PROVE  InTurn'
<1>1. PICK label \in {"idle", "send"} : Goto(p, label)
  BY DEF Dispatch
<1>2. /\ pc[p] = "send" /\ a \in pending[p] /\ UNCHANGED <<file, state>>
      /\ pending' = [pending EXCEPT ![p] = @ \ {a}]
      /\ Goto(p, IF pending[p] = {a} THEN "idle" ELSE "send")
  BY DEF Dispatch
<1>3. /\ Alone' /\ pc'[p] = label
      /\ \A q \in Procs \ {p} : pc[q] = "idle" /\ pc'[q] = "idle"
  BY <1>1, <1>2, GotoAlone DEF InTurn, Labels
<1>4. Settled(state[p], pending[p]) /\ state[p] = file
  BY <1>2 DEF InTurn, CopiesOK, KnownOK, Ending
<1>5. Settled(state[p], pending[p])'
  BY <1>4, DispatchSettles
<1>6. pc'[p] = "idle" => pending'[p] = {}
  BY <1>2 DEF Goto, TypeOK
<1>7. \A q \in Procs \ {p} : pending'[q] = pending[q]
  BY <1>2 DEF TypeOK
<1>8. CopiesOK'
  BY <1>2, <1>3, <1>4, <1>6, <1>7 DEF InTurn, CopiesOK, Ending
<1>9. pc'[p] = "idle" => Settled(file, {})'
  BY <1>2, <1>4, <1>5, <1>6
<1>10. KnownOK'
  BY <1>3, <1>5, <1>9 DEF KnownOK, Ending
<1>11. QED
  BY <1>3, <1>8, <1>10 DEF InTurn

\* A kill: the alerts that were not sent are lost, and what they told of is in the file.
LEMMA CrashStep ==
  ASSUME NoTornFile, TypeOK, InTurn, NEW p \in Procs, Crash(p)
  PROVE  InTurn'
<1>1. /\ pc[p] \in Labels \ {"write"} /\ pc' = [pc EXCEPT ![p] = "idle"]
      /\ pending' = [pending EXCEPT ![p] = {}]
      /\ UNCHANGED <<file, state, heard, streak>>
  BY DEF NoTornFile, Crash, Goto, TypeOK
<1>2. \A t \in Targets : lost'[t] = (lost[t] \/ (pc[p] = "send" /\ t \in Spoken(pending[p])))
  BY Zenon DEF Crash
<1>3. Alone'
  BY <1>1 DEF InTurn, Alone, TypeOK
<1>4. CopiesOK'
  BY <1>1 DEF InTurn, CopiesOK, Ending, TypeOK
<1>5. CASE pc[p] = "send"
  <2>1. PICK n, as : n = state[p] /\ as = pending[p]
    OBVIOUS
  <2>2. Settled(n, as) /\ n = file
    BY <1>5, <2>1 DEF InTurn, CopiesOK, KnownOK, Ending
  <2>3. \A t \in Targets : lost'[t] = (lost[t] \/ t \in Spoken(as))
    BY <1>2, <1>5, <2>1
  <2>4. Settled(n, {})'
    BY <1>1, <2>2, <2>3, LossSettles
  <2>5. \A q \in Procs : pc'[q] = "idle"
    BY <1>1, <1>5 DEF InTurn, Alone, TypeOK
  <2>6. KnownOK'
    BY <1>1, <2>2, <2>4, <2>5 DEF KnownOK, Ending
  <2>7. QED
    BY <1>3, <1>4, <2>6 DEF InTurn
<1>6. CASE pc[p] # "send"
  <2>1. \A t \in Targets : lost[t] => lost'[t]
    BY <1>2
  <2>2. \A q \in Procs : /\ pc'[q] \in Ending <=> pc[q] \in Ending
                         /\ pc[q] \in Ending => pending'[q] = pending[q]
    BY <1>1, <1>6 DEF Ending, TypeOK
  <2>3. ASSUME NEW q \in Procs, pc'[q] \in Ending
        PROVE  Settled(state[q], pending[q])'
    <3>1. PICK n, as : n = state[q] /\ as = pending[q] /\ as \subseteq Alert
      BY DEF TypeOK
    <3>2. Settled(n, as)
      BY <2>2, <2>3, <3>1 DEF InTurn, KnownOK
    <3>3. Settled(n, as)'
      BY <1>1, <2>1, <3>1, <3>2, SettledKept
    <3>4. QED
      BY <1>1, <2>2, <2>3, <3>1, <3>3
  <2>4. ASSUME \A q \in Procs : pc'[q] \notin Ending
        PROVE  Settled(file, {})'
    <3>1. Settled(file, {})
      BY <2>2, <2>4 DEF InTurn, KnownOK
    <3>2. QED
      BY <1>1, <2>1, <3>1 DEF Settled, Full
  <2>5. KnownOK'
    BY <2>3, <2>4 DEF KnownOK
  <2>6. QED
    BY <1>3, <1>4, <2>5 DEF InTurn
<1>7. QED
  BY <1>5, <1>6

LEMMA SweepStep == NoTornFile /\ TypeOK /\ SweepInv /\ [Next]_vars => SweepInv'
<1> SUFFICES ASSUME NoTornFile, TypeOK, SweepInv, [Next]_vars, ~ overlapped' PROVE InTurn'
  BY DEF SweepInv
<1>1. ~ overlapped
  BY DEF Next, Sweep, Continue, Send, LoadState, ProbeTargets, Decide, WriteFile, Dispatch, Crash,
         Flip, vars
<1>2. InTurn
  BY <1>1 DEF SweepInv
<1>3. ASSUME UNCHANGED <<file, pc, state, pending, heard, lost, streak>>
      PROVE  InTurn'
  BY <1>2, <1>3 DEF InTurn, Alone, CopiesOK, KnownOK, Settled, Full
<1>4. ASSUME NEW t \in Targets, Flip(t) PROVE InTurn'
  BY <1>3, <1>4 DEF Flip
<1>5. CASE UNCHANGED vars
  BY <1>3, <1>5 DEF vars
<1>6. QED
  BY <1>2, <1>4, <1>5, EarlyStep, DecideStep, WriteStep, SendStep, CrashStep
     DEF Next, Sweep, Continue, Send

LEMMA SweepInvariance == NoTornFile => (Spec => [](TypeOK /\ SweepInv))
<1> SUFFICES ASSUME NoTornFile PROVE Spec => [](TypeOK /\ SweepInv)
  OBVIOUS
<1>1. Init => SweepInv
  BY SweepInit
<1>2. TypeOK /\ SweepInv /\ [Next]_vars => SweepInv'
  BY SweepStep
<1>3. QED
  BY <1>1, <1>2, WatchdogTypeCorrect, PTL DEF Spec

\* src/watchdog/runner.ts: as long as sweeps do not overlap and none is killed while it
\* writes, an alert never repeats what the last one for its target said, unless one was
\* lost or kept quiet in between.
THEOREM WatchdogAlertsAlternate ==
  ASSUME NoTornFile
  PROVE  Spec => []AlertsAlternate
<1>1. TypeOK /\ SweepInv => AlertsAlternate
  BY DEF SweepInv, InTurn, KnownOK, Settled, Ending, AlertsAlternate
<1>2. QED
  BY <1>1, SweepInvariance, PTL

\* src/watchdog/runner.ts: under the same conditions, between sweeps the file remembers
\* of each target what people have heard, unless an alert was lost or kept quiet.
THEOREM WatchdogHeardIsRemembered ==
  ASSUME NoTornFile
  PROVE  Spec => []HeardIsRemembered
<1>1. TypeOK /\ SweepInv => HeardIsRemembered
  BY DEF SweepInv, InTurn, KnownOK, Settled, Spoken, Ending, HeardIsRemembered
<1>2. QED
  BY <1>1, SweepInvariance, PTL

\* src/watchdog/state.ts: under the same conditions, an incident follows Threshold
\* unhealthy results in a row, also when the process was killed in between or the
\* results are those of several processes.
THEOREM WatchdogNoBlipPages ==
  ASSUME NoTornFile
  PROVE  Spec => []NoBlipPages
<1>1. TypeOK /\ SweepInv => NoBlipPages
  <2> SUFFICES ASSUME TypeOK, InTurn, NEW p \in Procs, NEW a \in pending[p], a.says = "down"
               PROVE  streak[a.target] = Threshold
    BY DEF NoBlipPages, SweepInv
  <2>1. a.target \in Targets
    BY DEF TypeOK, Alert
  <2>2. Settled(state[p], pending[p])
    BY DEF InTurn, CopiesOK, KnownOK
  <2>3. QED
    BY <2>1, <2>2 DEF Settled, Full
<1>2. QED
  BY <1>1, SweepInvariance, PTL
=============================================================================
