------------------------------ MODULE Watchdog ------------------------------
(***************************************************************************)
(* The health watchdog (src/watchdog/runner.ts, state.ts, alert.ts): a     *)
(* sweep loads the state file, probes every target, decides which targets  *)
(* changed, saves the file and then sends one alert for each change.       *)
(*                                                                         *)
(* The `watch` loop sweeps for ever; `run` commands of other processes, a  *)
(* cron job's for example, sweep the same file beside it and take no lock. *)
(* A process can be killed at any of its steps.                            *)
(* A sweep that fails before it has saved anything (the manifest cannot be *)
(* read) is a sweep that did not take place.                               *)
(***************************************************************************)
EXTENDS Naturals, FiniteSets

CONSTANTS
  Targets,      \* the names of watchdog.targets.json
  Procs,        \* the processes that sweep
  Loops,        \* those of them that are the `watch` loop
  Quiet,        \* those of them whose command may be given --no-alert
  Threshold,    \* failThreshold
  CrashPoints,  \* the labels at which a process may be killed
  MaxCrashes    \* bound: kills

ASSUME WatchdogAssumption ==
  /\ IsFiniteSet(Targets)
  /\ Loops \subseteq Procs
  /\ Quiet \subseteq Procs
  /\ Threshold \in Nat \ {0}
  /\ MaxCrashes \in Nat

VARIABLES
  up,       \* up[t]: a probe of t would find it healthy now
  file,     \* the state file
  pc,       \* pc[p]: the next step of the sweep of p
  state,    \* state[p]: the local `state` of that sweep
  found,    \* found[p]: its local `results`, which targets were healthy
  pending,  \* pending[p]: its local `pending`, the alerts it has not sent yet
  heard,    \* ghost: heard[t]: what the last alert that reached someone said of t
  lost,     \* ghost: lost[t]: an alert for t has been lost or kept quiet since
  overlapped,  \* ghost: a sweep began before another one had ended
  streak,   \* ghost: streak[t]: the unhealthy results acted on since a healthy one, up to Threshold
  crashes   \* ghost: kills

vars == <<up, file, pc, state, found, pending, heard, lost, overlapped, streak, crashes>>

----------------------------------------------------------------------------

Labels == {"idle", "probe", "decide", "write", "send"}

Statuses == {"ok", "down"}

Upto(n) == IF n < Threshold THEN n ELSE Threshold

\* A TargetState. The tally of failures is only ever compared with Threshold, so it
\* stops there.
TargetState == [status : Statuses, failures : 0 .. Threshold]

\* A target that is not in the file counts as one that was healthy.
Unseen == [status |-> "ok", failures |-> 0]

\* What a file that is missing, truncated or not JSON loads as.
EmptyState == [t \in Targets |-> Unseen]

\* An incident says "down", a recovery says "ok".
Alert == [target : Targets, says : Statuses]

Init ==
  /\ up \in [Targets -> BOOLEAN]
  /\ file = EmptyState
  /\ pc = [p \in Procs |-> "idle"]
  /\ state = [p \in Procs |-> EmptyState]
  /\ found = [p \in Procs |-> up]
  /\ pending = [p \in Procs |-> {}]
  /\ heard = [t \in Targets |-> "ok"]
  /\ lost = [t \in Targets |-> FALSE]
  /\ overlapped = FALSE
  /\ streak = [t \in Targets |-> 0]
  /\ crashes = 0

Goto(p, label) == pc' = [pc EXCEPT ![p] = label]

----------------------------------------------------------------------------
\* applyProbe.

AfterProbe_KeptTally(prev, healthy) ==
  LET failures == Upto(prev.failures + 1)
  IN  IF healthy THEN [prev EXCEPT !.status = "ok"]
      ELSE [status |-> IF failures >= Threshold THEN "down" ELSE prev.status,
            failures |-> failures]

\* One healthy probe clears a target; Threshold unhealthy ones in a row bring it down.
AfterProbe(prev, healthy) ==
  LET failures == Upto(prev.failures + 1)
  IN  IF healthy THEN Unseen
      ELSE [status |-> IF failures >= Threshold THEN "down" ELSE prev.status,
            failures |-> failures]

Alerts_EveryFailure(before, after) ==
  {a \in Alert : /\ a.says = after[a.target].status
                 /\ a.says = "down" \/ before[a.target].status = "down"}

Alerts_IncidentsOnly(before, after) ==
  {a \in Alert : /\ a.says = "down"
                 /\ after[a.target].status = "down"
                 /\ before[a.target].status = "ok"}

Alerts_OneForAll(before, after) ==
  LET changed == {a \in Alert : /\ a.says = after[a.target].status
                                /\ a.says # before[a.target].status}
  IN  IF changed = {} THEN {} ELSE {CHOOSE a \in changed : TRUE}

\* The transitions of a sweep: eventFor of each.
Alerts(before, after) ==
  {a \in Alert : /\ a.says = after[a.target].status
                 /\ a.says # before[a.target].status}

----------------------------------------------------------------------------
\* A sweep.

\* loadState, before the first await.
LoadState(p) ==
  /\ pc[p] = "idle"
  /\ state' = [state EXCEPT ![p] = file]
  /\ overlapped' = (overlapped \/ \E q \in Procs : pc[q] # "idle")
  /\ Goto(p, "probe")
  /\ UNCHANGED <<up, file, found, pending, heard, lost, streak, crashes>>

\* Promise.all of the probes.  Probes of different targets have nothing in common,
\* so they may as well be one step.
ProbeTargets(p) ==
  /\ pc[p] = "probe"
  /\ found' = [found EXCEPT ![p] = up]
  /\ Goto(p, "decide")
  /\ UNCHANGED <<up, file, state, pending, heard, lost, overlapped, streak, crashes>>

\* What the results lead to, and saveState, which is writeFileSync: it truncates the
\* file ...
Decide(p) ==
  /\ pc[p] = "decide"
  /\ LET next == [t \in Targets |-> AfterProbe(state[p][t], found[p][t])]
     IN  /\ state' = [state EXCEPT ![p] = next]
         /\ pending' = [pending EXCEPT ![p] = Alerts(state[p], next)]
  /\ streak' = [t \in Targets |-> IF found[p][t] THEN 0 ELSE Upto(streak[t] + 1)]
  /\ file' = EmptyState
  /\ Goto(p, "write")
  /\ UNCHANGED <<up, found, heard, lost, overlapped, crashes>>

Spoken(alerts) == {a.target : a \in alerts}

\* ... and fills it.  With --no-alert the alerts are printed and forgotten.
WriteFile(p) ==
  /\ pc[p] = "write"
  /\ file' = state[p]
  /\ \/ /\ p \in Quiet \/ pending[p] = {}
        /\ pending' = [pending EXCEPT ![p] = {}]
        /\ lost' = [t \in Targets |-> lost[t] \/ t \in Spoken(pending[p])]
        /\ Goto(p, "idle")
     \/ /\ pending[p] # {}
        /\ UNCHANGED <<pending, lost>>
        /\ Goto(p, "send")
  /\ UNCHANGED <<up, state, found, heard, overlapped, streak, crashes>>

\* dispatchAlert: the sinks fail one by one and nothing is thrown; an alert that no
\* sink took is not sent again.
Dispatch(p, a, reached) ==
  /\ pc[p] = "send"
  /\ a \in pending[p]
  /\ pending' = [pending EXCEPT ![p] = @ \ {a}]
  /\ heard' = [heard EXCEPT ![a.target] = IF reached THEN a.says ELSE @]
  /\ lost' = [lost EXCEPT ![a.target] = ~ reached]
  /\ Goto(p, IF pending[p] = {a} THEN "idle" ELSE "send")
  /\ UNCHANGED <<up, file, state, found, overlapped, streak, crashes>>

\* The process is killed, or its write fails, and it starts over with the next sweep.
\* Alerts whose transition is in the file are lost with it.
Crash(p) ==
  /\ pc[p] \in CrashPoints
  /\ crashes < MaxCrashes
  /\ crashes' = crashes + 1
  /\ lost' = [t \in Targets |-> lost[t] \/ (pc[p] = "send" /\ t \in Spoken(pending[p]))]
  /\ pending' = [pending EXCEPT ![p] = {}]
  /\ Goto(p, "idle")
  /\ UNCHANGED <<up, file, state, found, heard, overlapped, streak>>

\* The world: a target goes down or comes back.
Flip(t) ==
  /\ up' = [up EXCEPT ![t] = ~ @]
  /\ UNCHANGED <<file, pc, state, found, pending, heard, lost, overlapped, streak, crashes>>

Send(p) == \E a \in Alert, reached \in BOOLEAN : Dispatch(p, a, reached)

Continue(p) == ProbeTargets(p) \/ Decide(p) \/ WriteFile(p) \/ Send(p)

Sweep(p) == LoadState(p) \/ Continue(p)

Next ==
  \/ \E p \in Procs : Sweep(p) \/ Crash(p)
  \/ \E t \in Targets : Flip(t)

\* watchLoop starts another sweep after every sweep, failed or not; every probe and
\* every request of a dispatch ends, with a timeout if need be.  Nobody has to start a
\* `run`.
Fairness ==
  /\ \A p \in Procs : WF_vars(Continue(p))
  /\ \A p \in Loops : WF_vars(LoadState(p))

Spec == Init /\ [][Next]_vars /\ Fairness
----------------------------------------------------------------------------
TypeOK ==
  /\ up \in [Targets -> BOOLEAN]
  /\ file \in [Targets -> TargetState]
  /\ pc \in [Procs -> Labels]
  /\ state \in [Procs -> [Targets -> TargetState]]
  /\ found \in [Procs -> [Targets -> BOOLEAN]]
  /\ pending \in [Procs -> SUBSET Alert]
  /\ heard \in [Targets -> Statuses]
  /\ lost \in [Targets -> BOOLEAN]
  /\ overlapped \in BOOLEAN
  /\ streak \in [Targets -> 0 .. Threshold]
  /\ crashes \in Nat

\* The three that follow are about sweeps one after the other, of whichever process:
\* the state file is read and written without a lock, and sweeps that overlap may each
\* tell of one change, or of none.

\* Alerts tell of changes: an alert about to be sent never repeats what the last
\* alert for the target said, unless one in between was lost or kept quiet.  A restart,
\* or another process, does not alert again for a target that is known to be down.
AlertsAlternate ==
  ~ overlapped => \A p \in Procs : pc[p] = "send" =>
    \A a \in pending[p] : lost[a.target] \/ heard[a.target] # a.says

\* What people were told is what the file remembers, between sweeps: a transition is
\* not committed without its alert being sent, but for --no-alert, a kill or a failure
\* of every sink, and none is sent without being committed.
HeardIsRemembered ==
  ~ overlapped /\ (\A p \in Procs : pc[p] \notin {"write", "send"}) =>
    \A t \in Targets : lost[t] \/ heard[t] = file[t].status

\* A transient blip never pages: an incident follows Threshold unhealthy results in a
\* row, also across restarts and processes.
NoBlipPages ==
  ~ overlapped => \A p \in Procs : \A a \in pending[p] :
    a.says = "down" => streak[a.target] = Threshold

Health(t) == IF up[t] THEN "ok" ELSE "down"

\* A target that stays as it is ends up being known as it is, unless the alert for it
\* was lost or kept quiet, or sweeps overlapped.
HeardEventually ==
  []~ overlapped =>
    \A t \in Targets : \A s \in Statuses :
      <>[](Health(t) = s) => <>[](heard[t] = s \/ lost[t])
=============================================================================
