------------------------------ MODULE Lockout -------------------------------
(***************************************************************************)
(* The failure counter of src/core/lockout.ts: one entry for a scope and   *)
(* an address, a fixed window that starts at the first failure, and a      *)
(* lockout that starts at the failure past the limit.  The functions of    *)
(* the code work on a Map; these say what they make of one entry of it.    *)
(***************************************************************************)
EXTENDS Naturals

CONSTANTS
  FailureLimit,  \* FAILURE_LIMIT
  Window,        \* WINDOW_MS
  LockoutTime    \* LOCKOUT_MS

ASSUME LockoutAssumption ==
  /\ FailureLimit \in Nat \ {0}
  /\ Window \in Nat \ {0}
  /\ LockoutTime \in Nat \ {0}

\* lockedUntil is 0 when the entry is not locked.
Entry == [count : Nat, resetAt : Nat, lockedUntil : Nat]

NoEntry == [count |-> 0, resetAt |-> 0, lockedUntil |-> 0]

HasLock(e) == e.lockedUntil # 0

\* What isLockedOut answers at time t ...
IsLocked(e, t) == HasLock(e) /\ t < e.lockedUntil

Outlived(e, t) == IF HasLock(e) THEN t >= e.lockedUntil ELSE t >= e.resetAt

\* ... and what it leaves of the entry.
AfterCheck(e, t) == IF Outlived(e, t) THEN NoEntry ELSE e

Opened(t) == [count |-> 1, resetAt |-> t + Window, lockedUntil |-> 0]

AfterFailure_LateLock(e, t) ==
  IF e = NoEntry \/ (~HasLock(e) /\ t >= e.resetAt)
  THEN Opened(t)
  ELSE [count |-> e.count + 1,
        resetAt |-> e.resetAt,
        lockedUntil |-> IF e.count > FailureLimit THEN t + LockoutTime ELSE e.lockedUntil]

\* recordFailure does not ask whether a lockout is over: a late failure adds to
\* the entry of the lockout and starts it anew.
AfterFailure(e, t) ==
  IF e = NoEntry \/ (~HasLock(e) /\ t >= e.resetAt)
  THEN Opened(t)
  ELSE [count |-> e.count + 1,
        resetAt |-> e.resetAt,
        lockedUntil |-> IF e.count + 1 > FailureLimit THEN t + LockoutTime ELSE e.lockedUntil]
=============================================================================
