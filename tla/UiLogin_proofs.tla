--------------------------- MODULE UiLogin_proofs ---------------------------
(***************************************************************************)
(* Proofs about UiLogin, for every number of addresses, logins in flight   *)
(* and tokens, every limit and every setting of the session rules.         *)
(***************************************************************************)
EXTENDS UiLogin, FiniteSetTheorems, TLAPS

USE LockoutAssumption, UiLoginAssumption

LEMMA NoValuesTyped ==
  /\ NoCall \in Calls
  /\ NoEntry \in Entry
  BY DEF NoCall, Calls, NoEntry, Entry

\* The functions of the lockout keep an entry an entry.
LEMMA EntryTyped ==
  ASSUME NEW e \in Entry, NEW t \in Nat
  PROVE  AfterCheck(e, t) \in Entry /\ AfterFailure(e, t) \in Entry
  BY DEF AfterCheck, AfterFailure, Opened, NoEntry, Entry

\* A failure never ends a lockout.
LEMMA FailureKeepsLock ==
  ASSUME NEW e \in Entry, NEW t \in Nat, IsLocked(e, t)
  PROVE  /\ IsLocked(AfterFailure(e, t), t)
         /\ AfterFailure(e, t).lockedUntil \in {e.lockedUntil, t + LockoutTime}
  BY DEF AfterFailure, IsLocked, HasLock, NoEntry, Entry

\* The lock of an entry after a failure is the lock it had, or one that starts now.
LEMMA FailureLocks ==
  ASSUME NEW e \in Entry, NEW t \in Nat, HasLock(AfterFailure(e, t))
  PROVE  \/ HasLock(e) /\ AfterFailure(e, t).lockedUntil = e.lockedUntil
         \/ AfterFailure(e, t).lockedUntil = t + LockoutTime
  BY DEF AfterFailure, Opened, HasLock, NoEntry, Entry

\* An entry that the gate lets through has no lock left.
LEMMA CheckUnlocks ==
  ASSUME NEW e \in Entry, NEW t \in Nat, ~ IsLocked(e, t)
  PROVE  ~ HasLock(AfterCheck(e, t))
  BY DEF AfterCheck, Outlived, IsLocked, HasLock, NoEntry, Entry

-----------------------------------------------------------------------------

FailuresTyped ==
  /\ fails \in [Ips -> SUBSET Marks]
  /\ \A ip \in Ips : IsFiniteSet(fails[ip])

LEMMA CountedTyped ==
  ASSUME FailuresTyped, now \in Times, NEW ip \in Ips, Counted(ip)
  PROVE  FailuresTyped'
<1> DEFINE mark == <<now, Cardinality(fails[ip]) + 1>>
<1>1. mark \in Marks
  BY FS_CardinalityType DEF FailuresTyped, Marks
<1>2. IsFiniteSet(fails[ip] \cup {mark})
  BY FS_AddElement DEF FailuresTyped
<1>3. fails' = [fails EXCEPT ![ip] = fails[ip] \cup {mark}]
  BY DEF Counted, Marked
<1> HIDE DEF mark
<1>4. QED
  BY <1>1, <1>2, <1>3 DEF FailuresTyped

LEMMA TypeInit == Init => TypeOK
  BY NoValuesTyped, FS_EmptySet
     DEF Init, TypeOK, Times, NoSession, Unissued

LEMMA TypeStep == TypeOK /\ [Next]_vars => TypeOK'
<1> SUFFICES ASSUME TypeOK, [Next]_vars PROVE TypeOK'
  OBVIOUS
<1> USE NoValuesTyped
<1>1. now \in Times /\ now \in Nat /\ ttls.absolute \in Nat /\ ttls.idle \in Nat
  BY DEF TypeOK, Times
<1>0. FailuresTyped
  BY DEF TypeOK, FailuresTyped
<1>2. ASSUME NEW r \in Requests, NEW ip \in Ips, NEW ok \in BOOLEAN, StartLogin(r, ip, ok)
      PROVE  TypeOK'
  <2>1. [ip |-> ip, ok |-> ok, since |-> now] \in Calls
    BY <1>1 DEF Calls
  <2>2. QED
    BY <1>1, <1>2, <2>1, EntryTyped DEF StartLogin, Admit, sessionVars, TypeOK
<1>3. ASSUME NEW ip \in Ips, EmptyLogin(ip)
      PROVE  TypeOK'
  <2>1. AfterFailure(AfterCheck(buckets[ip], now), now) \in Entry
    BY <1>1, EntryTyped DEF TypeOK
  <2>2. FailuresTyped'
    BY <1>0, <1>1, <1>3, CountedTyped DEF EmptyLogin
  <2>3. QED
    BY <1>3, <2>1, <2>2 DEF FailuresTyped, EmptyLogin, sessionVars, TypeOK
<1>4. ASSUME NEW r \in Requests, RejectLogin(r)
      PROVE  TypeOK'
  <2>1. calls[r].ip \in Ips
    BY <1>4 DEF RejectLogin, Calls, TypeOK
  <2>2. AfterFailure(buckets[calls[r].ip], now) \in Entry
    BY <1>1, <2>1, EntryTyped DEF TypeOK
  <2>3. FailuresTyped'
    BY <1>0, <1>1, <1>4, <2>1, CountedTyped DEF RejectLogin
  <2>4. QED
    BY <1>4, <2>1, <2>2, <2>3 DEF FailuresTyped, RejectLogin, sessionVars, TypeOK
<1>5. ASSUME NEW r \in Requests, AcceptLogin(r)
      PROVE  TypeOK'
  <2>1. buckets' \in [Ips -> Entry] /\ FailuresTyped'
    BY <1>0, <1>5, FS_EmptySet DEF AcceptLogin, Cleared, FailuresTyped, TypeOK
  <2>2. ExpiresAt(now) \in Nat
    BY <1>1 DEF ExpiresAt, Never
  <2>3. \A t : Minted(t) \in [Tokens -> [expires : Nat, seen : Times]]
    BY <1>1, <2>2 DEF Minted, NoSession, Times, TypeOK
  <2>4. issue' \in [Tokens -> [at : 0 .. MaxTime + 1, ceiling : Nat]]
    BY <1>1, <1>5 DEF AcceptLogin, Times, TypeOK
  <2>5. QED
    BY <1>5, <2>1, <2>3, <2>4 DEF FailuresTyped, AcceptLogin, TypeOK
<1>6. ASSUME NEW t \in Tokens, Inspect(t) \/ Logout(t)
      PROVE  TypeOK'
  <2>1. sessions' \in [Tokens -> [expires : Nat, seen : Times]]
    <3> DEFINE Rows == [expires : Nat, seen : Times]
    <3>1. NoSession \in Rows /\ Touched(sessions[t]) \in Rows
      <4>1. 0 \in Times
        BY DEF Times
      <4>2. sessions[t] \in Rows
        BY DEF TypeOK
      <4>3. \A row \in Rows : [row EXCEPT !.seen = now] \in Rows
        BY <1>1
      <4>4. QED
        BY <4>1, <4>2, <4>3 DEF NoSession, Touched
    <3>2. \/ sessions' = [sessions EXCEPT ![t] = NoSession]
          \/ sessions' = [sessions EXCEPT ![t] = Touched(sessions[t])]
      BY <1>6 DEF Inspect, Logout, AfterRejection
    <3>3. sessions \in [Tokens -> Rows]
      BY DEF TypeOK
    <3> HIDE DEF Rows
    <3>4. sessions' \in [Tokens -> Rows]
      BY <3>1, <3>2, <3>3
    <3>5. QED
      BY <3>4 DEF Rows
  <2>2. over' \in [Tokens -> {"no", "logout", "refused"}]
    BY <1>6 DEF Inspect, Logout, TypeOK
  <2>3. QED
    BY <1>6, <2>1, <2>2 DEF Inspect, Logout, lockoutVars, TypeOK
<1>7. CASE SetPassword \/ Tick
  <2>1. now' \in Times
    BY <1>1, <1>7 DEF SetPassword, Tick, Times
  <2>2. FailuresTyped'
    BY <1>0, <1>7, FS_Subset DEF SetPassword, Tick, lockoutVars, FailuresTyped
  <2>3. QED
    BY <1>7, <2>1, <2>2 DEF FailuresTyped, SetPassword, Tick, lockoutVars, sessionVars, TypeOK
<1>8. CASE Restart
  BY <1>8, FS_EmptySet DEF Restart, sessionVars, TypeOK
<1>9. CASE UNCHANGED vars
  BY <1>9 DEF vars, lockoutVars, sessionVars, TypeOK
<1>10. QED
  BY <1>2, <1>3, <1>4, <1>5, <1>6, <1>7, <1>8, <1>9 DEF Next

\* Every variable keeps its type, the clock its bound.
THEOREM LoginTypeCorrect == Spec => []TypeOK
  BY TypeInit, TypeStep, PTL DEF Spec

-----------------------------------------------------------------------------
(***************************************************************************)
(* The lockout.  A login that waits for its hash started before the last   *)
(* failure that locked its address, because the gate is shut after it.     *)
(***************************************************************************)

WaitingBeforeLock ==
  \A r \in Requests :
    LET e == buckets[calls[r].ip]
    IN  calls[r] # NoCall /\ HasLock(e) => calls[r].since + LockoutTime <= e.lockedUntil

\* A waiting login started in the past.
WaitingInPast == \A r \in Requests : calls[r] # NoCall => calls[r].since <= now

LockInv == WaitingBeforeLock /\ WaitingInPast

\* A step after which no entry is locked anew, with no login begun.
LEMMA LockKept ==
  ASSUME TypeOK, TypeOK', LockInv, now <= now',
         \A r \in Requests : calls'[r] \in {calls[r], NoCall},
         \A ip \in Ips : HasLock(buckets'[ip]) =>
           \/ HasLock(buckets[ip]) /\ buckets'[ip].lockedUntil = buckets[ip].lockedUntil
           \/ buckets'[ip].lockedUntil = now + LockoutTime
  PROVE  LockInv'
<1>1. \A r \in Requests : calls[r] # NoCall =>
        calls[r].ip \in Ips /\ calls[r].since \in Nat /\ now \in Nat /\ now' \in Nat
  BY DEF TypeOK, Calls, Times
<1>2. QED
  BY <1>1 DEF LockInv, WaitingBeforeLock, WaitingInPast

LEMMA LockStep == TypeOK /\ TypeOK' /\ LockInv /\ [Next]_vars => LockInv'
<1> SUFFICES ASSUME TypeOK, TypeOK', LockInv, [Next]_vars PROVE LockInv'
  OBVIOUS
<1>1. now \in Nat /\ now' \in Nat /\ now <= now
  BY DEF TypeOK, Times
<1>2. ASSUME NEW r \in Requests, NEW ip \in Ips, NEW ok \in BOOLEAN, StartLogin(r, ip, ok)
      PROVE  LockInv'
  <2> DEFINE call == [ip |-> ip, ok |-> ok, since |-> now]
  <2>1. call.ip = ip /\ call.since = now
    OBVIOUS
  <2>2. /\ calls' = [calls EXCEPT ![r] = call] /\ now' = now
        /\ buckets' = [buckets EXCEPT ![ip] = AfterCheck(@, now)]
        /\ ~ IsLocked(buckets[ip], now)
    BY <1>2 DEF StartLogin, Admit, Refuses
  <2> HIDE DEF call
  <2>3. buckets[ip] \in Entry
    BY DEF TypeOK
  <2>4. /\ ~ HasLock(buckets'[ip])
        /\ \A i \in Ips : i # ip => buckets'[i] = buckets[i]
    BY <1>1, <2>2, <2>3, CheckUnlocks DEF TypeOK
  <2>5. /\ calls'[r] = call
        /\ \A q \in Requests : q # r => calls'[q] = calls[q]
    BY <2>2 DEF TypeOK
  <2>6. \A q \in Requests : calls[q] # NoCall => calls[q].ip \in Ips
    BY DEF TypeOK, Calls
  <2>7. WaitingBeforeLock'
    BY <2>1, <2>4, <2>5, <2>6 DEF LockInv, WaitingBeforeLock
  <2>8. WaitingInPast'
    BY <1>1, <2>1, <2>2, <2>5 DEF LockInv, WaitingInPast
  <2>9. QED
    BY <2>7, <2>8 DEF LockInv
<1>3. ASSUME NEW ip \in Ips, EmptyLogin(ip)
      PROVE  LockInv'
  <2> DEFINE e == AfterCheck(buckets[ip], now)
  <2>1. e \in Entry /\ ~ HasLock(e)
    BY <1>1, <1>3, EntryTyped, CheckUnlocks DEF EmptyLogin, Refuses, TypeOK
  <2>2. buckets' = [buckets EXCEPT ![ip] = AfterFailure(e, now)] /\ UNCHANGED <<now, calls>>
    BY <1>3 DEF EmptyLogin
  <2> HIDE DEF e
  <2>3. HasLock(AfterFailure(e, now)) => AfterFailure(e, now).lockedUntil = now + LockoutTime
    BY <1>1, <2>1, FailureLocks
  <2>4. \A i \in Ips : HasLock(buckets'[i]) =>
          \/ HasLock(buckets[i]) /\ buckets'[i].lockedUntil = buckets[i].lockedUntil
          \/ buckets'[i].lockedUntil = now + LockoutTime
    BY <2>2, <2>3 DEF TypeOK
  <2>5. QED
    BY <1>1, <2>2, <2>4, LockKept
<1>4. ASSUME NEW r \in Requests, RejectLogin(r)
      PROVE  LockInv'
  <2> DEFINE ip == calls[r].ip
  <2>1. /\ buckets' = [buckets EXCEPT ![ip] = AfterFailure(@, now)]
        /\ calls' = [calls EXCEPT ![r] = NoCall] /\ now' = now
    BY <1>4 DEF RejectLogin
  <2>2. \A i \in Ips : buckets'[i] = buckets[i]
          \/ (buckets[i] \in Entry /\ buckets'[i] = AfterFailure(buckets[i], now))
    BY <2>1 DEF TypeOK
  <2>3. \A i \in Ips : HasLock(buckets'[i]) =>
          \/ HasLock(buckets[i]) /\ buckets'[i].lockedUntil = buckets[i].lockedUntil
          \/ buckets'[i].lockedUntil = now + LockoutTime
    BY <1>1, <2>2, FailureLocks
  <2>4. \A q \in Requests : calls'[q] \in {calls[q], NoCall}
    BY <2>1 DEF TypeOK
  <2>5. QED
    BY <1>1, <2>1, <2>3, <2>4, LockKept
<1>5. ASSUME NEW r \in Requests, AcceptLogin(r)
      PROVE  LockInv'
  <2>1. /\ buckets' = [buckets EXCEPT ![calls[r].ip] = NoEntry]
        /\ calls' = [calls EXCEPT ![r] = NoCall] /\ now' = now
    BY <1>5 DEF AcceptLogin, Cleared
  <2>2. \A i \in Ips : buckets'[i] \in {buckets[i], NoEntry}
    BY <2>1 DEF TypeOK
  <2>3. ~ HasLock(NoEntry)
    BY DEF HasLock, NoEntry
  <2>4. \A q \in Requests : calls'[q] \in {calls[q], NoCall}
    BY <2>1 DEF TypeOK
  <2>5. QED
    BY <1>1, <2>1, <2>2, <2>3, <2>4, LockKept
<1>6. CASE Restart
  <2>1. ~ HasLock(NoEntry)
    BY DEF HasLock, NoEntry
  <2>2. QED
    BY <1>1, <1>6, <2>1, LockKept DEF Restart
<1>7. CASE Tick
  BY <1>1, <1>7, LockKept DEF Tick, lockoutVars, Times
<1>8. ASSUME \/ \E t \in Tokens : Inspect(t) \/ Logout(t)
             \/ SetPassword
             \/ UNCHANGED vars
      PROVE  LockInv'
  BY <1>1, <1>8, LockKept DEF Inspect, Logout, SetPassword, vars, lockoutVars
<1>9. QED
  BY <1>2, <1>3, <1>4, <1>5, <1>6, <1>7, <1>8 DEF Next

LEMMA LockInvariance == Spec => [](TypeOK /\ LockInv)
<1>1. Init => LockInv
  BY DEF Init, LockInv, WaitingBeforeLock, WaitingInPast
<1>2. TypeOK /\ LockInv /\ [Next]_vars => (TypeOK /\ LockInv)'
  BY TypeStep, LockStep
<1>3. QED
  BY <1>1, <1>2, TypeInit, PTL DEF Spec

\* The condition of LockoutHolds for one address.
EndsInTime(ip) ==
  LET e == buckets[ip]
  IN  IsLocked(e, now) /\ ~ IsLocked(buckets'[ip], now') =>
        \/ now' >= e.lockedUntil
        \/ restarts' # restarts
        \/ \E r \in Requests :
             /\ calls[r] # NoCall /\ calls'[r] = NoCall
             /\ calls[r].ip = ip /\ calls[r].ok
             /\ calls[r].since + LockoutTime <= e.lockedUntil

\* Nothing ends a lockout early but a restart or the success of a login that was
\* already past the gate when it began.
THEOREM LoginLockoutHolds == Spec => LockoutHolds
<1>1. ASSUME TypeOK, LockInv, [Next]_vars, NEW ip \in Ips
      PROVE  EndsInTime(ip)
  <2> SUFFICES ASSUME IsLocked(buckets[ip], now), ~ IsLocked(buckets'[ip], now'),
                      ~ (now' >= buckets[ip].lockedUntil), restarts' = restarts
               PROVE  \E r \in Requests :
                        /\ calls[r] # NoCall /\ calls'[r] = NoCall
                        /\ calls[r].ip = ip /\ calls[r].ok
                        /\ calls[r].since + LockoutTime <= buckets[ip].lockedUntil
    BY Zenon DEF EndsInTime
  <2>1. now \in Nat /\ buckets[ip] \in Entry
    BY <1>1 DEF TypeOK, Times
  <2>2. buckets'[ip] # buckets[ip]
    <3>0. TypeOK'
      BY <1>1, TypeStep
    <3>1. now' \in Nat
      BY <3>0 DEF TypeOK, Times
    <3>2. now' < buckets[ip].lockedUntil
      BY <2>1, <3>1 DEF Entry
    <3>3. QED
      BY <3>2 DEF IsLocked
  <2>3. ASSUME NEW r \in Requests, NEW i \in Ips, NEW ok \in BOOLEAN, StartLogin(r, i, ok)
        PROVE  FALSE
    <3>1. ~ IsLocked(buckets[i], now) /\ buckets' = [buckets EXCEPT ![i] = AfterCheck(@, now)]
      BY <2>3 DEF StartLogin, Admit, Refuses
    <3>2. i # ip /\ \A k \in Ips : k # i => buckets'[k] = buckets[k]
      BY <1>1, <3>1 DEF TypeOK
    <3>3. QED
      BY <2>2, <3>2
  <2>4. ASSUME NEW i \in Ips, EmptyLogin(i)
        PROVE  FALSE
    BY <1>1, <2>2, <2>4 DEF EmptyLogin, Refuses, TypeOK
  <2>5. ASSUME NEW r \in Requests, RejectLogin(r)
        PROVE  FALSE
    <3>1. buckets'[ip] = AfterFailure(buckets[ip], now) /\ now' = now
      BY <1>1, <2>2, <2>5 DEF RejectLogin, TypeOK
    <3>2. QED
      BY <2>1, <3>1, FailureKeepsLock
  <2>6. ASSUME NEW r \in Requests, AcceptLogin(r)
        PROVE  /\ calls[r] # NoCall /\ calls'[r] = NoCall
               /\ calls[r].ip = ip /\ calls[r].ok
               /\ calls[r].since + LockoutTime <= buckets[ip].lockedUntil
    <3>1. /\ calls[r] # NoCall /\ calls[r].ok /\ calls'[r] = NoCall
          /\ calls[r].ip = ip
      BY <1>1, <2>2, <2>6 DEF AcceptLogin, Cleared, TypeOK
    <3>2. HasLock(buckets[ip])
      BY DEF IsLocked
    <3>3. QED
      BY <1>1, <3>1, <3>2 DEF LockInv, WaitingBeforeLock
  <2>7. ~ Restart
    <3>1. restarts \in Nat
      BY <1>1 DEF TypeOK
    <3>2. QED
      BY <3>1 DEF Restart
  <2>8. QED
    BY <1>1, <2>2, <2>3, <2>4, <2>5, <2>6, <2>7
       DEF Next, vars, lockoutVars, Tick, SetPassword, Inspect, Logout
<1>2. TypeOK /\ LockInv /\ [Next]_vars => [\A ip \in Ips : EndsInTime(ip)]_vars
  BY <1>1
<1>3. [][\A ip \in Ips : EndsInTime(ip)]_vars => LockoutHolds
  BY DEF EndsInTime, LockoutHolds
<1>4. QED
  BY <1>2, <1>3, LockInvariance, PTL DEF Spec

-----------------------------------------------------------------------------
(***************************************************************************)
(* The sessions.  A row keeps the end it was given when its token was      *)
(* minted, and only minting writes a row for a token that has none.        *)
(***************************************************************************)

EndOf(i) == IF i.ceiling > 0 THEN i.at + i.ceiling ELSE Never

RowOK(t) ==
  sessions[t] # NoSession =>
    /\ issue[t] # Unissued
    /\ sessions[t].expires = EndOf(issue[t])
    /\ sessions[t].seen < sessions[t].expires

\* A token that was refused or logged out was minted and has no row.
OverOK(t) == over[t] # "no" => issue[t] # Unissued /\ sessions[t] = NoSession

SessionInv == \A t \in Tokens : RowOK(t) /\ OverOK(t)

LEMMA SessionStep == TypeOK /\ SessionInv /\ [Next]_vars => SessionInv'
<1> SUFFICES ASSUME TypeOK, SessionInv, [Next]_vars, NEW t \in Tokens
             PROVE  RowOK(t)' /\ OverOK(t)'
  BY DEF SessionInv
<1>1. /\ now \in Nat /\ now <= MaxTime /\ Never = MaxTime + 1
      /\ ttls.absolute \in Nat
      /\ RowOK(t) /\ OverOK(t)
  BY DEF TypeOK, Times, Never, SessionInv
<1>2. ASSUME NEW r \in Requests, AcceptLogin(r)
      PROVE  RowOK(t)' /\ OverOK(t)'
  <2>1. PICK new \in Tokens :
          /\ issue[new] = Unissued
          /\ sessions' = Minted(new)
          /\ issue' = [issue EXCEPT ![new] = [at |-> now, ceiling |-> ttls.absolute]]
    BY <1>2 DEF AcceptLogin
  <2>2. UNCHANGED over
    BY <1>2 DEF AcceptLogin
  <2>3. CASE t = new
    <3>1. sessions'[t] = [expires |-> ExpiresAt(now), seen |-> now]
      BY <2>1, <2>3 DEF Minted
    <3>2. issue'[t] = [at |-> now, ceiling |-> ttls.absolute]
      BY <2>1, <2>3 DEF TypeOK
    <3>3. /\ sessions'[t].expires = EndOf(issue'[t])
          /\ sessions'[t].seen < sessions'[t].expires
      BY <1>1, <3>1, <3>2 DEF ExpiresAt, EndOf
    <3>4. issue'[t] # Unissued
      <4>1. issue'[t].at = now /\ Unissued.at = MaxTime + 1
        BY <3>2 DEF Unissued
      <4>2. QED
        BY <1>1, <4>1
    <3>5. over'[t] = "no"
      BY <1>1, <2>1, <2>2, <2>3 DEF OverOK
    <3>6. QED
      BY <3>3, <3>4, <3>5 DEF RowOK, OverOK, Never
  <2>4. CASE t # new
    <3>1. sessions'[t] \in {sessions[t], NoSession} /\ issue'[t] = issue[t]
      BY <2>1, <2>4 DEF Minted, TypeOK
    <3>2. QED
      BY <1>1, <2>2, <3>1 DEF RowOK, OverOK, Never
  <2>5. QED
    BY <2>3, <2>4
<1>3. ASSUME NEW s \in Tokens, Inspect(s)
      PROVE  RowOK(t)' /\ OverOK(t)'
  <2>1. UNCHANGED issue /\ issue[s] # Unissued
    BY <1>3 DEF Inspect
  <2>2. CASE t # s
    <3>1. sessions'[t] = sessions[t] /\ over'[t] = over[t]
      BY <1>3, <2>2 DEF Inspect, AfterRejection, TypeOK
    <3>2. QED
      BY <1>1, <2>1, <3>1 DEF RowOK, OverOK
  <2>3. CASE t = s
    <3>1. CASE sessions[s] # NoSession /\ ~ Expired(sessions[s]) /\ ~ IsIdle(sessions[s])
      <4>1. sessions'[t] = [sessions[t] EXCEPT !.seen = now] /\ over'[t] = over[t]
        BY <1>3, <2>3, <3>1 DEF Inspect, Touched, TypeOK
      <4>2. sessions[t] \in [expires : Nat, seen : Times]
        BY DEF TypeOK
      <4>3. sessions'[t].expires = sessions[t].expires /\ sessions'[t].seen = now
        BY <4>1, <4>2
      <4>4. now < sessions[t].expires
        BY <1>1, <2>3, <3>1, <4>2 DEF Expired
      <4>5. over[t] = "no"
        BY <1>1, <2>3, <3>1 DEF OverOK
      <4>6. QED
        BY <1>1, <2>1, <2>3, <3>1, <4>1, <4>3, <4>4, <4>5 DEF RowOK, OverOK
    <3>2. CASE ~ (sessions[s] # NoSession /\ ~ Expired(sessions[s]) /\ ~ IsIdle(sessions[s]))
      <4>1. sessions'[t] = NoSession
        BY <1>3, <2>3, <3>2 DEF Inspect, AfterRejection, TypeOK
      <4>2. QED
        BY <2>1, <2>3, <4>1 DEF RowOK, OverOK
    <3>3. QED
      BY <3>1, <3>2
  <2>4. QED
    BY <2>2, <2>3
<1>4. ASSUME NEW s \in Tokens, Logout(s)
      PROVE  RowOK(t)' /\ OverOK(t)'
  <2>1. UNCHANGED issue /\ issue[s] # Unissued
    BY <1>4 DEF Logout
  <2>2. IF t = s THEN sessions'[t] = NoSession
                 ELSE sessions'[t] = sessions[t] /\ over'[t] = over[t]
    BY <1>4 DEF Logout, TypeOK
  <2>3. QED
    BY <1>1, <2>1, <2>2 DEF RowOK, OverOK
<1>5. CASE UNCHANGED sessionVars
  BY <1>1, <1>5 DEF RowOK, OverOK, sessionVars
<1>6. QED
  BY <1>2, <1>3, <1>4, <1>5
     DEF Next, vars, sessionVars, StartLogin, EmptyLogin, RejectLogin, SetPassword, Restart, Tick

LEMMA SessionInvariance == Spec => [](TypeOK /\ SessionInv)
<1>1. Init => SessionInv
  BY DEF Init, SessionInv, RowOK, OverOK
<1>2. QED
  BY <1>1, TypeInit, TypeStep, SessionStep, PTL DEF Spec

\* No session is used past the ceiling it was issued under.
THEOREM LoginCeilingKept == Spec => []CeilingKept
<1>1. TypeOK /\ SessionInv => CeilingKept
  <2> SUFFICES ASSUME TypeOK, SessionInv, NEW t \in Tokens,
                      sessions[t] # NoSession, issue[t].ceiling > 0
               PROVE  sessions[t].seen < issue[t].at + issue[t].ceiling
    BY DEF CeilingKept
  <2>1. RowOK(t)
    BY DEF SessionInv
  <2>2. QED
    BY <2>1 DEF RowOK, EndOf
<1>2. QED
  BY <1>1, SessionInvariance, PTL

\* A token once refused is refused for good.
THEOREM LoginRefusedForGood == Spec => []RefusedForGood
<1>1. SessionInv => RefusedForGood
  BY DEF SessionInv, OverOK, RefusedForGood
<1>2. QED
  BY <1>1, SessionInvariance, PTL

\* The condition of SessionsSurvive for one token.
EndsByRule(t) ==
  sessions[t] # NoSession /\ sessions'[t] = NoSession =>
    \/ over'[t] = "logout"
    \/ issue[t].ceiling > 0 /\ now >= issue[t].at + issue[t].ceiling
    \/ IsIdle(sessions[t])

\* A session ends by its own logout or by a rule of time.
THEOREM LoginSessionsSurvive == Spec => SessionsSurvive
<1>1. ASSUME TypeOK, SessionInv, [Next]_vars, NEW t \in Tokens
      PROVE  EndsByRule(t)
  <2> SUFFICES ASSUME sessions[t] # NoSession, sessions'[t] = NoSession
               PROVE  \/ over'[t] = "logout"
                      \/ issue[t].ceiling > 0 /\ now >= issue[t].at + issue[t].ceiling
                      \/ IsIdle(sessions[t])
    BY DEF EndsByRule
  <2>1. now \in Nat /\ now <= MaxTime /\ RowOK(t)
    BY <1>1 DEF TypeOK, Times, SessionInv
  <2>2. ASSUME Expired(sessions[t])
        PROVE  issue[t].ceiling > 0 /\ now >= issue[t].at + issue[t].ceiling
    BY <2>1, <2>2 DEF Expired, RowOK, EndOf, Never
  <2>3. ASSUME NEW r \in Requests, AcceptLogin(r)
        PROVE  Expired(sessions[t])
    <3>1. PICK new \in Tokens : issue[new] = Unissued /\ sessions' = Minted(new)
      BY <2>3 DEF AcceptLogin
    <3>2. t # new
      BY <2>1, <3>1 DEF RowOK
    <3>3. QED
      BY <3>1, <3>2 DEF Minted
  <2>4. ASSUME NEW s \in Tokens, Inspect(s)
        PROVE  Expired(sessions[t]) \/ IsIdle(sessions[t])
    <3>1. s = t
      BY <1>1, <2>4 DEF Inspect, AfterRejection, TypeOK
    <3>2. ASSUME ~ Expired(sessions[t]), ~ IsIdle(sessions[t])
          PROVE  FALSE
      <4>1. sessions'[t] = Touched(sessions[t])
        BY <1>1, <2>4, <3>1, <3>2 DEF Inspect, TypeOK
      <4>2. sessions[t] \in [expires : Nat, seen : Times]
        BY <1>1 DEF TypeOK
      <4>3. sessions'[t].expires = sessions[t].expires /\ NoSession.expires = 0
        BY <4>1, <4>2 DEF Touched, NoSession
      <4>4. 0 < sessions[t].expires
        BY <2>1, <3>2, <4>2 DEF Expired
      <4>5. QED
        BY <4>3, <4>4
    <3>3. QED
      BY <3>2
  <2>5. ASSUME NEW s \in Tokens, Logout(s)
        PROVE  over'[t] = "logout"
    BY <1>1, <2>5 DEF Logout, TypeOK
  <2>6. QED
    BY <1>1, <2>2, <2>3, <2>4, <2>5
       DEF Next, vars, sessionVars, StartLogin, EmptyLogin, RejectLogin, SetPassword, Restart,
           Tick
<1>2. TypeOK /\ SessionInv /\ [Next]_vars => [\A t \in Tokens : EndsByRule(t)]_vars
  BY <1>1
<1>3. [][\A t \in Tokens : EndsByRule(t)]_vars => SessionsSurvive
  BY DEF EndsByRule, SessionsSurvive
<1>4. QED
  BY <1>2, <1>3, SessionInvariance, PTL DEF Spec

-----------------------------------------------------------------------------
(***************************************************************************)
(* The number of guesses.  What the lockout entry of an address says of    *)
(* the failures of the last window: an open window has counted all that    *)
(* came since it began, and those before it are fewer than the limit,      *)
(* because a window that ran out did so below the limit and its first      *)
(* failure is forgotten by then.  Once the address is locked, a failure is *)
(* paid for by a login that waited.                                        *)
(***************************************************************************)

Few(S, n) == Cardinality(S) <= n

\* The failures that came since the window of e opened, before it, and after its first moment.
Since(F, e) == {m \in F : e.resetAt <= m[1] + Window}

Earlier(F, e) == {m \in F : m[1] + Window < e.resetAt}

Later(F, e) == {m \in F : e.resetAt < m[1] + Window}

Limit == FailureLimit - 1

OpenAccount(F, e, t) ==
  /\ e.count \in 1 .. FailureLimit
  /\ e.resetAt <= t + Window
  /\ \A m \in F : m[1] < e.resetAt
  /\ Few(Earlier(F, e), Limit) /\ Few(Since(F, e), e.count) /\ Few(Later(F, e), e.count - 1)

LockedAccount(F, e, waiting) ==
  /\ e.count > FailureLimit
  /\ \A m \in F : m[1] + LockoutTime <= e.lockedUntil
  /\ Cardinality(F) + waiting <= 2 * FailureLimit + Cardinality(Requests)

Account(F, e, t, waiting) ==
  /\ \A m \in F : m[1] <= t /\ t < m[1] + Window
  /\ IF e = NoEntry THEN Few(F, Limit) /\ \A m \in F : m[1] < t
     ELSE IF HasLock(e) THEN LockedAccount(F, e, waiting)
     ELSE OpenAccount(F, e, t)

LEMMA LimitNumber == Limit \in Nat
  BY DEF Limit

\* A part of few is few.
LEMMA FewParts ==
  ASSUME NEW S, IsFiniteSet(S), NEW T \in SUBSET S, NEW n \in Nat, Few(S, n)
  PROVE  IsFiniteSet(T) /\ Few(T, n)
<1>1. IsFiniteSet(T) /\ Cardinality(T) <= Cardinality(S)
  BY FS_Subset
<1>2. Cardinality(T) \in Nat /\ Cardinality(S) \in Nat
  BY <1>1, FS_CardinalityType
<1>3. QED
  BY <1>1, <1>2 DEF Few

LEMMA FewMore ==
  ASSUME NEW S, IsFiniteSet(S), NEW n \in Nat, Few(S, n), NEW x, NEW T, T \subseteq S \cup {x}
  PROVE  IsFiniteSet(T) /\ Few(T, n + 1)
<1>1. IsFiniteSet(S \cup {x})
  BY FS_AddElement
<1>2. Cardinality(S \cup {x}) = Cardinality(S) \/ Cardinality(S \cup {x}) = Cardinality(S) + 1
  BY FS_AddElement
<1>3. Cardinality(S) \in Nat
  BY FS_CardinalityType
<1>4. Few(S \cup {x}, n + 1)
  BY <1>2, <1>3 DEF Few
<1>5. QED
  BY <1>1, <1>4, FewParts

LEMMA FewTogether ==
  ASSUME NEW S, NEW T, IsFiniteSet(S), IsFiniteSet(T), NEW m \in Nat, NEW n \in Nat,
         Few(S, m), Few(T, n)
  PROVE  Few(S \cup T, m + n)
<1>1. Cardinality(S \cup T) = Cardinality(S) + Cardinality(T) - Cardinality(S \cap T)
  BY FS_Union
<1>2. IsFiniteSet(S \cap T)
  BY FS_Intersection
<1>3. /\ Cardinality(S) \in Nat /\ Cardinality(T) \in Nat /\ Cardinality(S \cap T) \in Nat
  BY <1>2, FS_CardinalityType
<1>4. QED
  BY <1>1, <1>3 DEF Few

\* An open window ends below the limit: what is left of it then is few enough.
LEMMA OpenTotal ==
  ASSUME NEW F \in SUBSET Marks, IsFiniteSet(F), NEW e \in Entry, NEW t, OpenAccount(F, e, t)
  PROVE  Few(F, 2 * FailureLimit - 1)
<1>1. F = Earlier(F, e) \cup Since(F, e)
  BY DEF Earlier, Since, Marks, Times, Entry
<1>2. IsFiniteSet(Earlier(F, e)) /\ IsFiniteSet(Since(F, e))
  BY FS_Subset DEF Earlier, Since
<1>3. /\ Few(Earlier(F, e), Limit) /\ Few(Since(F, e), e.count)
      /\ Limit \in Nat /\ e.count \in Nat /\ e.count <= FailureLimit
  BY DEF OpenAccount, Limit
<1>4. Few(Earlier(F, e) \cup Since(F, e), Limit + e.count)
  BY <1>2, <1>3, FewTogether
<1>5. Few(F, Limit + e.count) /\ Cardinality(F) \in Nat
  BY <1>1, <1>4, FS_CardinalityType
<1>6. QED
  BY <1>3, <1>5 DEF Few, Limit

\* What isLockedOut leaves of an entry that it lets through.
LEMMA CheckAccount ==
  ASSUME NEW F \in SUBSET Marks, IsFiniteSet(F), NEW e \in Entry, NEW t \in Times,
         NEW w, NEW u, Account(F, e, t, w), ~ IsLocked(e, t)
  PROVE  Account(F, AfterCheck(e, t), t, u)
<1>0. t \in Nat /\ \A m \in F : m[1] \in Nat
  BY DEF Times, Marks
<1>1. CASE e = NoEntry
  BY <1>1 DEF Account, AfterCheck
<1>2. CASE e # NoEntry /\ HasLock(e)
  <2>1. e.lockedUntil \in Nat /\ t >= e.lockedUntil /\ AfterCheck(e, t) = NoEntry
    BY <1>0, <1>2 DEF IsLocked, AfterCheck, Outlived, Entry
  <2>2. ASSUME NEW m \in F PROVE FALSE
    <3>1. m[1] + LockoutTime <= e.lockedUntil /\ t < m[1] + Window
      BY <1>2, <2>2 DEF Account, LockedAccount
    <3>2. QED
      BY <1>0, <2>1, <3>1
  <2>3. F = {}
    BY <2>2
  <2>4. Few(F, Limit)
    BY <2>3, FS_EmptySet DEF Few, Limit
  <2>5. QED
    BY <2>1, <2>3, <2>4 DEF Account
<1>3. CASE e # NoEntry /\ ~ HasLock(e)
  <2>1. OpenAccount(F, e, t)
    BY <1>3 DEF Account
  <2>2. CASE t >= e.resetAt
    <3>1. AfterCheck(e, t) = NoEntry
      BY <1>3, <2>2 DEF AfterCheck, Outlived
    <3>2. F = Later(F, e) /\ \A m \in F : m[1] < t
      BY <1>0, <2>1, <2>2 DEF Account, Later, OpenAccount, Entry
    <3>3. Few(F, e.count - 1) /\ e.count \in 1 .. FailureLimit
      BY <2>1, <3>2 DEF OpenAccount
    <3>4. Cardinality(F) \in Nat
      BY FS_CardinalityType
    <3>5. Few(F, Limit)
      BY <3>3, <3>4 DEF Few, Limit
    <3>6. QED
      BY <3>1, <3>2, <3>5 DEF Account
  <2>3. CASE ~ (t >= e.resetAt)
    BY <1>3, <2>1, <2>3 DEF Account, AfterCheck, Outlived
  <2>4. QED
    BY <2>2, <2>3
<1>4. QED
  BY <1>1, <1>2, <1>3

\* The first failure of a window: what came before it is forgotten or few.
LEMMA FirstAccount ==
  ASSUME NEW F \in SUBSET Marks, IsFiniteSet(F), NEW t \in Times, NEW i \in Nat, NEW w,
         Few(F, Limit), \A m \in F : m[1] < t /\ t < m[1] + Window
  PROVE  Account(F \cup {<<t, i>>}, Opened(t), t, w)
<1> DEFINE x == <<t, i>>
           e == Opened(t)
<1>0. t \in Nat /\ x[1] = t /\ \A m \in F : m[1] \in Nat
  BY DEF Times, Marks
<1>1. e.count = 1 /\ e.resetAt = t + Window /\ e # NoEntry /\ ~ HasLock(e)
  BY DEF Opened, NoEntry, HasLock
<1> HIDE DEF x, e
<1>2. Earlier(F \cup {x}, e) \subseteq F
  BY <1>0, <1>1 DEF Earlier
<1>3. Since(F \cup {x}, e) \subseteq {x} /\ Later(F \cup {x}, e) = {}
  BY <1>0, <1>1 DEF Since, Later
<1>4. Few(Earlier(F \cup {x}, e), Limit)
  BY <1>2, LimitNumber, FewParts
<1>5. Few(Since(F \cup {x}, e), 1) /\ Few(Later(F \cup {x}, e), 0)
  <2>1. IsFiniteSet({}) /\ Few({}, 0)
    BY FS_EmptySet DEF Few
  <2>2. Since(F \cup {x}, e) \subseteq {} \cup {x} /\ 0 \in Nat
    BY <1>3
  <2>3. Few(Since(F \cup {x}, e), 0 + 1)
    BY <2>1, <2>2, FewMore
  <2>4. 0 + 1 = 1
    OBVIOUS
  <2>5. QED
    BY <1>3, <2>1, <2>3, <2>4
<1>6. OpenAccount(F \cup {x}, e, t)
  BY <1>0, <1>1, <1>4, <1>5 DEF OpenAccount
<1>7. \A m \in F \cup {x} : m[1] <= t /\ t < m[1] + Window
  BY <1>0
<1>8. Account(F \cup {x}, e, t, w)
  BY <1>1, <1>6, <1>7 DEF Account
<1>9. QED
  BY <1>8 DEF x, e

\* A failure of an entry that is not locked.
LEMMA FailureAccount ==
  ASSUME NEW F \in SUBSET Marks, IsFiniteSet(F), NEW e \in Entry, NEW t \in Times, NEW i \in Nat,
         NEW w, NEW u \in 0 .. Cardinality(Requests), Account(F, e, t, w), ~ HasLock(e)
  PROVE  Account(F \cup {<<t, i>>}, AfterFailure(e, t), t, u)
<1>0. t \in Nat /\ \A m \in F : m[1] \in Nat
  BY DEF Times, Marks
<1>1. CASE e = NoEntry \/ t >= e.resetAt
  <2>1. AfterFailure(e, t) = Opened(t)
    BY <1>1 DEF AfterFailure
  <2>2. ~ IsLocked(e, t) /\ AfterCheck(e, t) = NoEntry
    BY <1>1 DEF IsLocked, AfterCheck, Outlived
  <2>3. Account(F, NoEntry, t, w)
    BY <2>2, CheckAccount
  <2>4. Few(F, Limit) /\ \A m \in F : m[1] < t /\ t < m[1] + Window
    BY <2>3 DEF Account
  <2>5. QED
    BY <2>1, <2>4, FirstAccount
<1>2. CASE e # NoEntry /\ ~ (t >= e.resetAt)
  <2> DEFINE x == <<t, i>>
             f == AfterFailure(e, t)
             G == F \cup {x}
  <2>1. /\ OpenAccount(F, e, t) /\ t < e.resetAt /\ e.resetAt \in Nat /\ e.resetAt <= t + Window
        /\ e.count \in Nat /\ e.count <= FailureLimit /\ 1 <= e.count
    BY <1>0, <1>2 DEF Account, OpenAccount, Entry
  <2>2. x[1] = t
    OBVIOUS
  <2>3. /\ f.count = e.count + 1 /\ f.resetAt = e.resetAt
        /\ f.lockedUntil = IF e.count + 1 > FailureLimit THEN t + LockoutTime ELSE 0
    BY <1>2 DEF AfterFailure, HasLock
  <2> HIDE DEF x, f
  <2>4. f # NoEntry
    BY <2>1, <2>3 DEF NoEntry
  <2>5. \A m \in G : m[1] <= t /\ t < m[1] + Window /\ m[1] \in Nat
    BY <1>0, <2>2 DEF Account
  <2>6. CASE e.count < FailureLimit
    <3>1. ~ HasLock(f)
      BY <2>1, <2>3, <2>6 DEF HasLock
    <3>2. /\ Earlier(G, f) \subseteq Earlier(F, e)
          /\ Since(G, f) \subseteq Since(F, e) \cup {x}
          /\ Later(G, f) \subseteq Later(F, e) \cup {x}
      BY <1>0, <2>1, <2>2, <2>3 DEF Earlier, Since, Later
    <3>3. /\ Few(Earlier(F, e), Limit) /\ Few(Since(F, e), e.count) /\ Few(Later(F, e), e.count - 1)
          /\ Limit \in Nat /\ e.count - 1 \in Nat
      BY <2>1 DEF OpenAccount, Limit
    <3>4. IsFiniteSet(Earlier(F, e)) /\ IsFiniteSet(Since(F, e)) /\ IsFiniteSet(Later(F, e))
      BY FS_Subset DEF Earlier, Since, Later
    <3>5. Few(Earlier(G, f), Limit)
      BY <3>2, <3>3, <3>4, FewParts
    <3>6. Few(Since(G, f), e.count + 1)
      BY <2>1, <3>2, <3>3, <3>4, FewMore
    <3>7. Few(Later(G, f), (e.count - 1) + 1)
      BY <3>2, <3>3, <3>4, FewMore
    <3>8. \A m \in G : m[1] < f.resetAt
      BY <2>1, <2>2, <2>3 DEF OpenAccount
    <3>9. /\ f.count \in 1 .. FailureLimit /\ f.resetAt <= t + Window
          /\ Few(Since(G, f), f.count) /\ Few(Later(G, f), f.count - 1)
      BY <2>1, <2>3, <2>6, <3>6, <3>7
    <3>10. OpenAccount(G, f, t)
      BY <3>5, <3>8, <3>9 DEF OpenAccount
    <3> HIDE DEF G
    <3>11. Account(G, f, t, u)
      BY <2>4, <2>5, <3>1, <3>10 DEF Account
    <3>12. QED
      BY <3>11 DEF G, f, x
  <2>7. CASE ~ (e.count < FailureLimit)
    <3>1. f.count > FailureLimit /\ f.lockedUntil = t + LockoutTime
      BY <2>1, <2>3, <2>7
    <3>2. HasLock(f)
      BY <1>0, <3>1 DEF HasLock
    <3>3. PICK n \in Nat : n = 2 * FailureLimit - 1
      OBVIOUS
    <3>0. Few(F, n) /\ G \subseteq F \cup {x}
      BY <2>1, <3>3, OpenTotal
    <3>4. Few(G, n + 1) /\ IsFiniteSet(G)
      BY <3>0, FewMore
    <3>5. Cardinality(G) \in Nat /\ Cardinality(Requests) \in Nat /\ u \in Nat /\ u <= Cardinality(Requests)
      BY <3>4, FS_CardinalityType
    <3>6. Cardinality(G) + u <= 2 * FailureLimit + Cardinality(Requests)
      BY <3>3, <3>4, <3>5 DEF Few
    <3>7. \A m \in G : m[1] + LockoutTime <= f.lockedUntil
      BY <1>0, <2>5, <3>1
    <3>8. LockedAccount(G, f, u)
      BY <3>1, <3>6, <3>7 DEF LockedAccount
    <3> HIDE DEF G
    <3>9. Account(G, f, t, u)
      BY <2>4, <2>5, <3>2, <3>8 DEF Account
    <3>10. QED
      BY <3>9 DEF G, f, x
  <2>8. QED
    BY <2>6, <2>7
<1>3. QED
  BY <1>1, <1>2

\* A failure of an entry that is locked: one login fewer waits.
LEMMA LateAccount ==
  ASSUME NEW F \in SUBSET Marks, IsFiniteSet(F), NEW e \in Entry, NEW t \in Times, NEW i \in Nat,
         NEW u \in Nat, Account(F, e, t, u + 1), HasLock(e)
  PROVE  Account(F \cup {<<t, i>>}, AfterFailure(e, t), t, u)
<1> DEFINE x == <<t, i>>
           f == AfterFailure(e, t)
           G == F \cup {x}
<1>0. t \in Nat /\ x[1] = t /\ \A m \in F : m[1] \in Nat
  BY DEF Times, Marks
<1>1. LockedAccount(F, e, u + 1) /\ e # NoEntry /\ e.count > FailureLimit /\ e.count \in Nat
  BY DEF Account, LockedAccount, HasLock, NoEntry, Entry
<1>2. f.count > FailureLimit /\ f.lockedUntil = t + LockoutTime
  BY <1>1 DEF AfterFailure
<1> HIDE DEF x, f
<1>3. f # NoEntry /\ HasLock(f)
  BY <1>0, <1>2 DEF NoEntry, HasLock
<1>4. \A m \in G : m[1] <= t /\ t < m[1] + Window /\ m[1] \in Nat
  BY <1>0 DEF Account
<1>5. Cardinality(F) \in Nat /\ Cardinality(Requests) \in Nat
  BY FS_CardinalityType
<1>6. Few(G, Cardinality(F) + 1) /\ IsFiniteSet(G)
  <2>1. Few(F, Cardinality(F)) /\ G \subseteq F \cup {x}
    BY <1>5 DEF Few
  <2>2. QED
    BY <1>5, <2>1, FewMore
<1>7. Cardinality(G) \in Nat
  BY <1>6, FS_CardinalityType
<1>8. Cardinality(G) + u <= 2 * FailureLimit + Cardinality(Requests)
  BY <1>1, <1>5, <1>6, <1>7 DEF LockedAccount, Few
<1>9. \A m \in G : m[1] + LockoutTime <= f.lockedUntil
  BY <1>0, <1>2, <1>4
<1>10. LockedAccount(G, f, u)
  BY <1>2, <1>8, <1>9 DEF LockedAccount
<1> HIDE DEF G
<1>11. Account(G, f, t, u)
  BY <1>3, <1>4, <1>10 DEF Account
<1>12. QED
  BY <1>11 DEF G, f, x

\* The clock goes on, and what is a window old is forgotten.
LEMMA AgedAccount ==
  ASSUME NEW F \in SUBSET Marks, IsFiniteSet(F), NEW e \in Entry, NEW t \in Times, NEW w \in Nat,
         NEW s, s = t + 1, Account(F, e, t, w)
  PROVE  Account({m \in F : m[1] + Window > s}, e, s, w)
<1> DEFINE G == {m \in F : m[1] + Window > s}
<1>0. t \in Nat /\ \A m \in F : m[1] \in Nat
  BY DEF Times, Marks
<1>1. \A m \in G : m \in F /\ m[1] <= s /\ s < m[1] + Window
  BY <1>0 DEF Account
<1>2. G \in SUBSET F
  OBVIOUS
<1> SUFFICES Account(G, e, s, w)
  OBVIOUS
<1> HIDE DEF G
<1>3. CASE e = NoEntry
  <2>1. Few(F, Limit) /\ \A m \in F : m[1] < t
    BY <1>3 DEF Account
  <2>2. Few(G, Limit)
    BY <1>2, <2>1, LimitNumber, FewParts
  <2>3. \A m \in G : m[1] < s
    BY <1>0, <1>1, <2>1
  <2>4. QED
    BY <1>1, <1>3, <2>2, <2>3 DEF Account
<1>4. CASE e # NoEntry /\ HasLock(e)
  <2>1. Cardinality(G) <= Cardinality(F)
    BY <1>2, FS_Subset
  <2>2. /\ IsFiniteSet(G) /\ Cardinality(G) \in Nat /\ Cardinality(F) \in Nat
        /\ Cardinality(Requests) \in Nat
    BY <1>2, FS_Subset, FS_CardinalityType
  <2>3. LockedAccount(G, e, w)
    BY <1>1, <1>4, <2>1, <2>2 DEF Account, LockedAccount
  <2>4. QED
    BY <1>1, <1>4, <2>3 DEF Account
<1>5. CASE e # NoEntry /\ ~ HasLock(e)
  <2>1. OpenAccount(F, e, t) /\ e.resetAt \in Nat
    BY <1>5 DEF Account, Entry
  <2>2. /\ Earlier(G, e) \in SUBSET Earlier(F, e) /\ Since(G, e) \in SUBSET Since(F, e)
        /\ Later(G, e) \in SUBSET Later(F, e)
    BY <1>2 DEF Earlier, Since, Later
  <2>3. IsFiniteSet(Earlier(F, e)) /\ IsFiniteSet(Since(F, e)) /\ IsFiniteSet(Later(F, e))
    BY FS_Subset DEF Earlier, Since, Later
  <2>4. /\ Few(Earlier(F, e), Limit) /\ Few(Since(F, e), e.count) /\ Few(Later(F, e), e.count - 1)
        /\ Limit \in Nat /\ e.count \in Nat /\ e.count - 1 \in Nat
    BY <2>1 DEF OpenAccount, Limit
  <2>5. /\ Few(Earlier(G, e), Limit) /\ Few(Since(G, e), e.count) /\ Few(Later(G, e), e.count - 1)
    BY <2>2, <2>3, <2>4, FewParts
  <2>6. OpenAccount(G, e, s)
    BY <1>0, <1>1, <2>1, <2>5 DEF OpenAccount
  <2>7. QED
    BY <1>1, <1>5, <2>6 DEF Account
<1>6. QED
  BY <1>3, <1>4, <1>5

\* What an account implies of the number, whatever the entry says.
LEMMA AccountBound ==
  ASSUME NEW F \in SUBSET Marks, IsFiniteSet(F), NEW e \in Entry, NEW t, NEW w \in Nat, Account(F, e, t, w)
  PROVE  Few(F, 2 * FailureLimit + Cardinality(Requests))
<1>1. Cardinality(F) \in Nat /\ Cardinality(Requests) \in Nat
  BY FS_CardinalityType
<1>2. CASE e = NoEntry
  BY <1>1, <1>2 DEF Account, Few, Limit
<1>3. CASE e # NoEntry /\ HasLock(e)
  BY <1>1, <1>3 DEF Account, LockedAccount, Few
<1>4. CASE e # NoEntry /\ ~ HasLock(e)
  BY <1>1, <1>4, OpenTotal DEF Account, Few
<1>5. QED
  BY <1>2, <1>3, <1>4

\* The logins of an address that will fail.
Waiting(ip) == {r \in Requests : calls[r] # NoCall /\ calls[r].ip = ip /\ ~ calls[r].ok}

Accounted(ip) == Account(fails[ip], buckets[ip], now, Cardinality(Waiting(ip)))

FailuresInv == \A ip \in Ips : Accounted(ip)

LEMMA WaitingNumber ==
  \A ip : IsFiniteSet(Waiting(ip)) /\ Cardinality(Waiting(ip)) \in 0 .. Cardinality(Requests)
<1> TAKE ip
<1>1. IsFiniteSet(Waiting(ip)) /\ Cardinality(Waiting(ip)) <= Cardinality(Requests)
  BY FS_Subset DEF Waiting
<1>2. Cardinality(Waiting(ip)) \in Nat /\ Cardinality(Requests) \in Nat
  BY <1>1, FS_CardinalityType
<1>3. QED
  BY <1>1, <1>2

\* An address that nothing happened to.
LEMMA AccountedKept ==
  ASSUME FailuresInv, NEW ip \in Ips, fails'[ip] = fails[ip], buckets'[ip] = buckets[ip],
         now' = now, Waiting(ip)' = Waiting(ip)
  PROVE  Accounted(ip)'
  BY DEF FailuresInv, Accounted

LEMMA StartLoginAccounts ==
  ASSUME TypeOK, FailuresInv, NEW r \in Requests, NEW ip \in Ips, NEW ok \in BOOLEAN,
         StartLogin(r, ip, ok)
  PROVE  FailuresInv'
<1> DEFINE call == [ip |-> ip, ok |-> ok, since |-> now]
<1>1. /\ calls[r] = NoCall /\ calls' = [calls EXCEPT ![r] = call]
      /\ ~ IsLocked(buckets[ip], now)
      /\ buckets' = [buckets EXCEPT ![ip] = AfterCheck(@, now)] /\ UNCHANGED <<now, fails>>
  BY DEF StartLogin, Admit, Refuses
<1>2. call.ip = ip
  OBVIOUS
<1> HIDE DEF call
<1>3. ASSUME NEW i \in Ips \ {ip}
      PROVE  Accounted(i)'
  <2>1. buckets'[i] = buckets[i] /\ Waiting(i)' = Waiting(i)
    BY <1>1, <1>2 DEF Waiting, TypeOK
  <2>2. QED
    BY <1>1, <2>1, AccountedKept
<1>4. Accounted(ip)'
  <2>1. /\ fails[ip] \in SUBSET Marks /\ IsFiniteSet(fails[ip]) /\ buckets[ip] \in Entry /\ now \in Times
        /\ Account(fails[ip], buckets[ip], now, Cardinality(Waiting(ip)))
    BY DEF TypeOK, FailuresInv, Accounted
  <2>2. \A u : Account(fails[ip], AfterCheck(buckets[ip], now), now, u)
    BY <1>1, <2>1, CheckAccount
  <2>3. buckets'[ip] = AfterCheck(buckets[ip], now)
    BY <1>1 DEF TypeOK
  <2>4. QED
    BY <1>1, <2>2, <2>3 DEF Accounted
<1>5. QED
  BY <1>3, <1>4 DEF FailuresInv

LEMMA EmptyLoginAccounts ==
  ASSUME TypeOK, FailuresInv, NEW ip \in Ips, EmptyLogin(ip)
  PROVE  FailuresInv'
<1> DEFINE e == AfterCheck(buckets[ip], now)
<1>1. /\ ~ IsLocked(buckets[ip], now)
      /\ buckets' = [buckets EXCEPT ![ip] = AfterFailure(e, now)]
      /\ fails' = [fails EXCEPT ![ip] = Marked(@)] /\ UNCHANGED <<now, calls>>
  BY DEF EmptyLogin, Refuses, Counted
<1>2. /\ fails[ip] \in SUBSET Marks /\ IsFiniteSet(fails[ip]) /\ buckets[ip] \in Entry
      /\ now \in Times /\ now \in Nat
      /\ Account(fails[ip], buckets[ip], now, Cardinality(Waiting(ip)))
  BY DEF TypeOK, FailuresInv, Accounted, Times
<1>3. e \in Entry /\ ~ HasLock(e) /\ Account(fails[ip], e, now, 0)
  BY <1>1, <1>2, EntryTyped, CheckUnlocks, CheckAccount
<1> HIDE DEF e
<1>4. \A i \in Ips : Waiting(i)' = Waiting(i)
  BY <1>1 DEF Waiting
<1>5. ASSUME NEW i \in Ips \ {ip}
      PROVE  Accounted(i)'
  BY <1>1, <1>4, AccountedKept DEF TypeOK
<1>6. Accounted(ip)'
  <2>1. Cardinality(fails[ip]) + 1 \in Nat /\ Cardinality(Waiting(ip)) \in 0 .. Cardinality(Requests)
    BY <1>2, FS_CardinalityType, WaitingNumber
  <2>2. Account(fails[ip] \cup {<<now, Cardinality(fails[ip]) + 1>>}, AfterFailure(e, now), now,
                Cardinality(Waiting(ip)))
    BY <1>2, <1>3, <2>1, FailureAccount
  <2>3. /\ buckets'[ip] = AfterFailure(e, now)
        /\ fails'[ip] = fails[ip] \cup {<<now, Cardinality(fails[ip]) + 1>>}
    BY <1>1 DEF Marked, TypeOK
  <2>4. QED
    BY <1>1, <1>4, <2>2, <2>3 DEF Accounted
<1>7. QED
  BY <1>5, <1>6 DEF FailuresInv

LEMMA RejectLoginAccounts ==
  ASSUME TypeOK, FailuresInv, NEW r \in Requests, RejectLogin(r)
  PROVE  FailuresInv'
<1>0. PICK ip \in Ips : ip = calls[r].ip
  BY DEF RejectLogin, TypeOK, Calls
<1>1. /\ calls[r] # NoCall /\ ~ calls[r].ok /\ calls' = [calls EXCEPT ![r] = NoCall]
      /\ buckets' = [buckets EXCEPT ![ip] = AfterFailure(@, now)]
      /\ fails' = [fails EXCEPT ![ip] = Marked(@)] /\ UNCHANGED now
  BY <1>0 DEF RejectLogin, Counted
<1>2. /\ fails[ip] \in SUBSET Marks /\ IsFiniteSet(fails[ip]) /\ buckets[ip] \in Entry
      /\ now \in Times
      /\ Account(fails[ip], buckets[ip], now, Cardinality(Waiting(ip)))
  BY DEF TypeOK, FailuresInv, Accounted
<1>3. ASSUME NEW i \in Ips \ {ip}
      PROVE  Accounted(i)'
  <2>1. buckets'[i] = buckets[i] /\ fails'[i] = fails[i]
    BY <1>1 DEF TypeOK
  <2>2. Waiting(i)' = Waiting(i)
    BY <1>0, <1>1 DEF Waiting, TypeOK
  <2>3. QED
    BY <1>1, <2>1, <2>2, AccountedKept
<1>4. Accounted(ip)'
  <2>1. /\ Waiting(ip)' = Waiting(ip) \ {r} /\ r \in Waiting(ip)
    BY <1>0, <1>1 DEF Waiting, TypeOK
  <2>2. /\ IsFiniteSet(Waiting(ip)) /\ Cardinality(Waiting(ip)) \in 0 .. Cardinality(Requests)
        /\ Cardinality(Requests) \in Nat
    BY WaitingNumber, FS_CardinalityType
  <2>3. IsFiniteSet(Waiting(ip)') /\ Cardinality(Waiting(ip)') = Cardinality(Waiting(ip)) - 1
    BY <2>1, <2>2, FS_RemoveElement
  <2>4. PICK u \in Nat : u = Cardinality(Waiting(ip)')
    BY <2>3, FS_CardinalityType
  <2>5. u \in 0 .. Cardinality(Requests) /\ Cardinality(Waiting(ip)) = u + 1
    BY <2>2, <2>3, <2>4
  <2>6. Cardinality(fails[ip]) + 1 \in Nat
    BY <1>2, FS_CardinalityType
  <2>7. Account(fails[ip], buckets[ip], now, u + 1)
    BY <1>2, <2>5
  <2>8. Account(fails[ip] \cup {<<now, Cardinality(fails[ip]) + 1>>}, AfterFailure(buckets[ip], now), now, u)
    <3>1. CASE HasLock(buckets[ip])
      BY <1>2, <2>6, <2>7, <3>1, LateAccount
    <3>2. CASE ~ HasLock(buckets[ip])
      BY <1>2, <2>5, <2>6, <2>7, <3>2, FailureAccount
    <3>3. QED
      BY <3>1, <3>2
  <2>9. /\ buckets'[ip] = AfterFailure(buckets[ip], now)
        /\ fails'[ip] = fails[ip] \cup {<<now, Cardinality(fails[ip]) + 1>>}
    BY <1>1 DEF Marked, TypeOK
  <2>10. QED
    BY <1>1, <2>4, <2>8, <2>9 DEF Accounted
<1>5. QED
  BY <1>3, <1>4 DEF FailuresInv

\* An address without failures is accounted for.
LEMMA NoFailuresAccount ==
  ASSUME NEW t, NEW w
  PROVE  Account({}, NoEntry, t, w)
  BY FS_EmptySet DEF Account, Few, Limit

LEMMA AccountsStep == TypeOK /\ FailuresInv /\ [Next]_vars => FailuresInv'
<1> SUFFICES ASSUME TypeOK, FailuresInv, [Next]_vars PROVE FailuresInv'
  OBVIOUS
<1>1. ASSUME NEW r \in Requests, AcceptLogin(r)
      PROVE  FailuresInv'
  <2>0. PICK ip \in Ips : ip = calls[r].ip
    BY <1>1 DEF AcceptLogin, TypeOK, Calls
  <2>1. /\ buckets' = [buckets EXCEPT ![ip] = NoEntry] /\ fails' = [fails EXCEPT ![ip] = {}]
        /\ calls' = [calls EXCEPT ![r] = NoCall] /\ calls[r].ok /\ UNCHANGED now
    BY <1>1, <2>0 DEF AcceptLogin, Cleared
  <2>2. ASSUME NEW i \in Ips \ {ip}
        PROVE  Accounted(i)'
    <3>1. buckets'[i] = buckets[i] /\ fails'[i] = fails[i]
      BY <2>1 DEF TypeOK
    <3>2. Waiting(i)' = Waiting(i)
      BY <2>1 DEF Waiting, TypeOK
    <3>3. QED
      BY <2>1, <3>1, <3>2, AccountedKept
  <2>3. buckets'[ip] = NoEntry /\ fails'[ip] = {}
    BY <2>1 DEF TypeOK
  <2>4. Accounted(ip)'
    BY <2>3, NoFailuresAccount DEF Accounted
  <2>5. QED
    BY <2>2, <2>4 DEF FailuresInv
<1>2. CASE Restart
  <2>1. \A ip \in Ips : buckets'[ip] = NoEntry /\ fails'[ip] = {}
    BY <1>2 DEF Restart
  <2>2. ASSUME NEW ip \in Ips PROVE Accounted(ip)'
    <3>1. Account({}, NoEntry, now', Cardinality(Waiting(ip))')
      BY NoFailuresAccount
    <3>2. QED
      BY <2>1, <3>1 DEF Accounted
  <2>3. QED
    BY <2>2 DEF FailuresInv
<1>3. CASE Tick
  <2>1. now' = now + 1 /\ UNCHANGED <<buckets, calls>>
    BY <1>3 DEF Tick
  <2>2. ASSUME NEW ip \in Ips
        PROVE  Accounted(ip)'
    <3>1. fails'[ip] = {m \in fails[ip] : m[1] + Window > now'}
      BY <1>3, <2>1 DEF Tick
    <3>2. /\ fails[ip] \in SUBSET Marks /\ IsFiniteSet(fails[ip]) /\ buckets[ip] \in Entry
          /\ now \in Times /\ Account(fails[ip], buckets[ip], now, Cardinality(Waiting(ip)))
      BY DEF TypeOK, FailuresInv, Accounted
    <3>3. Waiting(ip)' = Waiting(ip) /\ Cardinality(Waiting(ip)) \in Nat
      BY <2>1, WaitingNumber, FS_CardinalityType DEF Waiting
    <3>4. Account({m \in fails[ip] : m[1] + Window > now'}, buckets[ip], now', Cardinality(Waiting(ip)))
      BY <2>1, <3>2, <3>3, AgedAccount
    <3>5. QED
      BY <2>1, <3>1, <3>3, <3>4 DEF Accounted
  <2>3. QED
    BY <2>2 DEF FailuresInv
<1>4. ASSUME \/ \E t \in Tokens : Inspect(t) \/ Logout(t)
             \/ SetPassword
             \/ UNCHANGED vars
      PROVE  FailuresInv'
  <2>1. UNCHANGED <<now, buckets, calls, fails>>
    BY <1>4 DEF Inspect, Logout, SetPassword, vars, lockoutVars
  <2>2. QED
    BY <2>1 DEF FailuresInv, Accounted, Waiting
<1>5. QED
  BY <1>1, <1>2, <1>3, <1>4, StartLoginAccounts, EmptyLoginAccounts, RejectLoginAccounts DEF Next

\* No stretch of one window holds more failed logins of an address than twice the limit
\* and one for each login that can wait for its hash: the gate and the counter are apart.
THEOREM LoginFailuresPerWindow == Spec => []FailuresPerWindow
<1>1. Init => FailuresInv
  BY NoFailuresAccount DEF Init, FailuresInv, Accounted
<1>2. TypeOK /\ FailuresInv => FailuresPerWindow
  <2> SUFFICES ASSUME TypeOK, FailuresInv, NEW ip \in Ips
               PROVE  Cardinality(fails[ip]) <= 2 * FailureLimit + Cardinality(Requests)
    BY DEF FailuresPerWindow
  <2>1. Cardinality(Waiting(ip)) \in Nat
    BY WaitingNumber, FS_CardinalityType
  <2>2. /\ fails[ip] \in SUBSET Marks /\ IsFiniteSet(fails[ip]) /\ buckets[ip] \in Entry
        /\ Account(fails[ip], buckets[ip], now, Cardinality(Waiting(ip)))
    BY DEF TypeOK, FailuresInv, Accounted
  <2>3. Few(fails[ip], 2 * FailureLimit + Cardinality(Requests))
    BY <2>1, <2>2, AccountBound
  <2>4. QED
    BY <2>3 DEF Few
<1>3. QED
  BY <1>1, <1>2, AccountsStep, LoginTypeCorrect, PTL DEF Spec
=============================================================================
