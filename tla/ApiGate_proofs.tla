--------------------------- MODULE ApiGate_proofs ---------------------------
(***************************************************************************)
(* Proofs about ApiGate, and about McpTools, whose steps are steps of it:  *)
(* for any consumers, keys, addresses and secrets, any limits and any      *)
(* number of requests and commands, values reach only whom they may, the   *)
(* windows of the rate limit and of the alerts hold their limits, and only *)
(* wrong keys lock an address out.                                         *)
(***************************************************************************)
EXTENDS McpTools, FiniteSetTheorems, TLAPS

(* No two consumers have one key, and whoever has a barred key is revoked. *)
KeyInv ==
  /\ now \in Times
  /\ consumers \in [Consumers -> Row \cup {NoRow}]
  /\ \A c, d \in Consumers : \A k \in Keys : HasKey(c, k) /\ HasKey(d, k) => c = d
  /\ \A c \in Consumers : \A k \in barred : HasKey(c, k) => ~ consumers[c].active

LEMMA KeyStart == Init => KeyInv
<1> SUFFICES ASSUME Init PROVE KeyInv
  OBVIOUS
<1>1. PICK k \in Keys : consumers = [c \in Consumers |-> IF c = Admin THEN InitialRow(k) ELSE NoRow]
  BY DEF Init
<1>2. now \in Times /\ barred = {}
  BY ApiGateAssumption DEF Init, Times
<1>3. InitialRow(k) \in Row
  BY ApiGateAssumption DEF InitialRow, Row, Never
<1>4. \A c \in Consumers : consumers[c] # NoRow => c = Admin
  BY <1>1
<1>5. QED
  BY <1>1, <1>2, <1>3, <1>4 DEF KeyInv, HasKey

LEMMA HolderHasKey ==
  ASSUME NEW k \in Keys, NEW c \in Consumers, Caller(k, c)
  PROVE  HasKey(c, k)
  BY DEF Caller, Standing, HolderOf

LEMMA Unchanged == KeyInv /\ UNCHANGED <<now, consumers, barred>> => KeyInv'
  BY DEF KeyInv, HasKey

\* The hooks touch what the server remembers of callers, and the request itself.
LEMMA CallKeeps ==
  ASSUME NEW ip \in Ips, NEW k \in Keys, NEW c \in Consumers, Call(ip, k, c)
  PROVE  UNCHANGED <<now, consumers, secrets, recent, barred, sent, changes, fails>>
  BY DEF Call, Throttled, Report, Begin, Admitted, Authenticated, Enter, Received

\* A handler leaves that alone.
LEMMA HandlerKeeps ==
  ASSUME NEW r \in Requests, Handler(r)
  PROVE  UNCHANGED <<now, consumers, barred, changes, gate>>
  BY DEF Handler, Reply, Refuse, ParseBatch, ListEnv, GetSecret, FindVersion, GrantVersion,
         DeleteSecret, CreateSecret, UpdateSecret, Serve, Handle

LEMMA KeyStep == KeyInv /\ [Next]_vars => KeyInv'
<1> SUFFICES ASSUME KeyInv, [Next]_vars PROVE KeyInv'
  OBVIOUS
<1>1. ASSUME NEW ip \in Ips, NoKey(ip) PROVE KeyInv'
  BY <1>1, Unchanged DEF NoKey, Enter, Received
<1>2. ASSUME NEW ip \in Ips, NEW k \in Keys, BadKey(ip, k) PROVE KeyInv'
  BY <1>2, Unchanged DEF BadKey, Enter, Received
<1>3. ASSUME NEW ip \in Ips, NEW k \in Keys, NEW c \in Consumers, Call(ip, k, c) PROVE KeyInv'
  BY <1>3, CallKeeps, Unchanged
<1>4. ASSUME NEW c \in Consumers, NEW k \in Keys, NEW admin \in BOOLEAN, NEW expires \in Expiries,
             AddConsumer(c, k, admin, expires)
      PROVE  KeyInv'
  <2> DEFINE row == [key |-> k, admin |-> admin, active |-> TRUE, expires |-> expires]
  <2>1. consumers' = [consumers EXCEPT ![c] = row] /\ barred' = barred /\ now' = now
    BY <1>4 DEF AddConsumer, Command
  <2>2. row \in Row
    BY ApiGateAssumption DEF Row, Never
  <2>3. k \notin barred /\ \A d \in Consumers : ~ HasKey(d, k)
    BY <1>4 DEF AddConsumer, IsFresh
  <2>4. QED
    BY <2>1, <2>2, <2>3 DEF KeyInv, HasKey
<1>5. ASSUME NEW c \in Consumers, RevokeConsumer(c) PROVE KeyInv'
  <2>1. /\ consumers' = [consumers EXCEPT ![c].active = FALSE]
        /\ barred' = barred \cup {consumers[c].key} /\ now' = now /\ consumers[c] # NoRow
    BY <1>5 DEF RevokeConsumer, Command
  <2>2. consumers[c] \in Row
    BY <2>1 DEF KeyInv
  <2>3. consumers'[c] \in Row /\ consumers'[c].key = consumers[c].key /\ ~ consumers'[c].active
    BY <2>1, <2>2 DEF Row, KeyInv
  <2>4. \A d \in Consumers \ {c} : consumers'[d] = consumers[d]
    BY <2>1 DEF KeyInv
  <2>5. \A d \in Consumers : \A k \in Keys : HasKey(d, k)' => HasKey(d, k)
    BY <2>1, <2>3, <2>4 DEF HasKey
  <2>6. consumers[c].key \in Keys /\ HasKey(c, consumers[c].key)
    BY <2>1, <2>2 DEF Row, HasKey
  <2>7. \A d \in Consumers : \A k \in barred' : HasKey(d, k)' => ~ consumers'[d].active
    BY <2>1, <2>3, <2>4, <2>6 DEF KeyInv, HasKey
  <2>8. consumers' \in [Consumers -> Row \cup {NoRow}]
    BY <2>1, <2>3 DEF KeyInv
  <2>9. QED
    BY <2>1, <2>5, <2>7, <2>8 DEF KeyInv
<1>6. ASSUME NEW c \in Consumers, NEW k \in Keys, NEW expires \in Expiries, RotateKey(c, k, expires)
      PROVE  KeyInv'
  <2>1. /\ consumers' = [consumers EXCEPT ![c] = Rotated(consumers[c], k, expires)]
        /\ barred' = barred \cup {consumers[c].key}
                            \cup (IF consumers[c].key \in barred THEN {k} ELSE {})
        /\ now' = now /\ consumers[c] # NoRow
    BY <1>6 DEF RotateKey, Command
  <2>2. k \notin barred /\ \A d \in Consumers : ~ HasKey(d, k)
    BY <1>6 DEF RotateKey, IsFresh
  <2>3. consumers[c] \in Row
    BY <2>1 DEF KeyInv
  <2>4. /\ consumers'[c] \in Row /\ consumers'[c].key = k
        /\ consumers'[c].active = consumers[c].active
    BY <2>1, <2>3, ApiGateAssumption DEF Rotated, Row, Never, KeyInv
  <2>5. \A d \in Consumers \ {c} : consumers'[d] = consumers[d]
    BY <2>1 DEF KeyInv
  <2>6. consumers[c].key \in Keys /\ HasKey(c, consumers[c].key)
    BY <2>1, <2>3 DEF Row, HasKey
  <2>7. \A d, e \in Consumers : \A j \in Keys : HasKey(d, j)' /\ HasKey(e, j)' => d = e
    BY <2>2, <2>4, <2>5 DEF KeyInv, HasKey
  <2>8. ASSUME NEW d \in Consumers, NEW j \in barred', HasKey(d, j)' PROVE ~ consumers'[d].active
    <3>1. CASE d = c
      <4>1. j = k
        BY <2>4, <2>8, <3>1 DEF HasKey
      <4>2. consumers[c].key \in barred
        BY <2>1, <2>2, <2>6, <4>1
      <4>3. QED
        BY <2>4, <2>6, <3>1, <4>2 DEF KeyInv
    <3>2. CASE d # c
      <4>1. HasKey(d, j) /\ consumers'[d] = consumers[d]
        BY <2>5, <2>8, <3>2 DEF HasKey
      <4>2. j # consumers[c].key
        BY <2>6, <3>2, <4>1 DEF KeyInv
      <4>3. j # k
        BY <2>2, <4>1
      <4>4. j \in barred
        BY <2>1, <4>2, <4>3
      <4>5. QED
        BY <4>1, <4>4 DEF KeyInv
    <3>3. QED
      BY <3>1, <3>2
  <2>9. consumers' \in [Consumers -> Row \cup {NoRow}]
    BY <2>1, <2>4 DEF KeyInv
  <2>10. QED
    BY <2>1, <2>7, <2>8, <2>9 DEF KeyInv
<1>7. CASE Restart
  BY <1>7, Unchanged DEF Restart
<1>8. CASE Tick
  <2>1. now' = now + 1 /\ now < MaxTime /\ UNCHANGED <<consumers, barred>>
    BY <1>8 DEF Tick
  <2>2. now' \in Times
    BY <2>1, ApiGateAssumption DEF KeyInv, Times
  <2>3. QED
    BY <2>1, <2>2 DEF KeyInv, HasKey
<1>9. CASE UNCHANGED vars
  BY <1>9, Unchanged DEF vars
<1>10. CASE PassBy
  BY <1>10, Unchanged DEF PassBy, Received
<1>11. ASSUME NEW r \in Requests, Handler(r) PROVE KeyInv'
  BY <1>11, HandlerKeeps, Unchanged
<1>12. ASSUME NEW n \in Secrets, NEW granted \in Grants, NEW newValue \in BOOLEAN,
              DeleteLocally(n) \/ SetLocally(n, granted, newValue)
       PROVE  KeyInv'
  BY <1>12, Unchanged DEF DeleteLocally, SetLocally, Command
<1>13. ASSUME NEW n \in Secrets, DeleteLocally(n) PROVE KeyInv'
  BY <1>13, Unchanged DEF DeleteLocally, Command
<1>14. QED
  BY <1>1, <1>2, <1>3, <1>4, <1>5, <1>6, <1>7, <1>8, <1>9, <1>10, <1>11, <1>12, <1>13
     DEF Next, Administer

-----------------------------------------------------------------------------
\* Counting marks.

LEMMA MarksAdded ==
  ASSUME NEW S \in SUBSET Marks, IsFiniteSet(S), NEW t \in Times, NEW n \in Nat
  PROVE  /\ MarkedAt(S, t, n) \in SUBSET Marks
         /\ IsFiniteSet(MarkedAt(S, t, n))
         /\ Cardinality(MarkedAt(S, t, n)) <= Cardinality(S) + n
<1> DEFINE mark == [i \in 1 .. n |-> <<t, Cardinality(S) + i>>]
           new == {<<t, Cardinality(S) + i>> : i \in 1 .. n}
<1>1. Cardinality(S) \in Nat
  BY FS_CardinalityType
<1>2. mark \in Surjection(1 .. n, new)
  BY DEF Surjection
<1>3. IsFiniteSet(1 .. n) /\ Cardinality(1 .. n) = n
  BY FS_Interval
<1>4. IsFiniteSet(new) /\ Cardinality(new) <= n
  <2> HIDE DEF mark, new
  <2>1. QED
    BY <1>2, <1>3, FS_Surjection
<1>5. MarkedAt(S, t, n) = S \cup new
  BY DEF MarkedAt
<1>6. new \in SUBSET Marks
  BY <1>1 DEF Marks
<1>7. IsFiniteSet(S \cup new) /\ Cardinality(S \cup new) <= Cardinality(S) + n
  <2> HIDE DEF mark, new
  <2>1. /\ IsFiniteSet(S \cup new)
        /\ Cardinality(S \cup new) = Cardinality(S) + Cardinality(new) - Cardinality(S \cap new)
    BY <1>4, FS_Union
  <2>2. Cardinality(new) \in Nat /\ Cardinality(S \cap new) \in Nat
    BY <1>4, FS_Intersection, FS_CardinalityType
  <2>3. QED
    BY <1>1, <1>4, <2>1, <2>2
<1>8. QED
  BY <1>5, <1>6, <1>7

LEMMA OneMark ==
  ASSUME NEW S
  PROVE  Marked(S) = S \cup {<<now, Cardinality(S) + 1>>}
  BY DEF Marked, MarkedAt

LEMMA MarkedTyped ==
  ASSUME now \in Times, NEW S \in SUBSET Marks, IsFiniteSet(S)
  PROVE  /\ Marked(S) \in SUBSET Marks /\ IsFiniteSet(Marked(S))
         /\ Cardinality(Marked(S)) <= Cardinality(S) + 1
  BY MarksAdded DEF Marked

-----------------------------------------------------------------------------
(* The state of the gate: types, and every set of marks finite. *)
FiniteMarks ==
  /\ \A c \in Consumers : \A u \in Urls : IsFiniteSet(served[c][u])
  /\ \A ip \in Ips : IsFiniteSet(fails[ip])
  /\ IsFiniteSet(recent)
  /\ IsFiniteSet(sent)

Typed == TypeOK /\ FiniteMarks

\* What the audit log does with the two sets of alerts.
Alerted ==
  \/ UNCHANGED <<recent, sent>>
  \/ recent' = Kept /\ sent' = sent
  \/ Cardinality(Kept) < AlertMax /\ recent' = Marked(Kept) /\ sent' = Marked(sent)

LEMMA LogAlerts ==
  ASSUME Typed, NEW action, Log(action)
  PROVE  Alerted
<1>1. Cardinality(Kept) \in Nat
  BY FS_Subset, FS_CardinalityType DEF Typed, FiniteMarks, Kept
<1>2. QED
  BY <1>1, ApiGateAssumption DEF Log, Alerted, AfterAlert

Flights == [Requests -> Flight \cup {NoFlight}]

\* A request with a good key: what it does with the rest of the state.
Past(ip, k, c, u) ==
  /\ Authenticated(ip, k, c, u)
  /\ IF Limited(windows[c][u], u) THEN served' = served
     ELSE served' = [served EXCEPT ![c][u] = Marked(@)]
  /\ flight' \in Flights

LEMMA CallPast ==
  ASSUME KeyInv, TypeOK, NEW ip \in Ips, NEW k \in Keys, NEW c \in Consumers, Call(ip, k, c)
  PROVE  \E u \in Urls : Past(ip, k, c, u)
<1>1. ASSUME NEW u \in Urls, Throttled(ip, k, c, u) \/ Report(ip, k, c, u) PROVE Past(ip, k, c, u)
  BY <1>1 DEF Throttled, Report, Admitted, Past, TypeOK, Flights
<1>2. ASSUME NEW u \in Urls, NEW r \in Requests, NEW at \in Entries(KindOf(u)),
             Begin(ip, k, c, u, r, at)
      PROVE  Past(ip, k, c, u)
  <2>1. at \in Waiting \cup Running
    BY DEF Entries, Waiting, Running
  <2>2. HasKey(c, k)
    BY <1>2, HolderHasKey DEF Begin, Admitted, Authenticated
  <2>3. consumers[c].admin \in BOOLEAN
    BY <2>2 DEF KeyInv, HasKey, Row
  <2>4. flight' \in Flights
    BY <1>2, <2>1, <2>3 DEF Begin, TypeOK, Flights, Flight
  <2>5. QED
    BY <1>2, <2>4 DEF Begin, Admitted, Past
<1>3. QED
  BY <1>1, <1>2 DEF Call

\* A handler: what it does with the state.
Handled == flight' \in Flights /\ secrets' \in [Secrets -> Secret] /\ Alerted

LEMMA ChangedTyped ==
  ASSUME Typed, NEW r \in Requests, NEW n \in Secrets, NEW action, NEW s \in Secret,
         Changed(r, n, action, s) \/ UNCHANGED <<secrets, recent, sent>>
  PROVE  secrets' \in [Secrets -> Secret] /\ Alerted
<1>1. CASE secrets' = [secrets EXCEPT ![n] = s] /\ Log(action)
  BY <1>1, LogAlerts DEF Typed, TypeOK
<1>2. CASE UNCHANGED <<secrets, recent, sent>>
  BY <1>2 DEF Typed, TypeOK, Alerted
<1>3. QED
  BY <1>1, <1>2 DEF Changed

LEMMA HandlerTyped ==
  ASSUME Typed, NEW r \in Requests, Handler(r)
  PROVE  Handled
<1>1. flight \in Flights /\ secrets \in [Secrets -> Secret]
  BY DEF Typed, TypeOK, Flights
<1>2. ASSUME flight[r] \in Flight, NEW at \in {"read", "grant"}, NEW todo \in SUBSET Secrets,
             NEW got \in SUBSET Secrets,
             flight' = [flight EXCEPT ![r] = [@ EXCEPT !.at = at, !.todo = todo, !.got = got]]
      PROVE  flight' \in Flights
  BY <1>1, <1>2 DEF Flights, Flight, Running
<1>3. ASSUME flight' = [flight EXCEPT ![r] = NoFlight] PROVE flight' \in Flights
  BY <1>1, <1>3 DEF Flights
<1>4. ASSUME NEW at, at # "none", Handle(r, at) PROVE flight[r] \in Flight
  BY <1>1, <1>4 DEF Handle, Flights, NoFlight
<1>5. CASE Reply(r) \/ Refuse(r)
  BY <1>1, <1>3, <1>5 DEF Reply, Refuse, Serve, Handled, Alerted
<1>6. ASSUME NEW names \in SUBSET Secrets, ParseBatch(r, names) PROVE Handled
  <2>1. flight[r] \in Flight
    BY <1>4, <1>6 DEF ParseBatch
  <2>2. flight' \in Flights
    BY <1>1, <1>6, <2>1 DEF ParseBatch, Flights, Flight, Running
  <2>3. QED
    BY <1>1, <1>6, <2>2 DEF ParseBatch, Handled, Alerted
<1>7. ASSUME NEW names \in SUBSET Secrets, ListEnv(r, names) PROVE Handled
  <2>1. flight[r] \in Flight
    BY <1>4, <1>7 DEF ListEnv
  <2>2. Listed(flight[r]) \cap names \in SUBSET Secrets
    OBVIOUS
  <2>3. flight' \in Flights
    BY <1>1, <1>7, <2>1, <2>2 DEF ListEnv, Flights, Flight, Running
  <2>4. QED
    BY <1>1, <1>7, <2>3 DEF ListEnv, Handled, Alerted
<1>8. ASSUME NEW n \in Secrets, GetSecret(r, n) PROVE Handled
  <2>1. flight[r] \in Flight
    BY <1>4, <1>8 DEF GetSecret
  <2>2. flight' \in Flights
    BY <1>1, <1>8, <2>1 DEF GetSecret, Flights, Flight
  <2>3. QED
    BY <1>1, <1>8, <2>2, LogAlerts DEF GetSecret, Handled
<1>9. ASSUME NEW n \in Secrets, FindVersion(r, n) PROVE Handled
  <2>1. flight[r] \in Flight
    BY <1>4, <1>9 DEF FindVersion
  <2>2. flight' \in Flights
    BY <1>1, <1>9, <2>1 DEF FindVersion, Flights, Flight, Running
  <2>3. Alerted
    BY <1>9, LogAlerts DEF FindVersion, Alerted
  <2>4. QED
    BY <1>1, <1>9, <2>2, <2>3 DEF FindVersion, Handled
<1>10. ASSUME NEW n \in Secrets, GrantVersion(r, n) PROVE Handled
  <2>1. flight[r] \in Flight
    BY <1>4, <1>10 DEF GrantVersion
  <2>2. flight' \in Flights
    BY <1>1, <1>10, <2>1 DEF GrantVersion, Flights, Flight, Running
  <2>3. QED
    BY <1>1, <1>10, <2>2, LogAlerts DEF GrantVersion, Handled
<1>11. ASSUME NEW n \in Secrets, DeleteSecret(r, n) PROVE Handled
  <2>1. Absent \in Secret
    BY DEF Absent, Secret
  <2>2. QED
    BY <1>3, <1>11, <2>1, ChangedTyped DEF DeleteSecret, Serve, Handled
<1>12. ASSUME NEW n \in Secrets, NEW granted \in Grants, CreateSecret(r, n, granted) PROVE Handled
  <2>1. Stored(granted, FALSE) \in Secret
    BY ApiGateAssumption DEF Stored, Secret
  <2>2. QED
    BY <1>3, <1>12, <2>1, ChangedTyped DEF CreateSecret, Serve, Handled
<1>13. ASSUME NEW n \in Secrets, NEW granted \in Grants, NEW newValue \in BOOLEAN,
              UpdateSecret(r, n, granted, newValue)
       PROVE  Handled
  <2> DEFINE s == Stored(granted, secrets[n].archived \/ newValue)
  <2>1. s \in Secret
    BY <1>1, ApiGateAssumption DEF Stored, Secret
  <2>2. Changed(r, n, "update", s) \/ UNCHANGED <<secrets, recent, sent>>
    BY <1>13 DEF UpdateSecret
  <2> HIDE DEF s
  <2>3. secrets' \in [Secrets -> Secret] /\ Alerted
    BY <2>1, <2>2, ChangedTyped
  <2>4. QED
    BY <1>3, <1>13, <2>3 DEF UpdateSecret, Serve, Handled
<1>14. QED
  BY <1>5, <1>6, <1>7, <1>8, <1>9, <1>10, <1>11, <1>12, <1>13 DEF Handler

-----------------------------------------------------------------------------
(* Type correctness. *)

LEMMA EntryAfter ==
  ASSUME NEW e \in Entry, NEW t \in Nat
  PROVE  AfterCheck(e, t) \in Entry /\ AfterFailure(e, t) \in Entry
  BY LockoutAssumption DEF AfterCheck, AfterFailure, Opened, Entry, NoEntry

LEMMA WindowAfter ==
  ASSUME now \in Times, NEW w \in [count : Nat, resetAt : Nat]
  PROVE  AfterRate(w) \in [count : Nat, resetAt : Nat]
  BY ApiGateAssumption DEF AfterRate, Times

LEMMA TypedStart == Init => Typed
<1> SUFFICES ASSUME Init PROVE Typed
  OBVIOUS
<1>1. now \in Times /\ consumers \in [Consumers -> Row \cup {NoRow}]
  BY KeyStart DEF KeyInv
<1>2. Absent \in Secret /\ NoEntry \in Entry /\ NoWindow \in [count : Nat, resetAt : Nat]
  BY DEF Absent, Secret, NoEntry, Entry, NoWindow
<1>3. TypeOK
  BY <1>1, <1>2 DEF Init, TypeOK
<1>4. FiniteMarks
  BY FS_EmptySet DEF Init, FiniteMarks
<1>5. QED
  BY <1>3, <1>4 DEF Typed

LEMMA AlertedTyped ==
  ASSUME Typed, Alerted
  PROVE  /\ recent' \in SUBSET Marks /\ sent' \in SUBSET Marks
         /\ IsFiniteSet(recent') /\ IsFiniteSet(sent')
<1>1. /\ Kept \in SUBSET Marks /\ IsFiniteSet(Kept)
      /\ recent \in SUBSET Marks /\ IsFiniteSet(recent)
      /\ sent \in SUBSET Marks /\ IsFiniteSet(sent)
  BY FS_Subset DEF Typed, TypeOK, FiniteMarks, Kept
<1>2. /\ Marked(Kept) \in SUBSET Marks /\ IsFiniteSet(Marked(Kept))
      /\ Marked(sent) \in SUBSET Marks /\ IsFiniteSet(Marked(sent))
  BY <1>1, MarkedTyped DEF Typed, TypeOK
<1>3. QED
  BY <1>1, <1>2 DEF Alerted

LEMMA PastTyped ==
  ASSUME KeyInv, Typed, NEW ip \in Ips, NEW k \in Keys, NEW c \in Consumers, NEW u \in Urls,
         Past(ip, k, c, u)
  PROVE  Typed'
<1>1. /\ UNCHANGED <<now, consumers, secrets, recent, barred, sent, fails, changes>>
      /\ calls' = calls + 1
      /\ buckets' = [buckets EXCEPT ![ip] = AfterCheck(@, now)]
      /\ windows' = [windows EXCEPT ![c][u] = AfterRate(@)]
  BY DEF Past, Authenticated, Enter, Received
<1>2. AfterCheck(buckets[ip], now) \in Entry
  BY EntryAfter DEF Typed, TypeOK, Times
<1>3. buckets' \in [Ips -> Entry]
  BY <1>1, <1>2 DEF Typed, TypeOK
<1>4. AfterRate(windows[c][u]) \in [count : Nat, resetAt : Nat]
  BY WindowAfter DEF Typed, TypeOK
<1>5. windows' \in [Consumers -> [Urls -> [count : Nat, resetAt : Nat]]]
  BY <1>1, <1>4 DEF Typed, TypeOK
<1>6. /\ served' \in [Consumers -> [Urls -> SUBSET Marks]]
      /\ \A d \in Consumers : \A v \in Urls : IsFiniteSet(served'[d][v])
  <2>1. CASE served' = served
    BY <2>1 DEF Typed, TypeOK, FiniteMarks
  <2>2. CASE served' = [served EXCEPT ![c][u] = Marked(@)]
    <3>1. served[c][u] \in SUBSET Marks /\ IsFiniteSet(served[c][u]) /\ now \in Times
      BY DEF Typed, TypeOK, FiniteMarks
    <3>2. Marked(served[c][u]) \in SUBSET Marks /\ IsFiniteSet(Marked(served[c][u]))
      BY <3>1, MarkedTyped
    <3>3. QED
      BY <2>2, <3>2 DEF Typed, TypeOK, FiniteMarks
  <2>3. QED
    BY <2>1, <2>2 DEF Past
<1>7. flight' \in [Requests -> Flight \cup {NoFlight}]
  BY DEF Past, Flights
<1>8. QED
  BY <1>1, <1>3, <1>5, <1>6, <1>7 DEF Typed, TypeOK, FiniteMarks

LEMMA HandledTyped ==
  ASSUME Typed, NEW r \in Requests, Handler(r)
  PROVE  Typed'
<1>1. UNCHANGED <<now, consumers, barred, changes, buckets, windows, served, fails, calls>>
  BY HandlerKeeps DEF gate
<1>2. flight' \in Flights /\ secrets' \in [Secrets -> Secret] /\ Alerted
  BY HandlerTyped DEF Handled
<1>3. /\ recent' \in SUBSET Marks /\ sent' \in SUBSET Marks
      /\ IsFiniteSet(recent') /\ IsFiniteSet(sent')
  BY <1>2, AlertedTyped
<1>4. QED
  BY <1>1, <1>2, <1>3 DEF Typed, TypeOK, FiniteMarks, Flights

LEMMA TypedStep == KeyInv /\ Typed /\ [Next]_vars => Typed'
<1> SUFFICES ASSUME KeyInv, Typed, [Next]_vars PROVE Typed'
  OBVIOUS
<1>1. NoFlight \in Flight \cup {NoFlight}
  OBVIOUS
<1>2. now' \in Times /\ consumers' \in [Consumers -> Row \cup {NoRow}]
  BY KeyStep DEF KeyInv
<1>3. now \in Nat
  BY DEF Typed, TypeOK, Times
<1>4. ASSUME NEW ip \in Ips, NoKey(ip) PROVE Typed'
  <2>1. AfterCheck(buckets[ip], now) \in Entry
    BY <1>3, EntryAfter DEF Typed, TypeOK
  <2>2. QED
    BY <1>4, <2>1 DEF NoKey, Enter, Received, Typed, TypeOK, FiniteMarks
<1>5. ASSUME NEW ip \in Ips, NEW k \in Keys, BadKey(ip, k) PROVE Typed'
  <2>1. AfterBadKey(buckets[ip]) \in Entry
    BY <1>3, EntryAfter DEF Typed, TypeOK, AfterBadKey
  <2>2. Marked(fails[ip]) \in SUBSET Marks /\ IsFiniteSet(Marked(fails[ip]))
    BY MarkedTyped DEF Typed, TypeOK, FiniteMarks
  <2>3. QED
    BY <1>5, <2>1, <2>2 DEF BadKey, Enter, Received, Typed, TypeOK, FiniteMarks
<1>6. ASSUME NEW ip \in Ips, NEW k \in Keys, NEW c \in Consumers, Call(ip, k, c) PROVE Typed'
  <2>1. PICK u \in Urls : Past(ip, k, c, u)
    BY <1>6, CallPast DEF Typed
  <2>2. QED
    BY <2>1, PastTyped
<1>7. CASE Administer
  <2>1. /\ changes' = changes + 1
        /\ UNCHANGED <<now, buckets, windows, recent, flight, served, fails, sent, calls>>
    BY <1>7 DEF Administer, AddConsumer, RevokeConsumer, RotateKey, SetLocally, DeleteLocally,
                Command, gate
  <2>2. barred' \subseteq Keys
    <3>1. \A c \in Consumers : consumers[c] # NoRow => consumers[c].key \in Keys
      BY DEF KeyInv, Row
    <3>2. barred \subseteq Keys
      BY DEF Typed, TypeOK
    <3>3. ASSUME NEW c \in Consumers, RevokeConsumer(c) PROVE barred' \subseteq Keys
      BY <3>1, <3>2, <3>3 DEF RevokeConsumer
    <3>4. ASSUME NEW c \in Consumers, NEW k \in Keys, NEW expires \in Expiries,
                 RotateKey(c, k, expires)
          PROVE  barred' \subseteq Keys
      BY <3>1, <3>2, <3>4 DEF RotateKey
    <3>5. CASE barred' = barred
      BY <3>2, <3>5
    <3>6. QED
      BY <1>7, <3>3, <3>4, <3>5 DEF Administer, AddConsumer, SetLocally, DeleteLocally
  <2>3. secrets' \in [Secrets -> Secret]
    <3>1. ASSUME NEW n \in Secrets, DeleteLocally(n) PROVE secrets' \in [Secrets -> Secret]
      BY <3>1 DEF DeleteLocally, Absent, Secret, Typed, TypeOK
    <3>2. ASSUME NEW n \in Secrets, NEW granted \in Grants, NEW newValue \in BOOLEAN,
                 SetLocally(n, granted, newValue)
          PROVE  secrets' \in [Secrets -> Secret]
      <4>1. secrets[n] \in Secret
        BY DEF Typed, TypeOK
      <4>2. Stored(granted, secrets[n].archived \/ (secrets[n].stored /\ newValue)) \in Secret
        BY <4>1, ApiGateAssumption DEF Stored, Secret
      <4>3. QED
        BY <3>2, <4>2 DEF SetLocally, Typed, TypeOK
    <3>3. secrets' = secrets => secrets' \in [Secrets -> Secret]
      BY DEF Typed, TypeOK
    <3>4. QED
      BY <1>7, <3>1, <3>2, <3>3 DEF Administer, AddConsumer, RevokeConsumer, RotateKey
  <2>4. QED
    BY <1>2, <2>1, <2>2, <2>3 DEF Typed, TypeOK, FiniteMarks
<1>8. CASE Restart
  <2>1. NoEntry \in Entry /\ NoWindow \in [count : Nat, resetAt : Nat]
    BY DEF NoEntry, Entry, NoWindow
  <2>2. QED
    BY <1>1, <1>8, <2>1, FS_EmptySet DEF Restart, Typed, TypeOK, FiniteMarks
<1>9. CASE Tick
  <2>1. \A c \in Consumers : \A u \in Urls :
          served'[c][u] \in SUBSET served[c][u]
    BY <1>9 DEF Tick
  <2>2. \A ip \in Ips : fails'[ip] \in SUBSET fails[ip]
    BY <1>9 DEF Tick
  <2>3. sent' \in SUBSET sent
    BY <1>9 DEF Tick
  <2>4. FiniteMarks'
    BY <1>9, <2>1, <2>2, <2>3, FS_Subset DEF Tick, Typed, FiniteMarks
  <2>5. /\ served' \in [Consumers -> [Urls -> SUBSET Marks]]
        /\ fails' \in [Ips -> SUBSET Marks]
    BY <1>9, <2>1, <2>2 DEF Tick, Typed, TypeOK
  <2>6. TypeOK'
    BY <1>1, <1>2, <1>9, <2>3, <2>5 DEF Tick, Typed, TypeOK
  <2>7. QED
    BY <2>4, <2>6 DEF Typed
<1>10. CASE UNCHANGED vars
  BY <1>10 DEF vars, gate, Typed, TypeOK, FiniteMarks
<1>11. CASE PassBy
  BY <1>11 DEF PassBy, Received, Typed, TypeOK, FiniteMarks
<1>12. ASSUME NEW r \in Requests, Handler(r) PROVE Typed'
  BY <1>12, HandledTyped
<1>13. QED
  BY <1>4, <1>5, <1>6, <1>7, <1>8, <1>9, <1>10, <1>11, <1>12 DEF Next

\* The state of the gate keeps its types, for any limits, callers and commands.
THEOREM GateTypeCorrect == Spec => []TypeOK
<1>1. KeyInv /\ Typed => TypeOK
  BY DEF Typed
<1>2. QED
  BY <1>1, KeyStart, KeyStep, TypedStart, TypedStep, PTL DEF Spec

-----------------------------------------------------------------------------
\* What ValuesGuarded says of one request in one step.
Safe(r) ==
  /\ Arriving(r) =>
       LET f == flight'[r] IN
       /\ HasKey(f.caller, f.key) /\ f.key \notin barred
       /\ now <= consumers[f.caller].expires
       /\ f.admin => consumers[f.caller].admin
  /\ \A n \in flight'[r].got \ flight[r].got :
       flight[r].admin \/ flight[r].caller \in secrets[n].granted

Guarded == \A r \in Requests : Safe(r)

LEMMA SameSafe ==
  ASSUME NEW r \in Requests, flight'[r] = flight[r] \/ flight'[r] = NoFlight
  PROVE  Safe(r)
  BY DEF Safe, Arriving, NoFlight

\* A caller that is past the gate holds its key, and neither is barred.
LEMMA PastTheGate ==
  ASSUME KeyInv, NEW k \in Keys, NEW c \in Consumers, Caller(k, c)
  PROVE  HasKey(c, k) /\ k \notin barred /\ now <= consumers[c].expires
<1>1. HasKey(c, k)
  BY HolderHasKey
<1>2. consumers[c].active /\ ~ (consumers[c].expires < now)
  BY DEF Caller, Standing
<1>3. k \notin barred
  BY <1>1, <1>2 DEF KeyInv
<1>4. consumers[c] \in Row
  BY <1>1 DEF KeyInv, HasKey
<1>5. now <= consumers[c].expires
  BY <1>2, <1>4, ApiGateAssumption DEF KeyInv, Row, Times, Never
<1>6. QED
  BY <1>1, <1>3, <1>5

LEMMA CallGuarded ==
  ASSUME KeyInv, TypeOK, NEW ip \in Ips, NEW k \in Keys, NEW c \in Consumers, Call(ip, k, c)
  PROVE  Guarded
<1>1. ASSUME NEW u \in Urls, Throttled(ip, k, c, u) \/ Report(ip, k, c, u) PROVE Guarded
  BY <1>1, SameSafe DEF Throttled, Report, Guarded
<1>2. ASSUME NEW u \in Urls, NEW r \in Requests, NEW at \in Entries(KindOf(u)),
             Begin(ip, k, c, u, r, at)
      PROVE  Guarded
  <2>1. PICK f : /\ f = [at |-> at, key |-> k, caller |-> c, admin |-> consumers[c].admin,
                         todo |-> {u[1][2]} \cap Secrets, got |-> {}]
                 /\ flight' = [flight EXCEPT ![r] = f]
    BY <1>2 DEF Begin
  <2>2. HasKey(c, k) /\ k \notin barred /\ now <= consumers[c].expires
    BY PastTheGate DEF Call
  <2>3. flight'[r] = f /\ \A q \in Requests \ {r} : flight'[q] = flight[q]
    BY <2>1 DEF TypeOK
  <2>4. f.caller = c /\ f.key = k /\ f.admin = consumers[c].admin /\ f.got = {}
    BY <2>1
  <2>5. Safe(r)
    BY <2>2, <2>3, <2>4 DEF Safe
  <2>6. QED
    BY <2>3, <2>5, SameSafe DEF Guarded
<1>3. QED
  BY <1>1, <1>2 DEF Call

\* What a handler has got by one SELECT is what that SELECT allowed.
LEMMA HandlerGuarded ==
  ASSUME TypeOK, NEW r \in Requests, Handler(r)
  PROVE  Guarded
<1>1. ASSUME NEW at, at # "none", Handle(r, at) PROVE flight[r] \in Flight /\ flight[r] # NoFlight
  BY <1>1 DEF Handle, NoFlight, TypeOK
<1>2. ASSUME flight[r] # NoFlight, NEW g, flight' = [flight EXCEPT ![r] = g],
             \A n \in g.got \ flight[r].got :
               flight[r].admin \/ flight[r].caller \in secrets[n].granted
      PROVE  Guarded
  <2>1. flight'[r] = g /\ \A q \in Requests \ {r} : flight'[q] = flight[q]
    BY <1>2 DEF TypeOK
  <2>2. Safe(r)
    BY <1>2, <2>1 DEF Safe, Arriving
  <2>3. QED
    BY <2>1, <2>2, SameSafe DEF Guarded
<1>3. ASSUME flight' = [flight EXCEPT ![r] = NoFlight] PROVE Guarded
  <2>1. \A q \in Requests : flight'[q] = flight[q] \/ flight'[q] = NoFlight
    BY <1>3 DEF TypeOK
  <2>2. QED
    BY <2>1, SameSafe DEF Guarded
<1>4. CASE \/ Reply(r) \/ Refuse(r)
           \/ \E n \in Secrets : DeleteSecret(r, n)
           \/ \E n \in Secrets, granted \in Grants : CreateSecret(r, n, granted)
           \/ \E n \in Secrets, granted \in Grants, newValue \in BOOLEAN :
                UpdateSecret(r, n, granted, newValue)
  BY <1>3, <1>4 DEF Reply, Refuse, DeleteSecret, CreateSecret, UpdateSecret, Serve
<1>5. ASSUME NEW names \in SUBSET Secrets, ParseBatch(r, names) \/ ListEnv(r, names)
      PROVE  Guarded
  <2>1. flight[r] \in Flight /\ flight[r] # NoFlight
    BY <1>1, <1>5 DEF ParseBatch, ListEnv
  <2>2. PICK todo : flight' = [flight EXCEPT ![r] = [flight[r] EXCEPT !.at = "read", !.todo = todo]]
    BY <1>5 DEF ParseBatch, ListEnv
  <2>3. [flight[r] EXCEPT !.at = "read", !.todo = todo].got = flight[r].got
    BY <2>1 DEF Flight
  <2>4. QED
    BY <1>2, <2>1, <2>2, <2>3
<1>6. ASSUME NEW n \in Secrets, GetSecret(r, n) PROVE Guarded
  <2>1. flight[r] \in Flight /\ flight[r] # NoFlight
    BY <1>1, <1>6 DEF GetSecret
  <2>2. PICK g : /\ g = [flight[r] EXCEPT !.todo = flight[r].todo \ {n},
                           !.got = flight[r].got \cup {x \in {n} : MayRead(flight[r], x)}]
                 /\ flight' = [flight EXCEPT ![r] = g]
    BY <1>6 DEF GetSecret
  <2>3. g.got = flight[r].got \cup {x \in {n} : MayRead(flight[r], x)}
    BY <2>1, <2>2 DEF Flight
  <2>4. QED
    BY <1>2, <2>1, <2>2, <2>3 DEF MayRead, Readable
<1>7. ASSUME NEW n \in Secrets, FindVersion(r, n) PROVE Guarded
  <2>1. flight[r] \in Flight /\ flight[r] # NoFlight
    BY <1>1, <1>7 DEF FindVersion
  <2>2. CASE flight' = [flight EXCEPT ![r].at = "grant"]
    <3>1. [flight[r] EXCEPT !.at = "grant"].got = flight[r].got
      BY <2>1 DEF Flight
    <3>2. QED
      BY <1>2, <2>1, <2>2, <3>1
  <2>3. CASE /\ flight[r].admin \/ ~ secrets[n].archived
             /\ flight' = [flight EXCEPT ![r].at = "read", ![r].todo = {},
                                         ![r].got = {x \in {n} : secrets[x].archived}]
    <3>1. PICK g : /\ g = [flight[r] EXCEPT !.at = "read", !.todo = {},
                             !.got = {x \in {n} : secrets[x].archived}]
                   /\ flight' = [flight EXCEPT ![r] = g]
      BY <2>3
    <3>2. g.got = {x \in {n} : secrets[x].archived}
      BY <2>1, <3>1 DEF Flight
    <3>3. QED
      BY <1>2, <2>1, <2>3, <3>1, <3>2
  <2>4. QED
    BY <1>7, <2>2, <2>3 DEF FindVersion
<1>8. ASSUME NEW n \in Secrets, GrantVersion(r, n) PROVE Guarded
  <2>1. flight[r] \in Flight /\ flight[r] # NoFlight
    BY <1>1, <1>8 DEF GrantVersion
  <2>2. PICK g : /\ g = [flight[r] EXCEPT !.at = "read", !.todo = {},
                           !.got = {x \in {n} : MayRead(flight[r], x)}]
                 /\ flight' = [flight EXCEPT ![r] = g]
    BY <1>8 DEF GrantVersion
  <2>3. g.got = {x \in {n} : MayRead(flight[r], x)}
    BY <2>1, <2>2 DEF Flight
  <2>4. QED
    BY <1>2, <2>1, <2>2, <2>3 DEF MayRead, Readable
<1>9. QED
  BY <1>4, <1>5, <1>6, <1>7, <1>8 DEF Handler

LEMMA StepGuarded == KeyInv /\ Typed /\ [Next]_vars => [Guarded]_vars
<1> SUFFICES ASSUME KeyInv, TypeOK, Next PROVE Guarded
  BY DEF Typed
<1>1. ASSUME \A r \in Requests : flight'[r] = flight[r] \/ flight'[r] = NoFlight PROVE Guarded
  BY <1>1, SameSafe DEF Guarded
<1>2. ASSUME NEW ip \in Ips, NEW k \in Keys, NEW c \in Consumers, Call(ip, k, c) PROVE Guarded
  BY <1>2, CallGuarded
<1>3. ASSUME NEW r \in Requests, Handler(r) PROVE Guarded
  BY <1>3, HandlerGuarded
<1>4. CASE PassBy \/ \E ip \in Ips : NoKey(ip) \/ \E k \in Keys : BadKey(ip, k)
  BY <1>1, <1>4 DEF PassBy, NoKey, BadKey
<1>5. CASE Administer
  BY <1>1, <1>5 DEF Administer, AddConsumer, RevokeConsumer, RotateKey, SetLocally,
                   DeleteLocally, Command
<1>6. CASE Restart \/ Tick
  BY <1>1, <1>6 DEF Restart, Tick
<1>7. QED
  BY <1>2, <1>3, <1>4, <1>5, <1>6 DEF Next

\* A request gets past the hooks with a key that is then neither replaced, nor
\* revoked, nor expired, as the consumer that holds it; each value it is handed is one
\* its caller may read when that secret is read, whatever other requests and other
\* processes do between two of its SELECTs.
THEOREM GateValuesGuarded == Spec => ValuesGuarded
  BY KeyStart, KeyStep, TypedStart, TypedStep, StepGuarded, PTL
     DEF Spec, ValuesGuarded, Guarded, Safe

\* The tools of the MCP server do nothing that a direct call could not.
LEMMA ToolsAreCalls == [McpNext]_vars => [Next]_vars
<1> SUFFICES ASSUME McpNext PROVE Next
  OBVIOUS
<1>1. ASSUME NEW k \in Keys, ToolCall(k) PROVE Next
  <2>1. CASE BadKey(McpIp, k)
    BY <2>1, McpToolsAssumption DEF Next
  <2>2. ASSUME NEW c \in Consumers, Ask(k, c) PROVE Call(McpIp, k, c)
    BY <2>2 DEF Ask, ToolUrls, Call
  <2>3. QED
    BY <1>1, <2>1, <2>2, McpToolsAssumption DEF ToolCall, Next
<1>2. ASSUME NEW ip \in Ips \ {McpIp}, DirectCall(ip) PROVE Next
  BY <1>2 DEF DirectCall, Next
<1>3. QED
  BY <1>1, <1>2 DEF McpNext, Next

\* The same of the API with the MCP server in front of it.
THEOREM McpValuesGuarded == McpSpec => ValuesGuarded
<1>1. McpSpec => Spec
  BY ToolsAreCalls, PTL DEF McpSpec, Spec
<1>2. QED
  BY <1>1, GateValuesGuarded

-----------------------------------------------------------------------------
(* The alerts that were sent in one window are those the log remembers. *)
AlertInv ==
  /\ sent = Kept
  /\ Cardinality(sent) <= AlertMax

LEMMA AlertStart == Init => AlertInv
<1> SUFFICES ASSUME Init PROVE AlertInv
  OBVIOUS
<1>1. recent = {} /\ sent = {}
  BY DEF Init
<1>2. QED
  BY <1>1, FS_EmptySet, ApiGateAssumption DEF AlertInv, Kept

\* Marks of this moment are in the window.
LEMMA KeptOfMarked ==
  ASSUME now \in Nat
  PROVE  /\ {m \in Marked(Kept) : InWindow(m[1])} = Marked(Kept)
         /\ {m \in Kept : InWindow(m[1])} = Kept
<1>1. \A i : InWindow(<<now, i>>[1])
  BY ApiGateAssumption DEF InWindow
<1>2. \A m \in Kept : InWindow(m[1])
  BY DEF Kept
<1>3. \A m \in Marked(Kept) : InWindow(m[1])
  BY <1>1, <1>2, OneMark
<1>4. QED
  BY <1>2, <1>3

LEMMA AlertedInv ==
  ASSUME Typed, AlertInv, Alerted, now' = now
  PROVE  AlertInv'
<1>1. CASE UNCHANGED <<recent, sent>>
  BY <1>1 DEF AlertInv, Kept, InWindow
<1>2. CASE recent' = Kept /\ sent' = sent
  <2>1. Kept' = Kept
    BY <1>2, KeptOfMarked DEF Kept, InWindow, Typed, TypeOK, Times
  <2>2. QED
    BY <1>2, <2>1 DEF AlertInv
<1>3. CASE Cardinality(Kept) < AlertMax /\ recent' = Marked(Kept) /\ sent' = Marked(sent)
  <2>1. sent' = recent'
    BY <1>3 DEF AlertInv
  <2>2. Kept' = recent'
    BY <1>3, KeptOfMarked DEF Kept, InWindow, Typed, TypeOK, Times
  <2>3. Kept \in SUBSET Marks /\ IsFiniteSet(Kept) /\ Cardinality(Kept) \in Nat
    BY FS_Subset, FS_CardinalityType DEF Kept, Typed, TypeOK, FiniteMarks
  <2>4. /\ IsFiniteSet(Marked(Kept)) /\ Cardinality(Marked(Kept)) \in Nat
        /\ Cardinality(Marked(Kept)) <= Cardinality(Kept) + 1
    BY <2>3, MarkedTyped, FS_CardinalityType DEF Typed, TypeOK
  <2>5. Cardinality(sent') <= AlertMax
    BY <1>3, <2>1, <2>3, <2>4, ApiGateAssumption
  <2>6. QED
    BY <2>1, <2>2, <2>5 DEF AlertInv
<1>4. QED
  BY <1>1, <1>2, <1>3 DEF Alerted

LEMMA AlertStep == Typed /\ AlertInv /\ [Next]_vars => AlertInv'
<1> SUFFICES ASSUME Typed, AlertInv, [Next]_vars PROVE AlertInv'
  OBVIOUS
<1>1. ASSUME UNCHANGED <<now, recent, sent>> PROVE AlertInv'
  BY <1>1 DEF AlertInv, Kept, InWindow
<1>2. ASSUME NEW ip \in Ips, NEW k \in Keys, BadKey(ip, k) PROVE AlertInv'
  BY <1>1, <1>2 DEF BadKey, Enter, Received
<1>3. ASSUME NEW ip \in Ips, NoKey(ip) PROVE AlertInv'
  BY <1>1, <1>3 DEF NoKey, Enter, Received
<1>4. ASSUME NEW ip \in Ips, NEW k \in Keys, NEW c \in Consumers, Call(ip, k, c) PROVE AlertInv'
  BY <1>1, <1>4, CallKeeps
<1>5. CASE Administer
  BY <1>1, <1>5 DEF Administer, AddConsumer, RevokeConsumer, RotateKey, SetLocally,
                   DeleteLocally, Command
<1>6. CASE Restart
  <2>1. recent' = {} /\ sent' = {}
    BY <1>6 DEF Restart
  <2>2. QED
    BY <2>1, FS_EmptySet, ApiGateAssumption DEF AlertInv, Kept
<1>7. CASE Tick
  <2>1. now' = now + 1 /\ recent' = recent /\ sent' = {m \in sent : m[1] + AlertWindow >= now + 1}
    BY <1>7 DEF Tick
  <2>2. \A m \in recent : m[1] \in Nat
    BY DEF Typed, TypeOK, Marks, Times
  <2>3. now \in Nat
    BY DEF Typed, TypeOK, Times
  <2>4. sent' = Kept'
    <3>1. \A m \in recent : m[1] + AlertWindow >= now + 1 => m[1] + AlertWindow >= now
      BY <2>2, <2>3, ApiGateAssumption
    <3>2. QED
      BY <2>1, <3>1 DEF AlertInv, Kept, InWindow
  <2>5. sent' \in SUBSET sent /\ IsFiniteSet(sent)
    BY <2>1 DEF Typed, FiniteMarks
  <2>6. Cardinality(sent') <= AlertMax
    <3>1. IsFiniteSet(sent') /\ Cardinality(sent') <= Cardinality(sent)
      BY <2>5, FS_Subset
    <3>2. Cardinality(sent') \in Nat /\ Cardinality(sent) \in Nat
      BY <2>5, <3>1, FS_CardinalityType
    <3>3. QED
      BY <3>1, <3>2, ApiGateAssumption DEF AlertInv
  <2>7. QED
    BY <2>4, <2>6 DEF AlertInv
<1>8. CASE UNCHANGED vars
  BY <1>1, <1>8 DEF vars
<1>9. CASE PassBy
  BY <1>1, <1>9 DEF PassBy, Received
<1>10. ASSUME NEW r \in Requests, Handler(r) PROVE AlertInv'
  <2>1. Alerted /\ now' = now
    BY <1>10, HandlerTyped, HandlerKeeps DEF Handled
  <2>2. QED
    BY <2>1, AlertedInv
<1>11. QED
  BY <1>2, <1>3, <1>4, <1>5, <1>6, <1>7, <1>8, <1>9, <1>10 DEF Next

\* No stretch of one alert window holds more alerts than the limit, however many
\* entries the requests log and whatever the limit and the window are.
THEOREM GateAlertsPerWindow == Spec => []AlertsPerWindow
<1>1. AlertInv => AlertsPerWindow
  BY DEF AlertInv, AlertsPerWindow
<1>2. QED
  BY <1>1, KeyStart, KeyStep, TypedStart, TypedStep, AlertStart, AlertStep, PTL DEF Spec

-----------------------------------------------------------------------------
(* The requests let through in the last stretch S of one window, beside the *)
(* fixed window w: those that may be of w, and those of the one before it.  *)
Late(S, w) == {m \in S : m[1] + RateWindow >= w.resetAt}

Early(S, w) == {m \in S : m[1] + RateWindow < w.resetAt}

\* Those after the first moment of w.
After(S, w) == {m \in S : m[1] + RateWindow > w.resetAt}

RateOf(S, w, limit, t) ==
  /\ w = NoWindow => S = {}
  /\ w # NoWindow => w.resetAt <= t + RateWindow
  /\ \A m \in S : m[1] < w.resetAt /\ m[1] + RateWindow > t
  /\ Cardinality(Late(S, w)) <= w.count
  /\ Cardinality(Late(S, w)) <= limit
  /\ Cardinality(Early(S, w)) < limit
  /\ w # NoWindow => Cardinality(After(S, w)) < w.count
  /\ Cardinality(After(S, w)) < limit

RateInv ==
  \A c \in Consumers : \A u \in Urls :
    RateOf(served[c][u], windows[c][u], LimitOf(u), now)

LEMMA OneMore ==
  ASSUME NEW S, IsFiniteSet(S), NEW x
  PROVE  /\ IsFiniteSet(S \cup {x})
         /\ Cardinality(S) \in Nat /\ Cardinality(S \cup {x}) \in Nat
         /\ Cardinality(S \cup {x}) <= Cardinality(S) + 1
<1>1. IsFiniteSet(S \cup {x}) /\ Cardinality(S) \in Nat /\ Cardinality(S \cup {x}) \in Nat
  BY FS_AddElement, FS_CardinalityType
<1>2. Cardinality(S \cup {x}) = IF x \in S THEN Cardinality(S) ELSE Cardinality(S) + 1
  BY FS_AddElement
<1>3. QED
  BY <1>1, <1>2

LEMMA Parts ==
  ASSUME NEW A, NEW B, IsFiniteSet(A), IsFiniteSet(B), A \cap B = {}
  PROVE  Cardinality(A \cup B) = Cardinality(A) + Cardinality(B)
<1>1. /\ Cardinality(A \cup B) = Cardinality(A) + Cardinality(B) - Cardinality(A \cap B)
      /\ Cardinality(A) \in Nat /\ Cardinality(B) \in Nat
  BY FS_Union, FS_CardinalityType
<1>2. Cardinality(A \cap B) = 0
  BY FS_EmptySet
<1>3. QED
  BY <1>1, <1>2

LEMMA LimitIsOne ==
  ASSUME NEW u \in Urls
  PROVE  LimitOf(u) \in Nat \ {0}
<1>1. u \in Paths \X Spellings
  BY ApiGateAssumption
<1>2. u[1][1] \in Kinds /\ u[2] \in Spellings
  BY <1>1 DEF Paths, Kinds
<1>3. RateLimit \in [Kinds \X Spellings -> Nat \ {0}]
  BY ApiGateAssumption
<1>4. QED
  BY <1>2, <1>3 DEF LimitOf, KindOf

LEMMA NoneServed ==
  ASSUME NEW limit \in Nat \ {0}, NEW t \in Nat
  PROVE  RateOf({}, NoWindow, limit, t)
<1>1. Late({}, NoWindow) = {} /\ Early({}, NoWindow) = {} /\ After({}, NoWindow) = {}
  BY DEF Late, Early, After
<1>2. QED
  BY <1>1, FS_EmptySet DEF RateOf, NoWindow

LEMMA TwoWindows ==
  ASSUME NEW S \in SUBSET Marks, IsFiniteSet(S), NEW w \in [count : Nat, resetAt : Nat]
  PROVE  /\ S = Late(S, w) \cup Early(S, w) /\ Late(S, w) \cap Early(S, w) = {}
         /\ IsFiniteSet(Late(S, w)) /\ IsFiniteSet(Early(S, w))
         /\ Cardinality(Late(S, w)) \in Nat /\ Cardinality(Early(S, w)) \in Nat
         /\ Cardinality(S) \in Nat
         /\ Cardinality(S) = Cardinality(Late(S, w)) + Cardinality(Early(S, w))
         /\ IsFiniteSet(After(S, w)) /\ Cardinality(After(S, w)) \in Nat
<1>1. \A m \in S : m[1] \in Nat
  BY DEF Marks, Times
<1>2. S = Late(S, w) \cup Early(S, w) /\ Late(S, w) \cap Early(S, w) = {}
  BY <1>1, ApiGateAssumption DEF Late, Early
<1>3. IsFiniteSet(Late(S, w)) /\ IsFiniteSet(Early(S, w))
  BY FS_Subset DEF Late, Early
<1>4. /\ Cardinality(Late(S, w)) \in Nat /\ Cardinality(Early(S, w)) \in Nat
      /\ Cardinality(S) \in Nat
  BY <1>3, FS_CardinalityType
<1>5. Cardinality(S) = Cardinality(Late(S, w)) + Cardinality(Early(S, w))
  BY <1>2, <1>3, Parts
<1>6. IsFiniteSet(After(S, w)) /\ Cardinality(After(S, w)) \in Nat
  BY FS_Subset, FS_CardinalityType DEF After
<1>7. QED
  BY <1>2, <1>3, <1>4, <1>5, <1>6

\* A request that is let through.
LEMMA RateServed ==
  ASSUME now \in Times, NEW S \in SUBSET Marks, IsFiniteSet(S),
         NEW w \in [count : Nat, resetAt : Nat], NEW u \in Urls,
         RateOf(S, w, LimitOf(u), now), ~ Limited(w, u)
  PROVE  RateOf(Marked(S), AfterRate(w), LimitOf(u), now)
<1> DEFINE L == LimitOf(u)
           m0 == <<now, Cardinality(S) + 1>>
           v == AfterRate(w)
<1>1. Marked(S) = S \cup {m0} /\ m0[1] = now
  BY OneMark
<1>2. L \in Nat \ {0} /\ now \in Nat /\ RateWindow \in Nat \ {0}
  BY LimitIsOne, ApiGateAssumption DEF Times
<1>3. \A m \in S : m[1] \in Nat
  BY DEF Marks, Times
<1>4. /\ IsFiniteSet(Late(S, w)) /\ IsFiniteSet(Early(S, w))
      /\ Cardinality(Late(S, w)) \in Nat /\ Cardinality(Early(S, w)) \in Nat
      /\ Cardinality(S) = Cardinality(Late(S, w)) + Cardinality(Early(S, w))
      /\ IsFiniteSet(After(S, w)) /\ Cardinality(After(S, w)) \in Nat
  BY TwoWindows
<1>5. CASE Lapsed(w)
  <2>1. v.count = 1 /\ v.resetAt = now + RateWindow
    BY <1>5 DEF AfterRate
  <2>2. \A m \in S : m[1] < now
    <3>1. CASE w = NoWindow
      BY <3>1 DEF RateOf
    <3>2. CASE now >= w.resetAt
      BY <1>2, <1>3, <3>2 DEF RateOf
    <3>3. QED
      BY <1>5, <3>1, <3>2 DEF Lapsed
  <2>3. After(S, w) = S
    <3>1. CASE w = NoWindow
      BY <3>1 DEF RateOf, After
    <3>2. CASE now >= w.resetAt
      BY <1>2, <1>3, <3>2 DEF RateOf, After
    <3>3. QED
      BY <1>5, <3>1, <3>2 DEF Lapsed
  <2>4. Cardinality(S) < L
    BY <2>3 DEF RateOf
  <2>5. Late(Marked(S), v) = {m0} /\ Early(Marked(S), v) = S /\ After(Marked(S), v) = {}
    <3> HIDE DEF v, m0
    <3>1. \A m \in S : m[1] + RateWindow < v.resetAt
      BY <1>2, <1>3, <2>1, <2>2
    <3>2. ~ (m0[1] + RateWindow < v.resetAt) /\ m0[1] + RateWindow >= v.resetAt
      BY <1>1, <1>2, <2>1
    <3>3. \A m \in S : ~ (m[1] + RateWindow >= v.resetAt)
      BY <1>2, <1>3, <2>1, <3>1
    <3>4. \A m \in S \cup {m0} : ~ (m[1] + RateWindow > v.resetAt)
      BY <1>1, <1>2, <1>3, <2>1, <3>1
    <3>5. QED
      BY <1>1, <3>1, <3>2, <3>3, <3>4 DEF Late, Early, After
  <2>6. Cardinality({m0}) = 1 /\ Cardinality({}) = 0
    BY FS_Singleton, FS_EmptySet
  <2>7. \A m \in Marked(S) : m[1] < v.resetAt /\ m[1] + RateWindow > now
    BY <1>1, <1>2, <1>3, <2>1, <2>2 DEF RateOf
  <2>8. v # NoWindow
    BY <2>1, <1>2 DEF NoWindow
  <2> HIDE DEF v, m0
  <2>9. QED
    BY <1>2, <2>1, <2>4, <2>5, <2>6, <2>7, <2>8 DEF RateOf, v
<1>6. CASE ~ Lapsed(w)
  <2>1. v.count = w.count + 1 /\ v.resetAt = w.resetAt
    BY <1>6 DEF AfterRate
  <2>2. w # NoWindow /\ now < w.resetAt /\ w.resetAt <= now + RateWindow
    BY <1>2, <1>6 DEF Lapsed, RateOf
  <2>3. w.count + 1 <= L
    BY <1>2, <1>6 DEF Limited
  <2>4. Late(Marked(S), v) = Late(S, w) \cup {m0} /\ Early(Marked(S), v) = Early(S, w)
    <3> HIDE DEF v, m0
    <3>1. m0[1] + RateWindow >= v.resetAt /\ ~ (m0[1] + RateWindow < v.resetAt)
      BY <1>1, <1>2, <2>1, <2>2
    <3>2. QED
      BY <1>1, <2>1, <3>1 DEF Late, Early
  <2>5. Cardinality(Late(S, w) \cup {m0}) <= Cardinality(Late(S, w)) + 1
    BY <1>4, OneMore
  <2>6. Cardinality(Late(S, w) \cup {m0}) \in Nat
    BY <1>4, OneMore
  <2>7. \A m \in Marked(S) : m[1] < v.resetAt /\ m[1] + RateWindow > now
    BY <1>1, <1>2, <1>3, <2>1, <2>2 DEF RateOf
  <2>8. v # NoWindow
    BY <1>2, <2>1, <2>2 DEF NoWindow
  <2>9. /\ Cardinality(Late(Marked(S), v)) <= v.count
        /\ Cardinality(Late(Marked(S), v)) <= L
        /\ Cardinality(Early(Marked(S), v)) < L
        /\ Cardinality(After(Marked(S), v)) < v.count
        /\ Cardinality(After(Marked(S), v)) < L
    <3> HIDE DEF v, m0, L
    <3>1. /\ Cardinality(Late(S, w)) <= w.count /\ Cardinality(Early(S, w)) < L
          /\ Cardinality(After(S, w)) < w.count
      BY <2>2 DEF RateOf, L
    <3>2. After(Marked(S), v) \in SUBSET (After(S, w) \cup {m0})
      BY <1>1, <2>1 DEF After
    <3>3. /\ IsFiniteSet(After(S, w) \cup {m0})
          /\ Cardinality(After(S, w) \cup {m0}) <= Cardinality(After(S, w)) + 1
          /\ Cardinality(After(S, w) \cup {m0}) \in Nat
      BY <1>4, OneMore
    <3>4. /\ Cardinality(After(Marked(S), v)) <= Cardinality(After(S, w) \cup {m0})
          /\ Cardinality(After(Marked(S), v)) \in Nat
      BY <3>2, <3>3, FS_Subset, FS_CardinalityType
    <3>5. QED
      BY <1>2, <1>4, <2>1, <2>3, <2>4, <2>5, <2>6, <3>1, <3>3, <3>4
  <2> HIDE DEF v, m0
  <2>10. QED
    BY <2>1, <2>2, <2>7, <2>8, <2>9 DEF RateOf, v
<1>7. QED
  BY <1>5, <1>6

\* A request that is not.
LEMMA RateThrottled ==
  ASSUME now \in Times, NEW S \in SUBSET Marks, IsFiniteSet(S),
         NEW w \in [count : Nat, resetAt : Nat], NEW u \in Urls,
         RateOf(S, w, LimitOf(u), now), Limited(w, u)
  PROVE  RateOf(S, AfterRate(w), LimitOf(u), now)
<1> DEFINE v == AfterRate(w)
<1>1. ~ Lapsed(w)
  BY DEF Limited
<1>2. v.count = w.count + 1 /\ v.resetAt = w.resetAt
  BY <1>1 DEF AfterRate
<1>3. w # NoWindow /\ v # NoWindow
  BY <1>1, <1>2 DEF Lapsed, NoWindow
<1>4. Late(S, v) = Late(S, w) /\ Early(S, v) = Early(S, w) /\ After(S, v) = After(S, w)
  BY <1>2 DEF Late, Early, After
<1>5. Cardinality(Late(S, w)) \in Nat /\ Cardinality(After(S, w)) \in Nat
  BY TwoWindows
<1> HIDE DEF v
<1>6. QED
  BY <1>2, <1>3, <1>4, <1>5 DEF RateOf, v

\* The passing of time.
LEMMA RateTick ==
  ASSUME NEW t \in Times, NEW S \in SUBSET Marks, IsFiniteSet(S), NEW limit \in Nat,
         NEW w \in [count : Nat, resetAt : Nat], RateOf(S, w, limit, t)
  PROVE  RateOf({m \in S : m[1] + RateWindow > t + 1}, w, limit, t + 1)
<1> DEFINE R == {m \in S : m[1] + RateWindow > t + 1}
<1>1. /\ Late(R, w) \in SUBSET Late(S, w) /\ Early(R, w) \in SUBSET Early(S, w)
      /\ After(R, w) \in SUBSET After(S, w)
  BY DEF Late, Early, After
<1>2. /\ IsFiniteSet(Late(S, w)) /\ IsFiniteSet(Early(S, w)) /\ IsFiniteSet(After(S, w))
      /\ Cardinality(Late(S, w)) \in Nat /\ Cardinality(Early(S, w)) \in Nat
      /\ Cardinality(After(S, w)) \in Nat
  BY TwoWindows
<1> HIDE DEF R
<1>3. /\ Cardinality(Late(R, w)) <= Cardinality(Late(S, w))
      /\ Cardinality(Early(R, w)) <= Cardinality(Early(S, w))
      /\ Cardinality(After(R, w)) <= Cardinality(After(S, w))
      /\ Cardinality(Late(R, w)) \in Nat /\ Cardinality(Early(R, w)) \in Nat
      /\ Cardinality(After(R, w)) \in Nat
  BY <1>1, <1>2, FS_Subset, FS_CardinalityType
<1>4. t \in Nat
  BY DEF Times
<1>5. R \in SUBSET S /\ \A m \in R : m[1] + RateWindow > t + 1
  BY DEF R
<1>6. w # NoWindow => w.resetAt <= t + 1 + RateWindow
  BY <1>4, ApiGateAssumption DEF RateOf
<1>7. /\ Cardinality(Late(R, w)) <= w.count /\ Cardinality(Late(R, w)) <= limit
      /\ Cardinality(Early(R, w)) < limit /\ Cardinality(After(R, w)) < limit
      /\ w # NoWindow => Cardinality(After(R, w)) < w.count
  BY <1>2, <1>3 DEF RateOf
<1>8. RateOf(R, w, limit, t + 1)
  BY <1>5, <1>6, <1>7 DEF RateOf
<1>9. QED
  BY <1>8 DEF R

LEMMA RateStart == Init => RateInv
<1> SUFFICES ASSUME Init, NEW c \in Consumers, NEW u \in Urls
             PROVE  RateOf(served[c][u], windows[c][u], LimitOf(u), now)
  BY DEF RateInv
<1>1. served[c][u] = {} /\ windows[c][u] = NoWindow /\ now = 0
  BY DEF Init
<1>2. QED
  BY <1>1, NoneServed, LimitIsOne

LEMMA RateSame == RateInv /\ UNCHANGED <<now, windows, served>> => RateInv'
  BY DEF RateInv

LEMMA RateStep == KeyInv /\ Typed /\ RateInv /\ [Next]_vars => RateInv'
<1> SUFFICES ASSUME KeyInv, Typed, RateInv, [Next]_vars PROVE RateInv'
  OBVIOUS
<1>1. /\ now \in Times
      /\ \A c \in Consumers : \A u \in Urls :
           /\ served[c][u] \in SUBSET Marks /\ IsFiniteSet(served[c][u])
           /\ windows[c][u] \in [count : Nat, resetAt : Nat]
  BY DEF Typed, TypeOK, FiniteMarks
<1>2. ASSUME NEW ip \in Ips, NEW k \in Keys, NEW c \in Consumers, Call(ip, k, c) PROVE RateInv'
  <2>1. PICK u \in Urls : Past(ip, k, c, u)
    BY <1>2, CallPast DEF Typed
  <2>2. /\ windows' = [windows EXCEPT ![c][u] = AfterRate(@)] /\ now' = now
        /\ IF Limited(windows[c][u], u) THEN served' = served
           ELSE served' = [served EXCEPT ![c][u] = Marked(@)]
    BY <2>1 DEF Past, Authenticated, Enter, Received
  <2>3. /\ windows'[c][u] = AfterRate(windows[c][u])
        /\ served'[c][u] = IF Limited(windows[c][u], u) THEN served[c][u]
                           ELSE Marked(served[c][u])
    BY <2>2 DEF Typed, TypeOK
  <2>4. RateOf(served[c][u], windows[c][u], LimitOf(u), now)
    BY DEF RateInv
  <2>5. RateOf(served'[c][u], windows'[c][u], LimitOf(u), now')
    BY <1>1, <2>2, <2>3, <2>4, RateServed, RateThrottled
  <2>6. ASSUME NEW d \in Consumers, NEW v \in Urls, d # c \/ v # u
        PROVE  served'[d][v] = served[d][v] /\ windows'[d][v] = windows[d][v]
    BY <2>2, <2>6 DEF Typed, TypeOK
  <2>7. ASSUME NEW d \in Consumers, NEW v \in Urls
        PROVE  RateOf(served'[d][v], windows'[d][v], LimitOf(v), now')
    BY <2>2, <2>5, <2>6 DEF RateInv
  <2>8. QED
    BY <2>7 DEF RateInv
<1>3. CASE Restart
  <2>1. /\ windows' = [c \in Consumers |-> [u \in Urls |-> NoWindow]]
        /\ served' = [c \in Consumers |-> [u \in Urls |-> {}]] /\ now' = now /\ now \in Nat
    BY <1>1, <1>3 DEF Restart, Times
  <2>2. QED
    BY <2>1, NoneServed, LimitIsOne DEF RateInv
<1>4. CASE Tick
  <2>1. /\ now' = now + 1 /\ windows' = windows
        /\ served' = [c \in Consumers |-> [u \in Urls |->
                        {m \in served[c][u] : m[1] + RateWindow > now + 1}]]
    BY <1>4 DEF Tick
  <2>2. ASSUME NEW c \in Consumers, NEW u \in Urls
        PROVE  RateOf(served'[c][u], windows'[c][u], LimitOf(u), now')
    <3>1. RateOf(served[c][u], windows[c][u], LimitOf(u), now)
      BY DEF RateInv
    <3>2. served'[c][u] = {m \in served[c][u] : m[1] + RateWindow > now + 1}
      BY <2>1
    <3>3. RateOf({m \in served[c][u] : m[1] + RateWindow > now + 1}, windows[c][u],
                 LimitOf(u), now + 1)
      BY <1>1, <3>1, LimitIsOne, RateTick
    <3>4. QED
      BY <2>1, <3>2, <3>3
  <2>3. QED
    BY <2>2 DEF RateInv
<1>5. CASE UNCHANGED vars
  BY <1>5, RateSame DEF vars, gate
<1>6. ASSUME NEW ip \in Ips, NoKey(ip) PROVE RateInv'
  BY <1>6, RateSame DEF NoKey, Enter, Received
<1>7. ASSUME NEW ip \in Ips, NEW k \in Keys, BadKey(ip, k) PROVE RateInv'
  BY <1>7, RateSame DEF BadKey, Enter, Received
<1>8. CASE Administer
  BY <1>8, RateSame DEF Administer, AddConsumer, RevokeConsumer, RotateKey, SetLocally,
                      DeleteLocally, Command, gate
<1>9. CASE PassBy
  BY <1>9, RateSame DEF PassBy, Received
<1>10. ASSUME NEW r \in Requests, Handler(r) PROVE RateInv'
  BY <1>10, RateSame, HandlerKeeps DEF gate
<1>11. QED
  BY <1>2, <1>3, <1>4, <1>5, <1>6, <1>7, <1>8, <1>9, <1>10 DEF Next

\* In any stretch of one window a consumer gets less than two limits of requests
\* through under one URL as it is written, however the fixed windows fall in it.
THEOREM GateRequestsPerWindow == Spec => []RequestsPerWindow
<1>1. Typed /\ RateInv => RequestsPerWindow
  <2> SUFFICES ASSUME Typed, RateInv, NEW c \in Consumers, NEW u \in Urls
               PROVE  Cardinality(served[c][u]) < 2 * LimitOf(u)
    BY DEF RequestsPerWindow
  <2> DEFINE S == served[c][u]
             w == windows[c][u]
  <2>1. /\ S \in SUBSET Marks /\ IsFiniteSet(S) /\ w \in [count : Nat, resetAt : Nat]
        /\ RateOf(S, w, LimitOf(u), now)
    BY DEF Typed, TypeOK, FiniteMarks, RateInv
  <2>2. LimitOf(u) \in Nat
    BY LimitIsOne
  <2> HIDE DEF S, w
  <2>3. /\ Cardinality(Late(S, w)) \in Nat /\ Cardinality(Early(S, w)) \in Nat
        /\ Cardinality(S) = Cardinality(Late(S, w)) + Cardinality(Early(S, w))
    BY <2>1, TwoWindows
  <2>4. Cardinality(S) < 2 * LimitOf(u)
    BY <2>1, <2>2, <2>3 DEF RateOf
  <2>5. QED
    BY <2>4 DEF S
<1>2. QED
  BY <1>1, KeyStart, KeyStep, TypedStart, TypedStep, RateStart, RateStep, PTL DEF Spec

-----------------------------------------------------------------------------
(* The failures F of an address in the last window, beside its entry e: an  *)
(* entry that is not locked counts none that is older than its window.      *)
Since(F, e) == {m \in F : m[1] + Window >= e.resetAt}

FailsOf(F, e, t) ==
  /\ \A m \in F : m[1] <= t /\ (m[1] = t => m[2] <= Cardinality(F))
  /\ ~ HasLock(e) /\ t < e.resetAt =>
       e.count <= Cardinality(Since(F, e)) /\ e.resetAt <= t + Window

FailsInv == \A ip \in Ips : FailsOf(fails[ip], buckets[ip], now)

\* What LockoutEarned says of one step.
Earned ==
  \A ip \in Ips :
    ~ HasLock(buckets[ip]) /\ HasLock(buckets'[ip]) => Cardinality(fails'[ip]) > FailureLimit

LEMMA NoFails ==
  ASSUME NEW t \in Nat
  PROVE  FailsOf({}, NoEntry, t)
  BY DEF FailsOf, NoEntry

LEMMA FailsChecked ==
  ASSUME NEW F, NEW e \in Entry, NEW t \in Nat, FailsOf(F, e, t)
  PROVE  FailsOf(F, AfterCheck(e, t), t) /\ (HasLock(AfterCheck(e, t)) => HasLock(e))
<1>1. CASE AfterCheck(e, t) = e
  BY <1>1
<1>2. CASE AfterCheck(e, t) = NoEntry
  BY <1>2 DEF FailsOf, NoEntry, HasLock
<1>3. QED
  BY <1>1, <1>2 DEF AfterCheck

\* A wrong key from an address that is not locked out at that moment.
LEMMA FailsCounted ==
  ASSUME now \in Times, NEW F \in SUBSET Marks, IsFiniteSet(F), NEW e \in Entry,
         FailsOf(F, e, now), ~ IsLocked(e, now)
  PROVE  /\ FailsOf(Marked(F), AfterBadKey(e), now)
         /\ HasLock(AfterBadKey(e)) => Cardinality(Marked(F)) > FailureLimit
<1> DEFINE m0 == <<now, Cardinality(F) + 1>>
           f == AfterBadKey(e)
<1>1. Marked(F) = F \cup {m0} /\ m0[1] = now /\ m0[2] = Cardinality(F) + 1
  BY OneMark
<1>2. now \in Nat /\ Cardinality(F) \in Nat /\ Window \in Nat \ {0} /\ FailureLimit \in Nat \ {0}
  BY FS_CardinalityType, LockoutAssumption DEF Times
<1>3. m0 \notin F
  BY <1>1, <1>2 DEF FailsOf
<1>4. IsFiniteSet(Marked(F)) /\ Cardinality(Marked(F)) = Cardinality(F) + 1
  <2> HIDE DEF m0
  <2>1. QED
    BY <1>1, <1>3, FS_AddElement
<1>5. \A m \in Marked(F) : m[1] <= now /\ (m[1] = now => m[2] <= Cardinality(Marked(F)))
  <2>1. \A m \in F : m[2] \in Nat
    BY DEF Marks
  <2> HIDE DEF m0
  <2>2. QED
    BY <1>1, <1>2, <1>4, <2>1 DEF FailsOf
<1>6. CASE Outlived(e, now)
  <2>1. f = Opened(now)
    BY <1>6 DEF AfterBadKey, AfterCheck, AfterFailure
  <2>2. f.count = 1 /\ f.resetAt = now + Window /\ ~ HasLock(f)
    BY <2>1 DEF Opened, HasLock
  <2> HIDE DEF m0, f
  <2>3. m0 \in Since(Marked(F), f)
    BY <1>1, <1>2, <2>2 DEF Since
  <2>4. IsFiniteSet(Since(Marked(F), f)) /\ Cardinality(Since(Marked(F), f)) \in Nat
    BY <1>4, FS_Subset, FS_CardinalityType DEF Since
  <2>5. Cardinality(Since(Marked(F), f)) # 0
    BY <2>3, <2>4, FS_EmptySet
  <2>6. QED
    BY <1>2, <1>5, <2>2, <2>4, <2>5 DEF FailsOf, f
<1>7. CASE ~ Outlived(e, now)
  <2>1. ~ HasLock(e) /\ now < e.resetAt
    BY <1>2, <1>7 DEF Outlived, IsLocked, Entry
  <2>2. e # NoEntry
    BY <1>2, <2>1 DEF NoEntry
  <2>3. f = [count |-> e.count + 1, resetAt |-> e.resetAt,
             lockedUntil |-> IF e.count + 1 > FailureLimit THEN now + LockoutTime ELSE e.lockedUntil]
    BY <1>2, <1>7, <2>1, <2>2 DEF AfterBadKey, AfterCheck, AfterFailure, Entry
  <2>4. /\ f.count = e.count + 1 /\ f.resetAt = e.resetAt
        /\ HasLock(f) => e.count + 1 > FailureLimit
    BY <2>1, <2>3 DEF HasLock
  <2>5. e.count <= Cardinality(Since(F, e)) /\ e.resetAt <= now + Window
    BY <2>1 DEF FailsOf
  <2> HIDE DEF m0, f
  <2>6. Since(Marked(F), f) = Since(F, e) \cup {m0}
    BY <1>1, <2>4, <2>5 DEF Since
  <2>7. IsFiniteSet(Since(F, e)) /\ Cardinality(Since(F, e)) \in Nat /\ m0 \notin Since(F, e)
    BY <1>3, FS_Subset, FS_CardinalityType DEF Since
  <2>8. Cardinality(Since(Marked(F), f)) = Cardinality(Since(F, e)) + 1
    BY <2>6, <2>7, FS_AddElement
  <2>9. Cardinality(Since(F, e)) <= Cardinality(F)
    BY FS_Subset DEF Since
  <2>10. e.count \in Nat
    BY DEF Entry
  <2>11. f.count <= Cardinality(Since(Marked(F), f))
    BY <2>4, <2>5, <2>7, <2>8, <2>10
  <2>12. HasLock(f) => Cardinality(Marked(F)) > FailureLimit
    BY <1>2, <1>4, <2>4, <2>5, <2>7, <2>9, <2>10
  <2>13. QED
    BY <1>5, <2>4, <2>5, <2>11, <2>12 DEF FailsOf, f
<1>8. QED
  BY <1>6, <1>7

\* The passing of time forgets no failure that an open window counts.
LEMMA FailsTick ==
  ASSUME NEW t \in Times, NEW F \in SUBSET Marks, NEW e \in Entry, FailsOf(F, e, t)
  PROVE  FailsOf({m \in F : m[1] + Window > t + 1}, e, t + 1)
<1> DEFINE R == {m \in F : m[1] + Window > t + 1}
<1>1. t \in Nat /\ Window \in Nat \ {0} /\ \A m \in F : m[1] \in Nat
  BY LockoutAssumption DEF Marks, Times
<1>2. \A m \in R : m[1] < t + 1
  BY <1>1 DEF FailsOf
<1>3. ASSUME ~ HasLock(e), t + 1 < e.resetAt
      PROVE  e.count <= Cardinality(Since(R, e)) /\ e.resetAt <= t + 1 + Window
  <2>1. e.resetAt \in Nat
    BY DEF Entry
  <2>2. e.count <= Cardinality(Since(F, e)) /\ e.resetAt <= t + Window
    BY <1>1, <1>3, <2>1 DEF FailsOf
  <2>3. \A m \in F : m[1] + Window >= e.resetAt => m[1] + Window > t + 1
    BY <1>1, <1>3, <2>1
  <2>4. Since(R, e) = Since(F, e)
    BY <2>3 DEF Since
  <2>5. QED
    BY <1>1, <2>1, <2>2, <2>4
<1>4. \A m \in R : m[1] <= t + 1 /\ m[1] # t + 1
  BY <1>1, <1>2
<1> HIDE DEF R
<1>5. FailsOf(R, e, t + 1)
  BY <1>3, <1>4 DEF FailsOf
<1>6. QED
  BY <1>5 DEF R

LEMMA FailsStart == Init => FailsInv
<1> SUFFICES ASSUME Init, NEW ip \in Ips PROVE FailsOf(fails[ip], buckets[ip], now)
  BY DEF FailsInv
<1>1. fails[ip] = {} /\ buckets[ip] = NoEntry /\ now = 0
  BY DEF Init
<1>2. QED
  BY <1>1, NoFails

\* A request that adds no failure leaves of the entry what a check leaves of it.
LEMMA FailsQuiet ==
  ASSUME Typed, FailsInv, NEW ip \in Ips, UNCHANGED <<now, fails>>,
         buckets' = [buckets EXCEPT ![ip] = AfterCheck(@, now)]
  PROVE  FailsInv' /\ Earned
<1>1. now \in Nat /\ buckets[ip] \in Entry
  BY DEF Typed, TypeOK, Times
<1>2. /\ FailsOf(fails[ip], AfterCheck(buckets[ip], now), now)
      /\ HasLock(AfterCheck(buckets[ip], now)) => HasLock(buckets[ip])
  BY <1>1, FailsChecked DEF FailsInv
<1>3. /\ buckets'[ip] = AfterCheck(buckets[ip], now)
      /\ \A j \in Ips \ {ip} : buckets'[j] = buckets[j]
  BY DEF Typed, TypeOK
<1>4. QED
  BY <1>2, <1>3 DEF FailsInv, Earned

LEMMA FailsStep == KeyInv /\ Typed /\ FailsInv /\ [Next]_vars => FailsInv' /\ [Earned]_vars
<1> SUFFICES ASSUME KeyInv, Typed, FailsInv, [Next]_vars PROVE FailsInv' /\ Earned
  OBVIOUS
<1>1. ASSUME UNCHANGED <<now, buckets, fails>> PROVE FailsInv' /\ Earned
  BY <1>1 DEF FailsInv, Earned
<1>2. ASSUME NEW ip \in Ips, NoKey(ip) PROVE FailsInv' /\ Earned
  BY <1>2, FailsQuiet DEF NoKey, Enter, Received
<1>3. ASSUME NEW ip \in Ips, NEW k \in Keys, BadKey(ip, k) PROVE FailsInv' /\ Earned
  <2>1. /\ buckets' = [buckets EXCEPT ![ip] = AfterBadKey(@)] /\ now' = now
        /\ fails' = [fails EXCEPT ![ip] = Marked(@)] /\ ~ IsLocked(buckets[ip], now)
    BY <1>3 DEF BadKey, Enter, Received, Barred_ByLockout
  <2>2. /\ now \in Times /\ fails[ip] \in SUBSET Marks /\ IsFiniteSet(fails[ip])
        /\ buckets[ip] \in Entry
    BY DEF Typed, TypeOK, FiniteMarks
  <2>3. /\ FailsOf(Marked(fails[ip]), AfterBadKey(buckets[ip]), now)
        /\ HasLock(AfterBadKey(buckets[ip])) => Cardinality(Marked(fails[ip])) > FailureLimit
    BY <2>1, <2>2, FailsCounted DEF FailsInv
  <2>4. /\ buckets'[ip] = AfterBadKey(buckets[ip]) /\ fails'[ip] = Marked(fails[ip])
        /\ \A j \in Ips \ {ip} : buckets'[j] = buckets[j] /\ fails'[j] = fails[j]
    BY <2>1 DEF Typed, TypeOK
  <2>5. QED
    BY <2>1, <2>3, <2>4 DEF FailsInv, Earned
<1>4. ASSUME NEW ip \in Ips, NEW k \in Keys, NEW c \in Consumers, Call(ip, k, c)
      PROVE  FailsInv' /\ Earned
  <2>1. PICK u \in Urls : Past(ip, k, c, u)
    BY <1>4, CallPast DEF Typed
  <2>2. /\ buckets' = [buckets EXCEPT ![ip] = AfterCheck(@, now)] /\ UNCHANGED <<now, fails>>
    BY <2>1 DEF Past, Authenticated, Enter, Received
  <2>3. QED
    BY <2>2, FailsQuiet
<1>5. CASE Administer
  BY <1>1, <1>5 DEF Administer, AddConsumer, RevokeConsumer, RotateKey, SetLocally,
                   DeleteLocally, Command, gate
<1>6. CASE Restart
  <2>1. /\ buckets' = [ip \in Ips |-> NoEntry] /\ fails' = [ip \in Ips |-> {}]
        /\ now' = now /\ now \in Nat
    BY <1>6 DEF Restart, Typed, TypeOK, Times
  <2>2. ~ HasLock(NoEntry)
    BY DEF HasLock, NoEntry
  <2>3. QED
    BY <2>1, <2>2, NoFails DEF FailsInv, Earned
<1>7. CASE Tick
  <2>1. /\ now' = now + 1 /\ buckets' = buckets
        /\ fails' = [ip \in Ips |-> {m \in fails[ip] : m[1] + Window > now + 1}]
    BY <1>7 DEF Tick
  <2>2. ASSUME NEW ip \in Ips PROVE FailsOf(fails'[ip], buckets'[ip], now')
    <3>1. FailsOf(fails[ip], buckets[ip], now)
      BY DEF FailsInv
    <3>2. FailsOf({m \in fails[ip] : m[1] + Window > now + 1}, buckets[ip], now + 1)
      BY <3>1, FailsTick DEF Typed, TypeOK
    <3>3. QED
      BY <2>1, <3>2
  <2>3. QED
    BY <2>1, <2>2 DEF FailsInv, Earned
<1>8. CASE UNCHANGED vars
  BY <1>1, <1>8 DEF vars, gate
<1>9. CASE PassBy
  BY <1>1, <1>9 DEF PassBy, Received
<1>10. ASSUME NEW r \in Requests, Handler(r) PROVE FailsInv' /\ Earned
  BY <1>1, <1>10, HandlerKeeps DEF gate
<1>11. QED
  BY <1>2, <1>3, <1>4, <1>5, <1>6, <1>7, <1>8, <1>9, <1>10 DEF Next

\* An address is locked out by wrong keys alone, more of them than the limit within
\* one window, for any limit, window and lockout and any callers beside it.
THEOREM GateLockoutEarned == Spec => LockoutEarned
  BY KeyStart, KeyStep, TypedStart, TypedStep, FailsStart, FailsStep, PTL
     DEF Spec, LockoutEarned, Earned

\* The API with the MCP server in front of it keeps the types of the gate.
THEOREM McpTypeCorrect == McpSpec => []TypeOK
  BY ToolsAreCalls, GateTypeCorrect, PTL DEF McpSpec, Spec

\* The rate limit, the limit of alerts and the lockout hold with the MCP server in
\* front of the API, whose callers share one address, as they do without it.
THEOREM McpLimitsHold == McpSpec => [](RequestsPerWindow /\ AlertsPerWindow) /\ LockoutEarned
  BY ToolsAreCalls, GateRequestsPerWindow, GateAlertsPerWindow, GateLockoutEarned, PTL
     DEF McpSpec, Spec
=============================================================================
