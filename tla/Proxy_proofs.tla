---------------------------- MODULE Proxy_proofs ----------------------------
(***************************************************************************)
(* Proofs about Proxy and the OAuth guards it extends, for any guards,     *)
(* entries of the manifest, tools, patterns, secrets and environment.      *)
(***************************************************************************)
EXTENDS Proxy, TLAPS

\* What a process may have been injected, and its environment.
Process ==
  [at : {"none", "asking", "answering", "fetched", "up"},
   injected : UNION {[S -> Nat] : S \in SUBSET Names},
   env : [Vars -> {"unset", "plain", "key", "static"} \cup Names]]

ProxyTyped ==
  /\ entry \in Entries
  /\ readable \in [Names -> Nat]
  /\ started \in [Guards -> Entries]
  /\ child \in [Guards -> Process]
  /\ listed \in [Guards -> SUBSET Tools] /\ offered \in [Guards -> SUBSET Tools]
  /\ tools \in SUBSET Tools
  /\ call \in [Guards -> [tool : Tools \cup {"none"},
                          verdict : {"none", "notAllowed", "badArgs", "forwarded"},
                          text : SUBSET Patterns]]
  /\ seen \in [Guards -> [Names -> SUBSET Nat]]

\* What came so far is of names the entry asks for, each as it was readable during the
\* request; what is readable now is among that.
Arrived(g) ==
  /\ DOMAIN child[g].injected \subseteq DOMAIN started[g].secrets
  /\ \A n \in DOMAIN child[g].injected : child[g].injected[n] \in seen[g][n]

Watched(g) == \A n \in Names : readable[n] \in seen[g][n]

\* All of it came.
Complete(g) ==
  /\ DOMAIN child[g].injected = DOMAIN started[g].secrets
  /\ \A n \in DOMAIN started[g].secrets :
       child[g].injected[n] > 0 /\ child[g].injected[n] \in seen[g][n]

\* Its environment holds the secrets, and neither key.
Equipped(g) ==
  LET e == started[g] IN
  /\ \A n \in DOMAIN e.secrets :
       child[g].env[e.secrets[n]] \in {m \in DOMAIN e.secrets : e.secrets[m] = e.secrets[n]}
  /\ \A v \in Stripped(e) : child[g].env[v] # "key"

\* What holds of a guard by the place it has come to.
ChildOf(g) ==
  /\ child[g].at \in {"asking", "answering", "fetched"} => started[g].transport = "stdio"
  /\ child[g].at \in {"none", "asking"} => child[g].injected = NoSecrets
  /\ child[g].at = "answering" => Arrived(g) /\ Watched(g)
  /\ child[g].at \in {"fetched", "up"} /\ started[g].transport = "stdio" => Complete(g)
  /\ child[g].at = "up" /\ started[g].transport = "stdio" => Equipped(g)

ChildInv == \A g \in Guards : ChildOf(g)

\* The list that a guard answered is what its policy left of the offer, and its
\* verdicts are those of the same policy.
CallsInv ==
  \A g \in Guards :
    /\ child[g].at # "up" => listed[g] = {} /\ offered[g] = {} /\ call[g] = NoCall
    /\ listed[g] = offered[g] \cap Policy(g).allow
    /\ call[g].verdict \in {"forwarded", "badArgs"} => call[g].tool \in Policy(g).allow
    /\ call[g].verdict = "notAllowed" => call[g].tool \notin Policy(g).allow

ProxyInv == ProxyTyped /\ ChildInv /\ CallsInv

LEMMA EntryOf ==
  ASSUME NEW e \in Entries
  PROVE  /\ e.secrets \in UNION {[S -> Vars] : S \in SUBSET Names}
         /\ DOMAIN e.secrets \in SUBSET Names
         /\ \A n \in DOMAIN e.secrets : e.secrets[n] \in Vars
         /\ e.keyVar \in Vars
<1>1. IsEntry(e)
  BY EntriesAssumption
<1>2. PICK S \in SUBSET Names : e.secrets \in [S -> Vars]
  BY <1>1 DEF IsEntry
<1>3. QED
  BY <1>1, <1>2 DEF IsEntry

LEMMA NoProcess == NoChild \in Process
<1>1. NoSecrets \in [{} -> Nat]
  BY DEF NoSecrets
<1>2. NoSecrets \in UNION {[S -> Nat] : S \in SUBSET Names}
  BY <1>1
<1>3. QED
  BY <1>2 DEF NoChild, Process

LEMMA EnvTyped ==
  ASSUME NEW e \in Entries
  PROVE  /\ ChildEnv(e) \in [Vars -> {"unset", "plain", "key", "static"} \cup Names]
         /\ \A v \in Stripped(e) : ChildEnv(e)[v] # "key"
         /\ \A n \in DOMAIN e.secrets :
              ChildEnv(e)[e.secrets[n]] \in {m \in DOMAIN e.secrets : e.secrets[m] = e.secrets[n]}
<1>1. Stripped(e) \subseteq Vars
  BY EntryOf, ProxyAssumption DEF Stripped
<1>2. DOMAIN e.secrets \subseteq Names /\ \A n \in DOMAIN e.secrets : e.secrets[n] \in Vars
  BY EntryOf
<1>3. ASSUME NEW v \in Vars, NEW n \in DOMAIN e.secrets, e.secrets[n] = v
      PROVE  LastFor(e, v) \in DOMAIN e.secrets /\ e.secrets[LastFor(e, v)] = v
  BY <1>3 DEF LastFor
<1>4. \A v \in Vars :
        /\ (\E n \in DOMAIN e.secrets : e.secrets[n] = v) => ChildEnv(e)[v] = LastFor(e, v)
        /\ (\A n \in DOMAIN e.secrets : e.secrets[n] # v) =>
             /\ ChildEnv(e)[v] \in {"unset", "plain", "key", "static"}
             /\ v \in Stripped(e) => ChildEnv(e)[v] \in {"static", "unset"}
  BY ProxyAssumption DEF ChildEnv
<1>5. \A v \in Vars : ChildEnv(e)[v] \in {"unset", "plain", "key", "static"} \cup Names
  BY <1>2, <1>3, <1>4
<1>6. ChildEnv(e) \in [Vars -> {"unset", "plain", "key", "static"} \cup Names]
  BY <1>5 DEF ChildEnv
<1>7. ASSUME NEW v \in Stripped(e) PROVE ChildEnv(e)[v] # "key"
  <2>1. CASE \E n \in DOMAIN e.secrets : e.secrets[n] = v
    <3>1. ChildEnv(e)[v] \in Names
      BY <1>1, <1>2, <1>3, <1>4, <2>1
    <3>2. QED
      BY <3>1, ProxyAssumption
  <2>2. CASE \A n \in DOMAIN e.secrets : e.secrets[n] # v
    BY <1>1, <1>4, <2>2
  <2>3. QED
    BY <2>1, <2>2
<1>8. \A n \in DOMAIN e.secrets :
        ChildEnv(e)[e.secrets[n]] \in {m \in DOMAIN e.secrets : e.secrets[m] = e.secrets[n]}
  BY <1>2, <1>3, <1>4
<1>9. QED
  BY <1>6, <1>7, <1>8

LEMMA ProxyStart == ProxyInit => ProxyInv
<1> SUFFICES ASSUME ProxyInit PROVE ProxyInv
  OBVIOUS
<1>1. NoCall \in [tool : Tools \cup {"none"},
                  verdict : {"none", "notAllowed", "badArgs", "forwarded"},
                  text : SUBSET Patterns]
  BY DEF NoCall
<1>2. ProxyTyped
  BY <1>1, NoProcess DEF ProxyInit, ProxyTyped, Unseen
<1>3. ChildInv
  BY DEF ProxyInit, ChildInv, ChildOf, NoChild
<1>4. CallsInv
  BY DEF ProxyInit, CallsInv, NoChild, NoCall
<1>5. QED
  BY <1>2, <1>3, <1>4 DEF ProxyInv

\* What holds of a guard stays so in a step that leaves it alone.
LEMMA ChildSame ==
  ASSUME NEW g \in Guards, ChildOf(g), child'[g] = child[g], started'[g] = started[g],
         seen'[g] = seen[g], readable' = readable
  PROVE  ChildOf(g)'
  BY DEF ChildOf, Arrived, Watched, Complete, Equipped, Stripped

\* Steps that touch neither a guard nor what it was started from.
LEMMA ProxyQuiet ==
  ASSUME ProxyInv, UNCHANGED <<started, child, listed, offered, call, seen, readable>>,
         entry' \in Entries, tools' \in SUBSET Tools
  PROVE  ProxyInv'
<1>1. ProxyTyped'
  BY DEF ProxyInv, ProxyTyped
<1>2. ChildInv'
  BY ChildSame DEF ProxyInv, ChildInv
<1>3. CallsInv'
  BY DEF ProxyInv, CallsInv, Policy
<1>4. QED
  BY <1>1, <1>2, <1>3 DEF ProxyInv

\* A step of the start of g, on the way to its process.
LEMMA OnTheWay ==
  ASSUME ProxyInv, NEW g \in Guards, NEW p \in Process, NEW s \in [Names -> SUBSET Nat],
         child[g].at # "up", p.at # "up",
         child' = [child EXCEPT ![g] = p], seen' = [seen EXCEPT ![g] = s],
         UNCHANGED <<entry, readable, tools, started, listed, offered, call>>,
         ChildOf(g)'
  PROVE  ProxyInv'
<1>1. ProxyTyped'
  BY DEF ProxyInv, ProxyTyped
<1>2. child'[g] = p /\ \A h \in Guards \ {g} : child'[h] = child[h] /\ seen'[h] = seen[h]
  BY DEF ProxyInv, ProxyTyped
<1>3. ChildInv'
  BY <1>2, ChildSame DEF ProxyInv, ChildInv
<1>4. CallsInv'
  BY <1>2 DEF ProxyInv, CallsInv, Policy
<1>5. QED
  BY <1>1, <1>3, <1>4 DEF ProxyInv

LEMMA ProxyStep == ProxyInv /\ [ProxyNext]_allVars => ProxyInv'
<1> SUFFICES ASSUME ProxyInv, [ProxyNext]_allVars PROVE ProxyInv'
  OBVIOUS
<1>1. CASE OAuthStep \/ UNCHANGED allVars
  BY <1>1, ProxyQuiet DEF OAuthStep, allVars, proxyVars, ProxyInv, ProxyTyped
<1>2. CASE Change
  <2>1. entry' \in Entries /\ tools' \in SUBSET Tools
    BY <1>2 DEF Change, ProxyInv, ProxyTyped
  <2>2. readable' \in [Names -> Nat]
    <3>1. readable \in [Names -> Nat]
      BY DEF ProxyInv, ProxyTyped
    <3>2. \/ readable' = readable
          \/ \E n \in Names, v \in 0 .. 2 : readable' = [readable EXCEPT ![n] = v]
      BY <1>2 DEF Change
    <3>3. QED
      BY <3>1, <3>2
  <2>3. /\ UNCHANGED <<started, child, listed, offered, call>>
        /\ seen' = [g \in Guards |-> IF child[g].at # "answering" THEN seen[g]
                                     ELSE [n \in Names |-> seen[g][n] \cup {readable'[n]}]]
    BY <1>2 DEF Change
  <2>4. seen' \in [Guards -> [Names -> SUBSET Nat]]
    BY <2>2, <2>3 DEF ProxyInv, ProxyTyped
  <2>5. ProxyTyped'
    BY <2>1, <2>2, <2>3, <2>4 DEF ProxyInv, ProxyTyped
  <2>6. ASSUME NEW g \in Guards PROVE ChildOf(g)'
    <3>1. ChildOf(g) /\ DOMAIN started[g].secrets \subseteq Names
      BY EntryOf DEF ProxyInv, ChildInv, ProxyTyped
    <3>2. CASE child[g].at # "answering"
      <4>1. seen'[g] = seen[g]
        BY <2>3, <3>2
      <4>2. QED
        BY <2>3, <3>1, <3>2, <4>1 DEF ChildOf, Complete, Equipped, Stripped
    <3>3. CASE child[g].at = "answering"
      <4>1. \A n \in Names : seen'[g][n] = seen[g][n] \cup {readable'[n]}
        BY <2>3, <3>3
      <4>2. Watched(g)'
        BY <4>1 DEF Watched
      <4>3. Arrived(g)'
        BY <2>3, <3>1, <3>3, <4>1 DEF ChildOf, Arrived
      <4>4. QED
        BY <2>3, <3>1, <3>3, <4>2, <4>3 DEF ChildOf
    <3>4. QED
      BY <3>2, <3>3
  <2>7. CallsInv'
    BY <2>3 DEF ProxyInv, CallsInv, Policy
  <2>8. QED
    BY <2>5, <2>6, <2>7 DEF ProxyInv, ChildInv
<1>3. ASSUME NEW g \in Guards, Launch(g) PROVE ProxyInv'
  <2>1. /\ entry.transport = "stdio" /\ child[g].at = "none"
        /\ started' = [started EXCEPT ![g] = entry]
        /\ child' = [child EXCEPT ![g].at = "asking"]
        /\ UNCHANGED <<entry, readable, tools, listed, offered, call, seen>>
    BY <1>3 DEF Launch
  <2>2. child[g] \in Process /\ entry \in Entries
    BY DEF ProxyInv, ProxyTyped
  <2>3. [child[g] EXCEPT !.at = "asking"] \in Process
    BY <2>2 DEF Process
  <2>4. ProxyTyped'
    BY <2>1, <2>2, <2>3 DEF ProxyInv, ProxyTyped
  <2>5. /\ child'[g].at = "asking" /\ started'[g].transport = "stdio"
        /\ child'[g].injected = child[g].injected
    BY <2>1, <2>2 DEF ProxyInv, ProxyTyped, Process
  <2>6. \A h \in Guards \ {g} : child'[h] = child[h] /\ started'[h] = started[h]
    BY <2>1 DEF ProxyInv, ProxyTyped
  <2>7. ChildOf(g)'
    BY <2>1, <2>5 DEF ProxyInv, ChildInv, ChildOf
  <2>8. ChildInv'
    BY <2>1, <2>6, <2>7, ChildSame DEF ProxyInv, ChildInv
  <2>9. listed[g] = {} /\ offered[g] = {} /\ call[g].verdict = "none"
    BY <2>1 DEF ProxyInv, CallsInv, NoCall
  <2>10. CallsInv'
    BY <2>1, <2>6, <2>9 DEF ProxyInv, CallsInv, Policy
  <2>11. QED
    BY <2>4, <2>8, <2>10 DEF ProxyInv
<1>4. ASSUME NEW g \in Guards, BeginBatch(g) PROVE ProxyInv'
  <2> DEFINE p == [child[g] EXCEPT !.at = "answering"]
             s == [n \in Names |-> {readable[n]}]
  <2>1. /\ child[g].at = "asking" /\ child' = [child EXCEPT ![g] = p]
        /\ seen' = [seen EXCEPT ![g] = s]
        /\ UNCHANGED <<entry, readable, tools, started, listed, offered, call>>
    BY <1>4 DEF BeginBatch, Starting
  <2>2. child[g] \in Process /\ s \in [Names -> SUBSET Nat]
    BY DEF ProxyInv, ProxyTyped
  <2>3. p \in Process /\ p.at = "answering" /\ p.injected = child[g].injected
    BY <2>2 DEF Process
  <2>4. child'[g] = p /\ seen'[g] = s
    BY <2>1 DEF ProxyInv, ProxyTyped
  <2>5. ChildOf(g)
    BY DEF ProxyInv, ChildInv
  <2>6. Watched(g)'
    BY <2>1, <2>4 DEF Watched
  <2> HIDE DEF p, s
  <2>7. Arrived(g)'
    BY <2>1, <2>3, <2>4, <2>5 DEF ChildOf, Arrived, NoSecrets
  <2>8. ChildOf(g)'
    BY <2>1, <2>3, <2>4, <2>5, <2>6, <2>7 DEF ChildOf
  <2>9. QED
    BY <2>1, <2>2, <2>3, <2>8, OnTheWay
<1>5. ASSUME NEW g \in Guards, NEW n \in Names, ReadName(g, n) PROVE ProxyInv'
  <2>1. PICK answer : /\ answer = Extended(child[g].injected, n)
                      /\ child' = [child EXCEPT ![g] = [child[g] EXCEPT !.injected = answer]]
    BY <1>5 DEF ReadName
  <2>2. /\ child[g].at = "answering" /\ n \in DOMAIN started[g].secrets
        /\ UNCHANGED <<entry, readable, tools, started, listed, offered, call, seen>>
    BY <1>5 DEF ReadName, Starting
  <2>3. /\ child[g] \in Process /\ readable \in [Names -> Nat]
        /\ seen[g] \in [Names -> SUBSET Nat]
    BY DEF ProxyInv, ProxyTyped
  <2>4. PICK S \in SUBSET Names : child[g].injected \in [S -> Nat]
    BY <2>3 DEF Process
  <2>5. answer \in [S \cup {n} -> Nat]
    BY <2>1, <2>3, <2>4 DEF Extended
  <2>6. answer \in UNION {[T -> Nat] : T \in SUBSET Names}
    BY <2>5
  <2>7. PICK p : p = [child[g] EXCEPT !.injected = answer]
    OBVIOUS
  <2>8. p \in Process /\ p.at = "answering" /\ p.injected = answer
    BY <2>2, <2>3, <2>6, <2>7 DEF Process
  <2>9. child'[g] = p /\ child' = [child EXCEPT ![g] = p]
    BY <2>1, <2>7 DEF ProxyInv, ProxyTyped
  <2>10. ChildOf(g)
    BY DEF ProxyInv, ChildInv
  <2>11. Arrived(g) /\ Watched(g)
    BY <2>2, <2>10 DEF ChildOf
  <2>12. Arrived(g)'
    BY <2>1, <2>2, <2>8, <2>9, <2>11 DEF Arrived, Watched, Extended
  <2>13. ChildOf(g)'
    BY <2>2, <2>8, <2>9, <2>10, <2>11, <2>12 DEF ChildOf, Watched
  <2>14. seen' = [seen EXCEPT ![g] = seen[g]]
    BY <2>2 DEF ProxyInv, ProxyTyped
  <2>15. QED
    BY <2>2, <2>3, <2>8, <2>9, <2>13, <2>14, OnTheWay
<1>6. ASSUME NEW g \in Guards, FetchSecrets(g) PROVE ProxyInv'
  <2>1. PICK p : /\ p = [child[g] EXCEPT !.at = "fetched"]
                 /\ child' = [child EXCEPT ![g] = p]
    BY <1>6 DEF FetchSecrets
  <2>2. /\ child[g].at = "answering" /\ BatchGood(started[g], child[g].injected)
        /\ UNCHANGED <<entry, readable, tools, started, listed, offered, call, seen>>
    BY <1>6 DEF FetchSecrets, Starting
  <2>3. child[g] \in Process /\ seen[g] \in [Names -> SUBSET Nat]
    BY DEF ProxyInv, ProxyTyped
  <2>4. p \in Process /\ p.at = "fetched" /\ p.injected = child[g].injected
    BY <2>1, <2>3 DEF Process
  <2>5. child'[g] = p
    BY <2>1 DEF ProxyInv, ProxyTyped
  <2>6. ChildOf(g)
    BY DEF ProxyInv, ChildInv
  <2>7. Complete(g)'
    BY <2>2, <2>4, <2>5, <2>6 DEF ChildOf, Arrived, Complete, BatchGood
  <2>8. ChildOf(g)'
    BY <2>2, <2>4, <2>5, <2>6, <2>7 DEF ChildOf
  <2>9. seen' = [seen EXCEPT ![g] = seen[g]]
    BY <2>2 DEF ProxyInv, ProxyTyped
  <2>10. QED
    BY <2>1, <2>2, <2>3, <2>4, <2>8, <2>9, OnTheWay
<1>7. ASSUME NEW g \in Guards, FetchFails(g) PROVE ProxyInv'
  <2>1. /\ child[g].at \in {"asking", "answering"}
        /\ child' = [child EXCEPT ![g] = NoChild] /\ seen' = [seen EXCEPT ![g] = Unseen]
        /\ UNCHANGED <<entry, readable, tools, started, listed, offered, call>>
    BY <1>7 DEF FetchFails, Starting
  <2>2. Unseen \in [Names -> SUBSET Nat] /\ NoChild.at = "none" /\ NoChild.injected = NoSecrets
    BY DEF Unseen, NoChild
  <2>3. child'[g] = NoChild
    BY <2>1 DEF ProxyInv, ProxyTyped
  <2>4. ChildOf(g)'
    BY <2>2, <2>3 DEF ChildOf
  <2>5. QED
    BY <2>1, <2>2, <2>4, NoProcess, OnTheWay
<1>8. ASSUME NEW g \in Guards, Spawn(g) PROVE ProxyInv'
  <2>1. PICK env : /\ env = ChildEnv(started[g])
                   /\ child' = [child EXCEPT ![g] = [child[g] EXCEPT !.at = "up", !.env = env]]
    BY <1>8 DEF Spawn
  <2>2. /\ child[g].at = "fetched"
        /\ UNCHANGED <<entry, readable, tools, started, listed, offered, call, seen>>
    BY <1>8 DEF Spawn, Starting
  <2>3. child[g] \in Process /\ started[g] \in Entries
    BY DEF ProxyInv, ProxyTyped
  <2>4. env \in [Vars -> {"unset", "plain", "key", "static"} \cup Names]
    BY <2>1, <2>3, EnvTyped
  <2>5. [child[g] EXCEPT !.at = "up", !.env = env] \in Process
    BY <2>3, <2>4 DEF Process
  <2>6. /\ child'[g] = [child[g] EXCEPT !.at = "up", !.env = env]
        /\ \A h \in Guards \ {g} : child'[h] = child[h]
    BY <2>1 DEF ProxyInv, ProxyTyped
  <2>7. ProxyTyped'
    BY <2>1, <2>2, <2>5 DEF ProxyInv, ProxyTyped
  <2>8. child'[g].at = "up" /\ child'[g].injected = child[g].injected /\ child'[g].env = env
    BY <2>3, <2>6 DEF Process
  <2>9. ChildOf(g)
    BY DEF ProxyInv, ChildInv
  <2>10. Complete(g)'
    BY <2>2, <2>8, <2>9 DEF ChildOf, Complete
  <2>11. Equipped(g)'
    <3>1. /\ \A n \in DOMAIN started[g].secrets : env[started[g].secrets[n]] \in
                 {m \in DOMAIN started[g].secrets : started[g].secrets[m] = started[g].secrets[n]}
          /\ \A v \in Stripped(started[g]) : env[v] # "key"
      BY <2>1, <2>3, EnvTyped
    <3>2. QED
      BY <2>2, <2>8, <3>1 DEF Equipped, Stripped
  <2>12. ChildOf(g)'
    BY <2>8, <2>10, <2>11 DEF ChildOf
  <2>13. ChildInv'
    BY <2>2, <2>6, <2>12, ChildSame DEF ProxyInv, ChildInv
  <2>14. CallsInv'
    <3>1. \A h \in Guards : Policy(h)' = Policy(h) /\ (child'[h].at # "up" => child[h].at # "up")
      BY <2>2, <2>6, <2>8 DEF Policy
    <3>2. UNCHANGED <<listed, offered, call>>
      BY <2>2
    <3>3. QED
      BY <3>1, <3>2 DEF ProxyInv, CallsInv
  <2>15. QED
    BY <2>7, <2>13, <2>14 DEF ProxyInv
<1>9. ASSUME NEW g \in Guards, ConnectHttp(g) PROVE ProxyInv'
  <2>1. /\ entry.transport = "http" /\ child[g].at = "none"
        /\ started' = [started EXCEPT ![g] = entry]
        /\ child' = [child EXCEPT ![g].at = "up"]
        /\ UNCHANGED <<entry, readable, tools, listed, offered, call, seen>>
    BY <1>9 DEF ConnectHttp
  <2>2. child[g] \in Process /\ entry \in Entries
    BY DEF ProxyInv, ProxyTyped
  <2>3. [child[g] EXCEPT !.at = "up"] \in Process
    BY <2>2 DEF Process
  <2>4. ProxyTyped'
    BY <2>1, <2>2, <2>3 DEF ProxyInv, ProxyTyped
  <2>5. child'[g].at = "up" /\ started'[g].transport = "http"
    BY <2>1, <2>2 DEF ProxyInv, ProxyTyped, Process
  <2>6. \A h \in Guards \ {g} : child'[h] = child[h] /\ started'[h] = started[h]
    BY <2>1 DEF ProxyInv, ProxyTyped
  <2>7. ChildInv'
    <3>1. ChildOf(g)'
      BY <2>5 DEF ChildOf
    <3>2. QED
      BY <2>1, <2>6, <3>1, ChildSame DEF ProxyInv, ChildInv
  <2>8. listed[g] = {} /\ offered[g] = {} /\ call[g].verdict = "none"
    BY <2>1 DEF ProxyInv, CallsInv, NoCall
  <2>9. CallsInv'
    BY <2>1, <2>5, <2>6, <2>8 DEF ProxyInv, CallsInv, Policy
  <2>10. QED
    BY <2>4, <2>7, <2>9 DEF ProxyInv
<1>10. ASSUME NEW g \in Guards, Exit(g) PROVE ProxyInv'
  <2>1. /\ child' = [child EXCEPT ![g] = NoChild]
        /\ listed' = [listed EXCEPT ![g] = {}] /\ offered' = [offered EXCEPT ![g] = {}]
        /\ call' = [call EXCEPT ![g] = NoCall] /\ seen' = [seen EXCEPT ![g] = Unseen]
        /\ UNCHANGED <<entry, readable, tools, started>>
    BY <1>10 DEF Exit
  <2>2. NoCall \in [tool : Tools \cup {"none"},
                    verdict : {"none", "notAllowed", "badArgs", "forwarded"},
                    text : SUBSET Patterns]
    BY DEF NoCall
  <2>3. ProxyTyped'
    BY <2>1, <2>2, NoProcess DEF ProxyInv, ProxyTyped, Unseen
  <2>4. /\ child'[g].at = "none" /\ child'[g].injected = NoSecrets /\ listed'[g] = {} /\ offered'[g] = {}
        /\ call'[g] = NoCall /\ call'[g].verdict = "none"
    BY <2>1 DEF ProxyInv, ProxyTyped, NoChild, NoCall
  <2>5. \A h \in Guards \ {g} :
          /\ child'[h] = child[h] /\ listed'[h] = listed[h] /\ offered'[h] = offered[h]
          /\ call'[h] = call[h] /\ seen'[h] = seen[h]
    BY <2>1 DEF ProxyInv, ProxyTyped
  <2>6. ChildInv'
    <3>1. ChildOf(g)'
      BY <2>4 DEF ChildOf
    <3>2. QED
      BY <2>1, <2>5, <3>1, ChildSame DEF ProxyInv, ChildInv
  <2>7. CallsInv'
    BY <2>1, <2>4, <2>5 DEF ProxyInv, CallsInv, Policy
  <2>8. QED
    BY <2>3, <2>6, <2>7 DEF ProxyInv
<1>11. ASSUME NEW g \in Guards, ListTools(g) PROVE ProxyInv'
  <2>1. /\ child[g].at = "up"
        /\ offered' = [offered EXCEPT ![g] = tools]
        /\ listed' = [listed EXCEPT ![g] = tools \cap Policy(g).allow]
        /\ UNCHANGED <<entry, readable, tools, started, child, call, seen>>
    BY <1>11 DEF ListTools, Serves, FilterTools
  <2>2. tools \in SUBSET Tools
    BY DEF ProxyInv, ProxyTyped
  <2>3. ProxyTyped'
    BY <2>1, <2>2 DEF ProxyInv, ProxyTyped
  <2>4. ChildInv'
    BY <2>1, ChildSame DEF ProxyInv, ChildInv
  <2>5. /\ listed'[g] = offered'[g] \cap Policy(g).allow
        /\ \A h \in Guards \ {g} : listed'[h] = listed[h] /\ offered'[h] = offered[h]
    BY <2>1 DEF ProxyInv, ProxyTyped
  <2>6. CallsInv'
    BY <2>1, <2>5 DEF ProxyInv, CallsInv, Policy
  <2>7. QED
    BY <2>3, <2>4, <2>6 DEF ProxyInv
<1>12. ASSUME NEW g \in Guards, NEW tool \in Tools, NEW args \in SUBSET Patterns,
             NEW text \in Texts, CallTool(g, tool, args, text)
      PROVE  ProxyInv'
  <2> DEFINE p == Policy(g)
             verdict == Verdict(tool, args, p)
             c == [tool |-> tool, verdict |-> verdict,
                   text |-> IF verdict = "forwarded" THEN Redacted(text, p) ELSE {}]
  <2>1. /\ child[g].at = "up"
        /\ call' = [call EXCEPT ![g] = c]
        /\ UNCHANGED <<entry, readable, tools, started, child, listed, offered, seen>>
    BY <1>12 DEF CallTool, Serves
  <2>2. verdict \in {"notAllowed", "badArgs", "forwarded"}
    BY DEF Verdict
  <2>3. verdict = "notAllowed" <=> tool \notin p.allow
    BY DEF Verdict
  <2>4. Redacted(text, p) \in SUBSET Patterns
    BY ProxyAssumption DEF Redacted
  <2> HIDE DEF verdict, p
  <2>5. ProxyTyped'
    BY <2>1, <2>2, <2>4 DEF ProxyInv, ProxyTyped
  <2>6. ChildInv'
    BY <2>1, ChildSame DEF ProxyInv, ChildInv
  <2>7. /\ call'[g].tool = tool /\ call'[g].verdict = verdict
        /\ \A h \in Guards \ {g} : call'[h] = call[h]
    BY <2>1 DEF ProxyInv, ProxyTyped
  <2>8. CallsInv'
    BY <2>1, <2>2, <2>3, <2>7 DEF ProxyInv, CallsInv, Policy, p
  <2>9. QED
    BY <2>5, <2>6, <2>8 DEF ProxyInv
<1>13. QED
  BY <1>1, <1>2, <1>3, <1>4, <1>5, <1>6, <1>7, <1>8, <1>9, <1>10, <1>11, <1>12
     DEF ProxyNext

\* A child that runs has every secret of the entry it was started from, each as it was
\* readable at some moment of the request, and no key of its own, whatever is edited,
\* deleted, revoked or rotated between two reads of the batch.
THEOREM ProxyChildComplete == ProxySpec => []ChildComplete
<1>1. ProxyInv => ChildComplete
  <2>1. ProxyInv => \A g \in Guards : child[g].at = "up" /\ started[g].transport = "stdio" =>
          Complete(g) /\ Equipped(g)
    BY DEF ProxyInv, ChildInv, ChildOf
  <2>2. QED
    BY <2>1 DEF Complete, Equipped, ChildComplete
<1>2. QED
  BY <1>1, ProxyStart, ProxyStep, PTL DEF ProxySpec

\* What a guard lists and what it forwards agree, however often the tools behind it and
\* the manifest change between the two.
THEOREM ProxyCallsAgree == ProxySpec => []CallsAgree
<1>1. ProxyInv => CallsAgree
  BY DEF ProxyInv, CallsInv, CallsAgree
<1>2. QED
  BY <1>1, ProxyStart, ProxyStep, PTL DEF ProxySpec
-----------------------------------------------------------------------------
(* The guards of an OAuth server. *)

\* A guard on its way to its first connect: it owns the port, so there is one at most.
FirstConnect(g) == IsUp(g) /\ ~ guard[g].serving

PortOf(g) ==
  /\ port = g <=> FirstConnect(g)
  /\ IsUp(g) /\ guard[g].serving =>
       /\ guard[g].at \in {"auth", "read", "write", "redirect", "running"}
       /\ guard[g].at \in {"read", "write"} => guard[g].then \in {"auth", "redirect", "running"}
  /\ FirstConnect(g) =>
       /\ guard[g].at # "running"
       /\ guard[g].at \in {"read", "write"} =>
            guard[g].then \in {"auth", "redirect", "connect", "reconnect", "exchange"}

PortInv == \A g \in Guards : PortOf(g)

\* A guard that was alone when it started is alone until it has connected.
Alone(g) == FirstConnect(g) /\ guard[g].alone

AloneInv == \A g \in Guards : Alone(g) => \A h \in Guards \ {g} : ~ IsUp(h)

\* What a save that is under way will make of the file, as long as the user did not refuse:
\* credentials that a second attempt can do without, a verifier whose page opens next
\* or never, tokens that give access.
SaveGoesWell(s) ==
  /\ s.at = "write" => s.copy = file
  /\ CASE s.then = "auth" ->
            \/ s.field = "client" /\ s.id \in clients /\ (s.tried => file.tokens = 0)
            \/ s.field = "tokens" /\ s.id = 0 /\ file.client \in clients
       [] s.then = "redirect" ->
            /\ s.field = "verifier" /\ s.id # 0 /\ s.id \notin pages
            /\ s.code \in {0, s.id} /\ (s.code # 0 => file.client \in clients)
       [] s.then = "reconnect" -> s.field = "tokens" /\ s.id \in access
       [] OTHER -> s.then = "connect"

GoesWell(s) ==
  /\ ~ s.final
  /\ s.at = "auth" /\ s.tried => file.tokens = 0 /\ file.client \in clients \cup {0}
  /\ s.at \in {"read", "write"} => SaveGoesWell(s)
  /\ s.at = "redirect" =>
       /\ file.verifier = s.id /\ s.id # 0 /\ s.id \notin pages
       /\ s.code \in {0, s.id} /\ (s.code # 0 => file.client \in clients)
  /\ s.at = "consent" => file.verifier = s.id /\ (s.id \in pages => file.client \in clients)
  /\ s.at = "exchange" => file.verifier = s.code /\ file.client \in clients
  /\ s.at = "reconnect" => file.tokens \in access

\* After the user refused or approved another page, the code does not fit and the guard ends.
Doomed(s) ==
  /\ s.at \in {"exchange", "read", "write"} /\ file.verifier # s.code
  /\ s.at # "exchange" => s.then = "exchange" /\ s.field = "tokens" /\ s.id = 0
  /\ s.at = "write" => s.copy = file

HealOf(g) ==
  /\ Alone(g) => IF guard[g].denied THEN Doomed(guard[g]) ELSE GoesWell(guard[g])
  /\ guard[g].at = "failed" /\ guard[g].alone => guard[g].denied

HealInv == \A g \in Guards : HealOf(g)

\* Pages and codes are of verifiers that were made.
PagesInv ==
  /\ \A v \in pages : v <= issued
  /\ \A g \in Guards : guard[g].code <= issued

OAuthInv == TypeOK /\ PagesInv /\ PortInv /\ AloneInv /\ HealInv

LEMMA OAuthStart == Init => OAuthInv
<1> SUFFICES ASSUME Init PROVE OAuthInv
  OBVIOUS
<1>1. NoSession \in Session /\ Off \in Guard
  BY OAuthAssumption DEF NoSession, Session, Ids, Off, Guard, Phases, Fields
<1>2. TypeOK
  BY <1>1, OAuthAssumption DEF Init, TypeOK, Ids
<1>3. \A g \in Guards : guard[g] = Off /\ ~ IsUp(g)
  BY DEF Init, IsUp, Off
<1>4. PagesInv
  BY <1>3 DEF Init, PagesInv, Off
<1>5. PortInv /\ AloneInv /\ HealInv
  BY <1>3, OAuthAssumption DEF Init, PortInv, PortOf, AloneInv, HealInv, HealOf, Alone, FirstConnect, Off
<1>6. QED
  BY <1>2, <1>4, <1>5 DEF OAuthInv

\* A step of one guard that is up concerns no other guard that is alone.
LEMMA OwnStep ==
  ASSUME OAuthInv, NEW g \in Guards, IsUp(g), TypeOK', PagesInv',
         \A h \in Guards \ {g} : guard'[h] = guard[h] /\ (port' = h <=> port = h),
         PortOf(g)', Alone(g)' => Alone(g), HealOf(g)'
  PROVE  OAuthInv'
<1>1. ASSUME NEW h \in Guards \ {g} PROVE PortOf(h)' /\ ~ Alone(h) /\ ~ Alone(h)'
  <2>1. PortOf(h)'
    BY DEF OAuthInv, PortInv, PortOf, FirstConnect, IsUp
  <2>2. ~ Alone(h)
    BY DEF OAuthInv, AloneInv
  <2>3. QED
    BY <2>1, <2>2 DEF Alone, FirstConnect, IsUp
<1>2. PortInv'
  BY <1>1 DEF PortInv
<1>3. AloneInv'
  BY <1>1 DEF OAuthInv, AloneInv, IsUp
<1>4. \A h \in Guards \ {g} : HealOf(h)'
  BY <1>1 DEF OAuthInv, HealInv, HealOf
<1>5. QED
  BY <1>2, <1>3, <1>4 DEF OAuthInv, HealInv

LEMMA GoesTo ==
  ASSUME TypeOK, NEW g \in Guards, NEW s \in Guard, guard' = [guard EXCEPT ![g] = s]
  PROVE  /\ guard' \in [Guards -> Guard] /\ guard'[g] = s
         /\ \A h \in Guards \ {g} : guard'[h] = guard[h]
  BY DEF TypeOK

LEMMA MergedType ==
  ASSUME NEW s \in Session, NEW field \in Fields, NEW id \in Ids
  PROVE  /\ Merged(s, field, id) \in Session
         /\ field = "client" => Merged(s, field, id) = [s EXCEPT !.client = id]
         /\ field = "tokens" => Merged(s, field, id) = [s EXCEPT !.tokens = id]
         /\ field = "verifier" => Merged(s, field, id) = [s EXCEPT !.verifier = id]
  BY DEF Merged, Session, Fields

LEMMA IdsAreNumbers ==
  /\ Ids \subseteq Nat /\ 0 \in Ids
  /\ TypeOK => issued \in Nat /\ \A id \in Ids : Fresh(id) => id = issued + 1 /\ issued' = id /\ id # 0
  BY OAuthAssumption DEF Ids, TypeOK, Fresh

\* What a step of g from one record to another leaves of the invariant to be shown.
LEMMA StepOf ==
  ASSUME OAuthInv, NEW g \in Guards, IsUp(g), NEW s \in Guard, Goes(g, s),
         file' \in Session, pages' \cup clients' \cup access' \cup refresh' \subseteq Ids,
         issued' \in Ids, kills' \in Nat, revoked' \in Nat, issued <= issued',
         \A v \in pages' : v <= issued', s.code <= issued',
         port' = port \/ (port = g /\ port' = Free),
         port' = g <=> (s.at \notin {"off", "failed"} /\ ~ s.serving),
         PortOf(g)', HealOf(g)',
         s = Off \/ (s.alone = guard[g].alone /\ (s.serving \/ ~ guard[g].serving))
  PROVE  OAuthInv'
<1>1. TypeOK /\ PagesInv /\ issued \in Nat /\ issued' \in Nat
  BY OAuthAssumption DEF OAuthInv, TypeOK, Ids
<1>2. /\ guard' \in [Guards -> Guard] /\ guard'[g] = s
      /\ \A h \in Guards \ {g} : guard'[h] = guard[h]
  BY <1>1, GoesTo DEF Goes
<1>3. TypeOK'
  BY <1>1, <1>2 DEF TypeOK
<1>4. \A h \in Guards : guard[h].code \in Nat
  BY <1>1, IdsAreNumbers DEF TypeOK, Guard
<1>5. PagesInv'
  BY <1>1, <1>2, <1>4 DEF PagesInv
<1>6. \A h \in Guards \ {g} : guard'[h] = guard[h] /\ (port' = h <=> port = h)
  BY <1>2, OAuthAssumption
<1>7. Alone(g)' => Alone(g)
  <2>1. Off.alone = FALSE /\ (Alone(g)' => s.alone /\ ~ s.serving)
    BY <1>2 DEF Alone, FirstConnect, IsUp, Off
  <2>2. QED
    BY <2>1 DEF Alone, FirstConnect
<1>8. QED
  BY <1>3, <1>5, <1>6, <1>7, OwnStep

LEMMA PlainStep ==
  ASSUME OAuthInv, NEW g \in Guards, IsUp(g), NEW s \in Guard, Goes(g, s),
         UNCHANGED <<file, port, pages, server, issued, kills>>, s.code = guard[g].code,
         s.at \notin {"off", "failed"}, s.serving = guard[g].serving, s.alone = guard[g].alone,
         PortOf(g)', HealOf(g)'
  PROVE  OAuthInv'
<1>1. TypeOK /\ PortOf(g) /\ issued \in Nat /\ \A v \in pages \cup {s.code} : v <= issued
  BY IdsAreNumbers DEF OAuthInv, PortInv, PagesInv
<1>2. /\ file' \in Session /\ pages' \cup clients' \cup access' \cup refresh' \subseteq Ids
      /\ issued' \in Ids /\ kills' \in Nat /\ revoked' \in Nat /\ issued <= issued'
      /\ \A v \in pages' : v <= issued'
  BY <1>1 DEF server, TypeOK
<1>3. s.code <= issued' /\ port' = port
  BY <1>1
<1>4. port' = g <=> (s.at \notin {"off", "failed"} /\ ~ s.serving)
  BY <1>1, <1>3 DEF PortOf, FirstConnect
<1>5. QED
  BY <1>2, <1>3, <1>4, StepOf

\* A guard that gives up while it is alone was refused.
LEMMA GivesUpStep ==
  ASSUME OAuthInv, NEW g \in Guards, IsUp(g), GivesUp(g), Alone(g) => guard[g].denied
  PROVE  OAuthInv'
<1> DEFINE s == [guard[g] EXCEPT !.at = Ends(g), !.code = 0]
<1>1. TypeOK /\ PortOf(g) /\ guard[g] \in Guard /\ issued \in Nat /\ guard[g].code \in Nat
  BY IdsAreNumbers DEF OAuthInv, PortInv, TypeOK, Guard
<1>2. /\ s \in Guard /\ s.code = 0 /\ s.at = Ends(g) /\ s.serving = guard[g].serving
      /\ s.alone = guard[g].alone /\ s.denied = guard[g].denied
  BY <1>1, IdsAreNumbers DEF Guard, Phases, Ends
<1>3. guard'[g] = s
  BY <1>1, <1>2, GoesTo DEF GivesUp, Goes
<1>4. Ends(g) = IF guard[g].serving THEN "running" ELSE "failed"
  BY DEF Ends
<1>5. port' = IF port = g THEN Free ELSE port
  BY DEF GivesUp
<1>6. port' # g /\ (port' = port \/ (port = g /\ port' = Free))
  BY <1>5, OAuthAssumption
<1>7. PortOf(g)'
  BY <1>1, <1>2, <1>3, <1>4, <1>6 DEF PortOf, FirstConnect, IsUp
<1>8. HealOf(g)'
  BY <1>2, <1>3, <1>4 DEF HealOf, Alone, FirstConnect, IsUp
<1>9. \A v \in pages : v <= issued
  BY DEF OAuthInv, PagesInv
<1>10. Goes(g, s) /\ UNCHANGED <<file, pages, server, issued, kills>>
  BY DEF GivesUp
<1>11. /\ file' \in Session /\ pages' \cup clients' \cup access' \cup refresh' \subseteq Ids
       /\ issued' \in Ids /\ kills' \in Nat /\ revoked' \in Nat /\ issued <= issued'
       /\ \A v \in pages' : v <= issued'
  BY <1>1, <1>9, <1>10 DEF server, TypeOK
<1>12. ~ (s.at \notin {"off", "failed"} /\ ~ s.serving)
  BY <1>2, <1>4
<1>13. s.code <= issued' /\ (s.serving \/ ~ guard[g].serving)
  BY <1>1, <1>2, <1>10
<1>14. QED
  BY <1>2, <1>6, <1>7, <1>8, <1>10, <1>11, <1>12, <1>13, StepOf

LEMMA ChallengedStep ==
  ASSUME OAuthInv, NEW g \in Guards, Challenged(g)
  PROVE  OAuthInv'
<1> DEFINE s == [guard[g] EXCEPT !.at = "auth", !.tried = FALSE, !.final = guard[g].at = "reconnect"]
<1>1. TypeOK /\ PortOf(g) /\ HealOf(g) /\ guard[g] \in Guard /\ IsUp(g)
  BY DEF OAuthInv, PortInv, HealInv, TypeOK, Challenged, IsUp
<1>2. s \in Guard
  BY <1>1 DEF Guard, Phases
<1>3. /\ s.at = "auth" /\ s.tried = FALSE /\ s.final = (guard[g].at = "reconnect")
      /\ s.code = guard[g].code /\ s.serving = guard[g].serving
      /\ s.alone = guard[g].alone /\ s.denied = guard[g].denied
  BY <1>1 DEF Guard
<1>4. guard'[g] = s /\ Goes(g, s) /\ UNCHANGED <<file, port, pages, server, issued, kills>>
  BY <1>1, <1>2, GoesTo DEF Challenged, Goes
<1>5. PortOf(g)'
  BY <1>1, <1>3, <1>4 DEF PortOf, FirstConnect, IsUp
<1>6. Alone(g) => GoesWell(guard[g])
  BY <1>1 DEF Challenged, HealOf, Doomed
<1>7. Alone(g) => ~ s.final /\ ~ s.denied
  BY <1>1, <1>3, <1>6 DEF Challenged, HealOf, GoesWell, Doomed
<1>8. HealOf(g)'
  BY <1>1, <1>3, <1>4, <1>7 DEF HealOf, Alone, FirstConnect, IsUp, GoesWell
<1>9. QED
  BY <1>1, <1>2, <1>3, <1>4, <1>5, <1>8, PlainStep

LEMMA ReadSessionStep ==
  ASSUME OAuthInv, NEW g \in Guards, ReadSession(g)
  PROVE  OAuthInv'
<1> DEFINE s == [guard[g] EXCEPT !.at = "write", !.copy = file]
<1>1. TypeOK /\ PortOf(g) /\ HealOf(g) /\ guard[g] \in Guard /\ IsUp(g) /\ guard[g].at = "read"
  BY DEF OAuthInv, PortInv, HealInv, TypeOK, ReadSession, IsUp
<1>2. s \in Guard
  BY <1>1 DEF Guard, Phases, TypeOK
<1>3. /\ s.at = "write" /\ s.copy = file
      /\ \A f \in {"field", "id", "then", "code", "serving", "final", "tried", "alone", "denied"} :
           s[f] = guard[g][f]
  BY <1>1 DEF Guard
<1>4. guard'[g] = s /\ Goes(g, s) /\ UNCHANGED <<file, port, pages, server, issued, kills>>
  BY <1>1, <1>2, GoesTo DEF ReadSession, Goes
<1>5. PortOf(g)'
  BY <1>1, <1>3, <1>4 DEF PortOf, FirstConnect, IsUp
<1>6. clients' = clients /\ access' = access
  BY <1>4 DEF server
<1>7. GoesWell(guard[g]) => GoesWell(guard[g])'
  BY <1>1, <1>3, <1>4, <1>6 DEF GoesWell, SaveGoesWell
<1>8. Doomed(guard[g]) => Doomed(guard[g])'
  BY <1>1, <1>3, <1>4 DEF Doomed
<1>9. HealOf(g)'
  BY <1>1, <1>3, <1>4, <1>7, <1>8 DEF HealOf, Alone, FirstConnect, IsUp
<1>10. QED
  BY <1>1, <1>2, <1>3, <1>4, <1>5, <1>9, PlainStep

\* What tried means keeps a guard that is alone from being refused twice.
LEMMA RefreshRefusedStep ==
  ASSUME OAuthInv, NEW g \in Guards, RefreshRefused(g)
  PROVE  OAuthInv'
<1> DEFINE s == [guard[g] EXCEPT !.at = "read", !.field = "tokens", !.id = 0,
                                 !.then = "auth", !.tried = TRUE]
<1>1. TypeOK /\ PortOf(g) /\ HealOf(g) /\ guard[g] \in Guard /\ IsUp(g) /\ guard[g].at = "auth"
  BY DEF OAuthInv, PortInv, HealInv, TypeOK, RefreshRefused, IsUp
<1>2. Alone(g) => GoesWell(guard[g]) /\ ~ guard[g].denied
  BY <1>1 DEF HealOf, Doomed
<1>3. CASE guard[g].tried
  <2>1. ~ Alone(g)
    BY <1>1, <1>2, <1>3 DEF GoesWell, RefreshRefused
  <2>2. QED
    BY <1>1, <1>3, <2>1, GivesUpStep DEF RefreshRefused
<1>4. CASE ~ guard[g].tried
  <2>1. s \in Guard
    BY <1>1, IdsAreNumbers DEF Guard, Phases, Fields
  <2>2. /\ s.at = "read" /\ s.field = "tokens" /\ s.id = 0 /\ s.then = "auth" /\ s.tried
        /\ \A f \in {"code", "serving", "final", "alone", "denied"} : s[f] = guard[g][f]
    BY <1>1 DEF Guard
  <2>3. guard'[g] = s /\ Goes(g, s) /\ UNCHANGED <<file, port, pages, server, issued, kills>>
    BY <1>1, <1>4, <2>1, GoesTo DEF RefreshRefused, Goes
  <2>4. PortOf(g)'
    BY <1>1, <2>2, <2>3 DEF PortOf, FirstConnect, IsUp
  <2>5. file'.client \in clients'
    BY <2>3 DEF server, RefreshRefused
  <2>6. GoesWell(guard[g]) => GoesWell(guard[g])'
    BY <2>2, <2>3, <2>5 DEF GoesWell, SaveGoesWell
  <2>7. HealOf(g)'
    BY <1>1, <1>2, <2>2, <2>3, <2>6 DEF HealOf, Alone, FirstConnect, IsUp
  <2>8. QED
    BY <1>1, <2>1, <2>2, <2>3, <2>4, <2>7, PlainStep
<1>5. QED
  BY <1>3, <1>4

\* A code that does not fit is one of another page, or the guard is not alone.
LEMMA ExchangeRefusedStep ==
  ASSUME OAuthInv, NEW g \in Guards, ExchangeRefused(g)
  PROVE  OAuthInv'
<1> DEFINE s == [guard[g] EXCEPT !.at = "read", !.field = "tokens", !.id = 0,
                                 !.then = "exchange", !.tried = TRUE]
           Again == file.client \in clients /\ file.verifier # 0 /\ ~ guard[g].tried
<1>1. TypeOK /\ PortOf(g) /\ HealOf(g) /\ guard[g] \in Guard /\ IsUp(g) /\ guard[g].at = "exchange"
  BY DEF OAuthInv, PortInv, HealInv, TypeOK, ExchangeRefused, IsUp
<1>2. Alone(g) => guard[g].denied /\ Doomed(guard[g])
  BY <1>1 DEF HealOf, GoesWell, ExchangeRefused, CodeFits
<1>3. CASE ~ Again
  BY <1>1, <1>2, <1>3, GivesUpStep DEF ExchangeRefused
<1>4. CASE Again
  <2>1. s \in Guard
    BY <1>1, IdsAreNumbers DEF Guard, Phases, Fields
  <2>2. /\ s.at = "read" /\ s.field = "tokens" /\ s.id = 0 /\ s.then = "exchange"
        /\ \A f \in {"code", "serving", "final", "alone", "denied"} : s[f] = guard[g][f]
    BY <1>1 DEF Guard
  <2>3. guard'[g] = s /\ Goes(g, s) /\ UNCHANGED <<file, port, pages, server, issued, kills>>
    BY <1>1, <1>4, <2>1, GoesTo DEF ExchangeRefused, Goes
  <2>4. PortOf(g)'
    BY <1>1, <2>2, <2>3 DEF PortOf, FirstConnect, IsUp
  <2>5. Doomed(guard[g]) => Doomed(guard[g])'
    BY <2>2, <2>3 DEF Doomed
  <2>6. HealOf(g)'
    BY <1>1, <1>2, <2>2, <2>3, <2>5 DEF HealOf, Alone, FirstConnect, IsUp
  <2>7. QED
    BY <1>1, <2>1, <2>2, <2>3, <2>4, <2>6, PlainStep
<1>5. QED
  BY <1>3, <1>4

LEMMA ConnectedStep ==
  ASSUME OAuthInv, NEW g \in Guards, Connected(g)
  PROVE  OAuthInv'
<1> DEFINE s == [guard[g] EXCEPT !.at = "running", !.serving = TRUE]
<1>1. TypeOK /\ PortOf(g) /\ guard[g] \in Guard /\ IsUp(g)
  BY DEF OAuthInv, PortInv, TypeOK, Connected, IsUp
<1>2. port = g /\ port' = Free /\ Free # g
  BY <1>1, OAuthAssumption DEF Connected, PortOf, FirstConnect
<1>3. /\ s \in Guard /\ s.at = "running" /\ s.serving = TRUE
      /\ s.code = guard[g].code /\ s.alone = guard[g].alone
  BY <1>1 DEF Guard, Phases
<1>4. guard'[g] = s /\ Goes(g, s) /\ UNCHANGED <<file, pages, server, issued, kills>>
  BY <1>1, <1>3, GoesTo DEF Connected, Goes
<1>5. PortOf(g)' /\ HealOf(g)'
  BY <1>2, <1>3, <1>4 DEF PortOf, HealOf, Alone, FirstConnect, IsUp
<1>6. issued \in Nat /\ \A v \in pages \cup {s.code} : v <= issued
  BY <1>1, <1>3, IdsAreNumbers DEF OAuthInv, PagesInv
<1>7. /\ file' \in Session /\ pages' \cup clients' \cup access' \cup refresh' \subseteq Ids
      /\ issued' \in Ids /\ kills' \in Nat /\ revoked' \in Nat /\ issued <= issued'
      /\ \A v \in pages' \cup {s.code} : v <= issued'
  BY <1>1, <1>4, <1>6 DEF server, TypeOK
<1>8. QED
  BY <1>1, <1>2, <1>3, <1>4, <1>5, <1>7, StepOf

\* invalid_client: what is removed with the client is what a second refusal would need.
LEMMA ClientRefusedStep ==
  ASSUME OAuthInv, NEW g \in Guards, ClientRefused(g)
  PROVE  OAuthInv'
<1> DEFINE s == [guard[g] EXCEPT !.tried = TRUE]
<1>1. TypeOK /\ PortOf(g) /\ HealOf(g) /\ guard[g] \in Guard /\ IsUp(g) /\ guard[g].at = "auth"
  BY DEF OAuthInv, PortInv, HealInv, TypeOK, ClientRefused, IsUp
<1>2. Alone(g) => GoesWell(guard[g]) /\ ~ guard[g].denied
  BY <1>1 DEF HealOf, Doomed
<1>3. CASE guard[g].tried
  <2>1. ~ Alone(g)
    BY <1>1, <1>2, <1>3 DEF GoesWell, ClientRefused
  <2>2. QED
    BY <1>1, <1>3, <2>1, GivesUpStep DEF ClientRefused
<1>4. CASE ~ guard[g].tried
  <2>1. /\ s \in Guard
        /\ \A f \in {"at", "code", "serving", "final", "alone", "denied"} : s[f] = guard[g][f]
    BY <1>1 DEF Guard
  <2>2. guard'[g] = s /\ Goes(g, s) /\ UNCHANGED <<port, pages, server, issued, kills>>
    BY <1>1, <1>4, <2>1, GoesTo DEF ClientRefused, Goes
  <2>3. file' \in Session /\ file'.tokens = 0 /\ file'.client = 0
    BY <1>4, IdsAreNumbers DEF ClientRefused, Removed, NoSession, Session
  <2>4. PortOf(g)'
    BY <1>1, <2>1, <2>2 DEF PortOf, FirstConnect, IsUp
  <2>5. GoesWell(guard[g]) => GoesWell(guard[g])'
    BY <1>1, <2>1, <2>2, <2>3 DEF GoesWell
  <2>6. HealOf(g)'
    BY <1>1, <1>2, <2>1, <2>2, <2>5 DEF HealOf, Alone, FirstConnect, IsUp
  <2>7. issued \in Nat /\ \A v \in pages \cup {s.code} : v <= issued
    BY <1>1, <2>1, IdsAreNumbers DEF OAuthInv, PagesInv
  <2>8. /\ pages' \cup clients' \cup access' \cup refresh' \subseteq Ids
        /\ issued' \in Ids /\ kills' \in Nat /\ revoked' \in Nat /\ issued <= issued'
        /\ \A v \in pages' \cup {s.code} : v <= issued'
    BY <1>1, <2>2, <2>7 DEF server, TypeOK
  <2>9. port' = port /\ (port' = g <=> (s.at \notin {"off", "failed"} /\ ~ s.serving))
    BY <1>1, <2>1, <2>2 DEF PortOf, FirstConnect, IsUp
  <2>10. QED
    BY <1>1, <2>1, <2>2, <2>3, <2>4, <2>6, <2>8, <2>9, StepOf
<1>5. QED
  BY <1>3, <1>4

\* A step that makes an id and starts to save it.
LEMMA SavesStep ==
  ASSUME OAuthInv, NEW g \in Guards, IsUp(g), NEW id \in Ids, Fresh(id),
         NEW s \in Guard, Goes(g, s), UNCHANGED <<file, port, pages, kills>>,
         clients' \cup access' \cup refresh' \subseteq Ids, revoked' = revoked,
         s.at = "read", s.code \in {guard[g].code, id, 0},
         s.serving = guard[g].serving, s.alone = guard[g].alone,
         s.then \in (IF s.serving THEN {"auth", "redirect", "running"}
                     ELSE {"auth", "redirect", "connect", "reconnect"}),
         Alone(g) => ~ s.denied /\ GoesWell(s)'
  PROVE  OAuthInv'
<1>1. TypeOK /\ PortOf(g) /\ guard'[g] = s
  BY GoesTo DEF OAuthInv, PortInv, Goes
<1>2. PortOf(g)' /\ HealOf(g)'
  BY <1>1 DEF PortOf, HealOf, Alone, FirstConnect, IsUp
<1>3. /\ issued \in Nat /\ issued' = issued + 1 /\ issued' = id
      /\ \A v \in pages \cup {guard[g].code} : v <= issued /\ v \in Nat
  <2>1. issued \in Nat /\ issued' = issued + 1 /\ issued' = id
    <3>1. issued \in Nat /\ id = issued + 1 /\ issued' = id
      BY <1>1, IdsAreNumbers
    <3>2. QED
      BY <3>1
  <2>2. guard[g] \in Guard /\ pages \subseteq Ids
    BY <1>1 DEF TypeOK
  <2>3. guard[g].code \in Nat /\ pages \subseteq Nat
    BY <2>2, IdsAreNumbers DEF Guard
  <2>4. \A v \in pages \cup {guard[g].code} : v <= issued
    BY DEF OAuthInv, PagesInv
  <2>5. QED
    BY <2>1, <2>3, <2>4
<1>4. s.code <= issued' /\ issued <= issued' /\ \A v \in pages' : v <= issued'
  BY <1>3
<1>5. /\ file' \in Session /\ pages' \cup clients' \cup access' \cup refresh' \subseteq Ids
      /\ issued' \in Ids /\ kills' \in Nat /\ revoked' \in Nat
  BY <1>1, <1>3 DEF TypeOK
<1>6. port' = port /\ (port' = g <=> (s.at \notin {"off", "failed"} /\ ~ s.serving))
  BY <1>1 DEF PortOf, FirstConnect
<1>7. QED
  BY <1>2, <1>4, <1>5, <1>6, StepOf

LEMMA RegisterStep ==
  ASSUME OAuthInv, NEW g \in Guards, Register(g)
  PROVE  OAuthInv'
<1>1. TypeOK /\ PortOf(g) /\ HealOf(g) /\ guard[g] \in Guard /\ IsUp(g) /\ guard[g].at = "auth"
  BY DEF OAuthInv, PortInv, HealInv, TypeOK, Register, IsUp
<1>2. PICK id \in Ids : Fresh(id) /\ clients' = clients \cup {id} /\ Saves(g, "client", id, "auth")
  BY DEF Register
<1>3. [guard[g] EXCEPT !.at = "read", !.field = "client", !.id = id, !.then = "auth"] \in Guard
  BY <1>1 DEF Guard, Phases, Fields
<1>4. PICK s \in Guard :
        s = [guard[g] EXCEPT !.at = "read", !.field = "client", !.id = id, !.then = "auth"]
  BY <1>3
<1>5. /\ s.at = "read" /\ s.field = "client" /\ s.id = id /\ s.then = "auth"
      /\ \A f \in {"code", "serving", "final", "tried", "alone", "denied"} : s[f] = guard[g][f]
  BY <1>1, <1>4 DEF Guard
<1>6. Goes(g, s) /\ UNCHANGED <<file, port, pages, kills>> /\ revoked' = revoked
  BY <1>2, <1>4 DEF Saves, Register
<1>7. clients' \cup access' \cup refresh' \subseteq Ids
  BY <1>1, <1>2 DEF Register, TypeOK
<1>8. Alone(g) => ~ guard[g].denied /\ GoesWell(guard[g])
  BY <1>1 DEF HealOf, Doomed
<1>9. Alone(g) => ~ s.denied /\ GoesWell(s)'
  BY <1>1, <1>2, <1>5, <1>6, <1>8 DEF GoesWell, SaveGoesWell
<1>10. QED
  BY <1>1, <1>2, <1>5, <1>6, <1>7, <1>9, SavesStep

LEMMA RefreshStep ==
  ASSUME OAuthInv, NEW g \in Guards, Refresh(g)
  PROVE  OAuthInv'
<1> DEFINE next == IF guard[g].serving THEN "running"
                   ELSE IF guard[g].final THEN "reconnect" ELSE "connect"
<1>1. TypeOK /\ PortOf(g) /\ HealOf(g) /\ guard[g] \in Guard /\ IsUp(g) /\ guard[g].at = "auth"
  BY DEF OAuthInv, PortInv, HealInv, TypeOK, Refresh, IsUp
<1>2. PICK id \in Ids : /\ Fresh(id) /\ access' = access \cup {id}
                        /\ refresh' = (refresh \ {file.tokens}) \cup {id}
                        /\ Saves(g, "tokens", id, next)
  BY DEF Refresh
<1>3. [guard[g] EXCEPT !.at = "read", !.field = "tokens", !.id = id, !.then = next] \in Guard
  BY <1>1 DEF Guard, Phases, Fields
<1>4. PICK s \in Guard :
        s = [guard[g] EXCEPT !.at = "read", !.field = "tokens", !.id = id, !.then = next]
  BY <1>3
<1>5. /\ s.at = "read" /\ s.field = "tokens" /\ s.id = id /\ s.then = next
      /\ \A f \in {"code", "serving", "final", "tried", "alone", "denied"} : s[f] = guard[g][f]
  BY <1>1, <1>4 DEF Guard
<1>6. Goes(g, s) /\ UNCHANGED <<file, port, pages, kills>> /\ revoked' = revoked
  BY <1>2, <1>4 DEF Saves, Refresh
<1>7. clients' \cup access' \cup refresh' \subseteq Ids
  BY <1>1, <1>2 DEF Refresh, TypeOK
<1>8. Alone(g) => ~ guard[g].denied /\ GoesWell(guard[g]) /\ ~ guard[g].serving
  BY <1>1 DEF HealOf, Doomed, Alone, FirstConnect
<1>9. Alone(g) => ~ s.denied /\ GoesWell(s)'
  BY <1>1, <1>5, <1>8 DEF GoesWell, SaveGoesWell
<1>10. QED
  BY <1>1, <1>2, <1>5, <1>6, <1>7, <1>9, SavesStep

\* The page of a verifier that is new is not open.
LEMMA StartAuthorizationStep ==
  ASSUME OAuthInv, NEW g \in Guards, StartAuthorization(g)
  PROVE  OAuthInv'
<1> DEFINE page(id) == IF file.client \in clients THEN id ELSE 0
<1>1. TypeOK /\ PortOf(g) /\ HealOf(g) /\ guard[g] \in Guard /\ IsUp(g) /\ guard[g].at = "auth"
  BY DEF OAuthInv, PortInv, HealInv, TypeOK, StartAuthorization, IsUp
<1>2. PICK id \in Ids :
        /\ Fresh(id)
        /\ Goes(g, [guard[g] EXCEPT !.at = "read", !.field = "verifier", !.id = id,
                                    !.then = "redirect", !.code = page(id)])
  BY DEF StartAuthorization
<1>3. [guard[g] EXCEPT !.at = "read", !.field = "verifier", !.id = id,
                       !.then = "redirect", !.code = page(id)] \in Guard
  BY <1>1, IdsAreNumbers DEF Guard, Phases, Fields
<1>4. PICK s \in Guard :
        s = [guard[g] EXCEPT !.at = "read", !.field = "verifier", !.id = id,
                             !.then = "redirect", !.code = page(id)]
  BY <1>3
<1>5. /\ s.at = "read" /\ s.field = "verifier" /\ s.id = id /\ s.then = "redirect" /\ s.code = page(id)
      /\ \A f \in {"serving", "final", "tried", "alone", "denied"} : s[f] = guard[g][f]
  BY <1>1, <1>4 DEF Guard
<1>6. Goes(g, s) /\ UNCHANGED <<file, port, pages, kills>> /\ UNCHANGED server
  BY <1>2, <1>4 DEF StartAuthorization
<1>7. clients' \cup access' \cup refresh' \subseteq Ids /\ revoked' = revoked /\ clients' = clients
  BY <1>1, <1>6 DEF server, TypeOK
<1>8. Alone(g) => ~ guard[g].denied /\ GoesWell(guard[g])
  BY <1>1 DEF HealOf, Doomed
<1>9. id # 0 /\ id \notin pages
  BY <1>1, <1>2, IdsAreNumbers DEF OAuthInv, PagesInv
<1>10. Alone(g) => ~ s.denied /\ GoesWell(s)'
  BY <1>1, <1>5, <1>6, <1>7, <1>8, <1>9 DEF GoesWell, SaveGoesWell
<1>11. s.code \in {guard[g].code, id, 0}
  BY <1>5
<1>12. QED
  BY <1>1, <1>2, <1>5, <1>6, <1>7, <1>10, <1>11, SavesStep

LEMMA ExchangeStep ==
  ASSUME OAuthInv, NEW g \in Guards, Exchange(g)
  PROVE  OAuthInv'
<1>1. TypeOK /\ PortOf(g) /\ HealOf(g) /\ guard[g] \in Guard /\ IsUp(g) /\ guard[g].at = "exchange"
  BY DEF OAuthInv, PortInv, HealInv, TypeOK, Exchange, IsUp
<1>2. PICK id \in Ids : /\ Fresh(id) /\ access' = access \cup {id} /\ refresh' = refresh \cup {id}
                        /\ Saves(g, "tokens", id, "reconnect")
  BY DEF Exchange
<1>3. [guard[g] EXCEPT !.at = "read", !.field = "tokens", !.id = id, !.then = "reconnect"] \in Guard
  BY <1>1 DEF Guard, Phases, Fields
<1>4. PICK s \in Guard :
        s = [guard[g] EXCEPT !.at = "read", !.field = "tokens", !.id = id, !.then = "reconnect"]
  BY <1>3
<1>5. /\ s.at = "read" /\ s.field = "tokens" /\ s.id = id /\ s.then = "reconnect"
      /\ \A f \in {"code", "serving", "final", "tried", "alone", "denied"} : s[f] = guard[g][f]
  BY <1>1, <1>4 DEF Guard
<1>6. Goes(g, s) /\ UNCHANGED <<file, port, pages, kills>> /\ revoked' = revoked
  BY <1>2, <1>4 DEF Saves, Exchange
<1>7. clients' \cup access' \cup refresh' \subseteq Ids
  BY <1>1, <1>2 DEF Exchange, TypeOK
<1>8. Alone(g) => ~ guard[g].denied /\ GoesWell(guard[g])
  BY <1>1 DEF HealOf, Doomed, Exchange, CodeFits
<1>9. Alone(g) => ~ s.denied /\ GoesWell(s)'
  BY <1>1, <1>2, <1>5, <1>8 DEF GoesWell, SaveGoesWell
<1>10. ~ guard[g].serving
  BY <1>1 DEF PortOf
<1>11. QED
  BY <1>1, <1>2, <1>5, <1>6, <1>7, <1>9, <1>10, SavesStep

\* What a guard that is alone reads is what it writes over: its save goes as it should.
LEMMA WriteSessionStep ==
  ASSUME OAuthInv, NEW g \in Guards, WriteSession(g)
  PROVE  OAuthInv'
<1>1. TypeOK /\ PortOf(g) /\ HealOf(g) /\ guard[g] \in Guard /\ IsUp(g) /\ guard[g].at = "write"
  BY DEF OAuthInv, PortInv, HealInv, TypeOK, WriteSession, IsUp
<1>2. NoSession \in Session
  BY IdsAreNumbers DEF NoSession, Session
<1>3. PICK s \in Guard : s = [guard[g] EXCEPT !.at = guard[g].then, !.copy = NoSession]
  BY <1>1, <1>2 DEF Guard
<1>4. /\ s.at = guard[g].then
      /\ \A f \in {"field", "id", "then", "code", "serving", "final", "tried", "alone", "denied"} :
           s[f] = guard[g][f]
  BY <1>1, <1>3 DEF Guard
<1>5. guard'[g] = s /\ Goes(g, s) /\ UNCHANGED <<port, pages, server, issued, kills>>
  BY <1>1, <1>3, GoesTo DEF WriteSession, Goes
<1>6. /\ guard[g].copy \in Session /\ guard[g].field \in Fields /\ guard[g].id \in Ids
      /\ file' = Merged(guard[g].copy, guard[g].field, guard[g].id)
  BY <1>1 DEF WriteSession, Guard
<1>7. /\ file' \in Session
      /\ guard[g].field = "client" => file' = [guard[g].copy EXCEPT !.client = guard[g].id]
      /\ guard[g].field = "tokens" => file' = [guard[g].copy EXCEPT !.tokens = guard[g].id]
      /\ guard[g].field = "verifier" => file' = [guard[g].copy EXCEPT !.verifier = guard[g].id]
  BY <1>6, MergedType
<1>8. /\ guard[g].field = "client" =>
           file'.client = guard[g].id /\ file'.tokens = guard[g].copy.tokens
      /\ guard[g].field = "tokens" =>
           /\ file'.tokens = guard[g].id
           /\ file'.client = guard[g].copy.client /\ file'.verifier = guard[g].copy.verifier
      /\ guard[g].field = "verifier" =>
           file'.verifier = guard[g].id /\ file'.client = guard[g].copy.client
  BY <1>6, <1>7 DEF Session
<1>9. s.at \notin {"off", "failed"}
  BY <1>1, <1>4 DEF PortOf, FirstConnect
<1>10. PortOf(g)'
  BY <1>1, <1>4, <1>5 DEF PortOf, FirstConnect, IsUp
<1>11. clients' = clients /\ access' = access /\ pages' = pages
  BY <1>5 DEF server
<1>12. ASSUME GoesWell(guard[g]) PROVE GoesWell(s)'
  <2>1. guard[g].copy = file /\ SaveGoesWell(guard[g]) /\ ~ s.final
    BY <1>1, <1>4, <1>12 DEF GoesWell, SaveGoesWell
  <2>2. CASE guard[g].then = "auth"
    BY <1>4, <1>8, <1>11, <2>1, <2>2 DEF GoesWell, SaveGoesWell
  <2>3. CASE guard[g].then = "redirect"
    BY <1>4, <1>8, <1>11, <2>1, <2>3 DEF GoesWell, SaveGoesWell
  <2>4. CASE guard[g].then = "reconnect"
    BY <1>4, <1>8, <1>11, <2>1, <2>4 DEF GoesWell, SaveGoesWell
  <2>5. CASE guard[g].then \notin {"auth", "redirect", "reconnect"}
    BY <1>4, <2>1, <2>5 DEF GoesWell, SaveGoesWell
  <2>6. QED
    BY <2>2, <2>3, <2>4, <2>5
<1>13. Doomed(guard[g]) => Doomed(s)'
  BY <1>1, <1>4, <1>8 DEF Doomed
<1>14. HealOf(g)'
  BY <1>1, <1>4, <1>5, <1>9, <1>12, <1>13 DEF HealOf, Alone, FirstConnect, IsUp
<1>15. issued \in Nat /\ \A v \in pages \cup {s.code} : v <= issued
  BY <1>1, <1>4, IdsAreNumbers DEF OAuthInv, PagesInv
<1>16. /\ pages' \cup clients' \cup access' \cup refresh' \subseteq Ids
       /\ issued' \in Ids /\ kills' \in Nat /\ revoked' \in Nat /\ issued <= issued'
       /\ \A v \in pages' \cup {s.code} : v <= issued'
  BY <1>1, <1>5, <1>15 DEF server, TypeOK
<1>17. port' = port /\ (port' = g <=> (s.at \notin {"off", "failed"} /\ ~ s.serving))
  BY <1>1, <1>4, <1>5, <1>9 DEF PortOf, FirstConnect
<1>18. QED
  BY <1>1, <1>4, <1>5, <1>7, <1>10, <1>14, <1>16, <1>17, StepOf

LEMMA RedirectStep ==
  ASSUME OAuthInv, NEW g \in Guards, Redirect(g)
  PROVE  OAuthInv'
<1> DEFINE next == IF guard[g].serving THEN "running"
                   ELSE IF guard[g].final THEN "failed" ELSE "consent"
<1>1. TypeOK /\ PortOf(g) /\ HealOf(g) /\ guard[g] \in Guard /\ IsUp(g) /\ guard[g].at = "redirect"
  BY DEF OAuthInv, PortInv, HealInv, TypeOK, Redirect, IsUp
<1>2. [guard[g] EXCEPT !.at = next, !.code = 0] \in Guard
  BY <1>1, IdsAreNumbers DEF Guard, Phases
<1>3. PICK s \in Guard : s = [guard[g] EXCEPT !.at = next, !.code = 0]
  BY <1>2
<1>4. /\ s.at = next /\ s.code = 0
      /\ \A f \in {"field", "id", "then", "serving", "final", "tried", "alone", "denied"} :
           s[f] = guard[g][f]
  BY <1>1, <1>3 DEF Guard
<1>5. /\ guard'[g] = s /\ Goes(g, s) /\ UNCHANGED <<file, server, issued, kills>>
      /\ pages' = (pages \cup {guard[g].code}) \ {0}
      /\ port' = IF guard[g].final /\ port = g THEN Free ELSE port
  BY <1>1, <1>3, GoesTo DEF Redirect, Goes
<1>6. /\ port' = port \/ (port = g /\ port' = Free)
      /\ port' = g <=> (s.at \notin {"off", "failed"} /\ ~ s.serving)
  BY <1>1, <1>4, <1>5, OAuthAssumption DEF PortOf, FirstConnect
<1>7. PortOf(g)'
  BY <1>1, <1>4, <1>5, <1>6 DEF PortOf, FirstConnect, IsUp
<1>8. Alone(g) => ~ guard[g].denied /\ GoesWell(guard[g])
  BY <1>1 DEF HealOf, Doomed
<1>9. clients' = clients
  BY <1>5 DEF server
<1>10. Alone(g) => ~ s.denied /\ (s.at = "consent" => GoesWell(s)') /\ s.at # "failed"
  BY <1>1, <1>4, <1>5, <1>8, <1>9 DEF GoesWell
<1>11. HealOf(g)'
  BY <1>1, <1>4, <1>5, <1>10 DEF HealOf, Alone, FirstConnect, IsUp
<1>12. issued \in Nat /\ \A v \in pages \cup {guard[g].code} : v <= issued
  BY <1>1, IdsAreNumbers DEF OAuthInv, PagesInv
<1>13. /\ pages' \cup clients' \cup access' \cup refresh' \subseteq Ids
       /\ file' \in Session /\ issued' \in Ids /\ kills' \in Nat /\ revoked' \in Nat /\ issued <= issued'
       /\ \A v \in pages' \cup {s.code} : v <= issued'
  BY <1>1, <1>4, <1>5, <1>12 DEF server, TypeOK, Guard
<1>14. QED
  BY <1>1, <1>4, <1>5, <1>6, <1>7, <1>11, <1>13, StepOf

\* A guard that is killed leaves whatever the file had become to the next one.
LEMMA KillStep ==
  ASSUME OAuthInv, NEW g \in Guards, Kill(g)
  PROVE  OAuthInv'
<1>1. TypeOK /\ IsUp(g)
  BY DEF OAuthInv, Kill
<1>2. Off \in Guard /\ NoSession \in Session /\ Off.at = "off" /\ Off.code = 0
  BY IdsAreNumbers DEF Off, Guard, Phases, Fields, NoSession, Session
<1>3. /\ guard'[g] = Off /\ Goes(g, Off) /\ UNCHANGED <<pages, server, issued>> /\ kills' = kills + 1
      /\ port' = IF port = g THEN Free ELSE port
  BY <1>1, <1>2, GoesTo DEF Kill, Goes
<1>4. /\ port' = port \/ (port = g /\ port' = Free)
      /\ port' # g
  BY <1>3, OAuthAssumption
<1>5. PortOf(g)' /\ HealOf(g)'
  BY <1>2, <1>3, <1>4 DEF PortOf, HealOf, Alone, FirstConnect, IsUp
<1>6. file' \in Session
  BY <1>1, <1>2 DEF Kill, TypeOK
<1>7. issued \in Nat /\ \A v \in pages : v <= issued
  BY <1>1, IdsAreNumbers DEF OAuthInv, PagesInv
<1>8. /\ pages' \cup clients' \cup access' \cup refresh' \subseteq Ids
      /\ issued' \in Ids /\ kills' \in Nat /\ revoked' \in Nat /\ issued <= issued'
      /\ Off.code <= issued' /\ \A v \in pages' : v <= issued'
  BY <1>1, <1>2, <1>3, <1>7 DEF server, TypeOK
<1>9. QED
  BY <1>1, <1>2, <1>3, <1>4, <1>5, <1>6, <1>8, StepOf

\* The port is free, so no guard is on its way to its first connect: none that is up was
\* alone and still has to stay so.
LEMMA StartStep ==
  ASSUME OAuthInv, NEW g \in Guards, Start(g)
  PROVE  OAuthInv'
<1> DEFINE alone == \A h \in Guards \ {g} : ~ IsUp(h)
<1>1. TypeOK /\ ~ IsUp(g) /\ port = Free
  BY DEF OAuthInv, Start
<1>2. [Off EXCEPT !.at = "connect", !.alone = alone] \in Guard
  BY IdsAreNumbers DEF Off, Guard, Phases, Fields, NoSession, Session
<1>3. PICK s \in Guard : s = [Off EXCEPT !.at = "connect", !.alone = alone]
  BY <1>2
<1>4. /\ s.at = "connect" /\ s.code = 0 /\ s.alone = alone
      /\ ~ s.serving /\ ~ s.final /\ ~ s.denied
  BY <1>3 DEF Off
<1>5. /\ guard' \in [Guards -> Guard] /\ guard'[g] = s /\ port' = g
      /\ \A h \in Guards \ {g} : guard'[h] = guard[h]
      /\ UNCHANGED <<file, pages, server, issued, kills>>
  BY <1>1, <1>3, GoesTo DEF Start, Goes
<1>6. ASSUME NEW h \in Guards \ {g}
      PROVE  PortOf(h)' /\ ~ Alone(h)' /\ HealOf(h)' /\ (IsUp(h)' <=> IsUp(h))
  <2>1. PortOf(h) /\ HealOf(h) /\ port # h /\ port' # h /\ guard'[h] = guard[h]
    BY <1>1, <1>5, OAuthAssumption DEF OAuthInv, PortInv, HealInv
  <2>2. ~ FirstConnect(h)
    BY <2>1 DEF PortOf
  <2>3. QED
    BY <2>1, <2>2 DEF PortOf, FirstConnect, Alone, HealOf, IsUp
<1>7. PortOf(g)' /\ HealOf(g)'
  BY <1>4, <1>5 DEF PortOf, FirstConnect, HealOf, GoesWell, Alone, IsUp
<1>8. PortInv' /\ HealInv'
  BY <1>6, <1>7 DEF PortInv, HealInv
<1>9. AloneInv'
  BY <1>4, <1>5, <1>6 DEF AloneInv, Alone
<1>10. TypeOK'
  BY <1>1, <1>5 DEF TypeOK, server
<1>11. PagesInv'
  BY <1>1, <1>4, <1>5, IdsAreNumbers DEF OAuthInv, PagesInv, Ids
<1>12. QED
  BY <1>8, <1>9, <1>10, <1>11 DEF OAuthInv

\* A page that is no longer open takes nothing from the guards.
LEMMA PageGone ==
  ASSUME OAuthInv, NEW v \in pages, pages' = pages \ {v},
         UNCHANGED <<file, port, guard, server, issued, kills>>
  PROVE  OAuthInv'
<1>1. TypeOK' /\ PagesInv'
  BY DEF OAuthInv, TypeOK, PagesInv, server
<1>2. clients' = clients /\ access' = access /\ file' = file /\ guard' = guard
  BY DEF server
<1>3. ASSUME NEW g \in Guards
      PROVE  /\ IsUp(g)' <=> IsUp(g)
             /\ PortOf(g) => PortOf(g)'
             /\ Alone(g)' <=> Alone(g)
             /\ GoesWell(guard[g]) => GoesWell(guard[g])'
             /\ Doomed(guard[g]) => Doomed(guard[g])'
  BY <1>2 DEF IsUp, PortOf, FirstConnect, Alone, GoesWell, SaveGoesWell, Doomed
<1>4. PortInv' /\ AloneInv'
  BY <1>3 DEF OAuthInv, PortInv, AloneInv
<1>5. HealInv'
  BY <1>2, <1>3 DEF OAuthInv, HealInv, HealOf
<1>6. QED
  BY <1>1, <1>4, <1>5 DEF OAuthInv

\* The code of the page that the guard waits for fits what is in the file; the code of
\* another page does not.
LEMMA ConsentStep ==
  ASSUME OAuthInv, NEW v \in Ids, Consent(v)
  PROVE  OAuthInv'
<1>1. TypeOK /\ v \in pages /\ pages' = pages \ {v} /\ UNCHANGED <<file, port, server, issued, kills>>
  BY DEF OAuthInv, Consent
<1>2. CASE ~ (port # Free /\ guard[port].at = "consent")
  BY <1>1, <1>2, PageGone DEF Consent
<1>3. CASE port # Free /\ guard[port].at = "consent"
  <2>1. PICK g \in Guards : port = g
    BY <1>1, <1>3 DEF TypeOK
  <2>2. PortOf(g) /\ HealOf(g) /\ guard[g] \in Guard /\ guard[g].at = "consent" /\ IsUp(g)
    BY <1>1, <1>3, <2>1 DEF OAuthInv, PortInv, HealInv, TypeOK, IsUp
  <2>3. PICK s \in Guard :
          s = [guard[g] EXCEPT !.at = "exchange", !.code = v, !.denied = v # guard[g].id]
    BY <2>2 DEF Guard, Phases
  <2>4. /\ s.at = "exchange" /\ s.code = v /\ s.denied = (v # guard[g].id)
        /\ \A f \in {"field", "id", "then", "serving", "final", "tried", "alone"} :
             s[f] = guard[g][f]
    BY <2>2, <2>3 DEF Guard
  <2>5. guard'[g] = s /\ Goes(g, s)
    BY <1>1, <1>3, <2>1, <2>3, GoesTo DEF Consent, Goes
  <2>6. port' = port /\ ~ guard[g].serving /\ PortOf(g)'
    BY <1>1, <2>1, <2>2, <2>4, <2>5 DEF PortOf, FirstConnect, IsUp
  <2>7. Alone(g) => GoesWell(guard[g])
    BY <2>2 DEF HealOf, Doomed
  <2>8. clients' = clients /\ file' = file
    BY <1>1 DEF server
  <2>9. Alone(g) => IF s.denied THEN Doomed(s)' ELSE GoesWell(s)'
    BY <1>1, <2>2, <2>4, <2>7, <2>8 DEF GoesWell, Doomed
  <2>10. HealOf(g)'
    BY <2>2, <2>4, <2>5, <2>9 DEF HealOf, Alone, FirstConnect, IsUp
  <2>11. issued \in Nat /\ \A w \in pages : w <= issued
    BY <1>1, IdsAreNumbers DEF OAuthInv, PagesInv
  <2>12. /\ pages' \cup clients' \cup access' \cup refresh' \subseteq Ids
         /\ file' \in Session /\ issued' \in Ids /\ kills' \in Nat /\ revoked' \in Nat /\ issued <= issued'
         /\ s.code <= issued' /\ \A w \in pages' : w <= issued'
    BY <1>1, <2>4, <2>11 DEF server, TypeOK
  <2>13. port' = g <=> (s.at \notin {"off", "failed"} /\ ~ s.serving)
    BY <2>1, <2>4, <2>6
  <2>14. QED
    BY <2>2, <2>4, <2>5, <2>6, <2>10, <2>12, <2>13, StepOf
<1>4. QED
  BY <1>2, <1>3

LEMMA RefuseStep ==
  ASSUME OAuthInv, NEW v \in Ids, Refuse(v)
  PROVE  OAuthInv'
<1>1. TypeOK /\ v \in pages /\ pages' = pages \ {v} /\ UNCHANGED <<file, server, issued, kills>>
  BY DEF OAuthInv, Refuse
<1>2. CASE ~ (port # Free /\ guard[port].at = "consent")
  BY <1>1, <1>2, PageGone DEF Refuse
<1>3. CASE port # Free /\ guard[port].at = "consent"
  <2>1. PICK g \in Guards : port = g
    BY <1>1, <1>3 DEF TypeOK
  <2>2. PortOf(g) /\ guard[g] \in Guard /\ guard[g].at = "consent" /\ IsUp(g)
    BY <1>1, <1>3, <2>1 DEF OAuthInv, PortInv, TypeOK, IsUp
  <2>3. PICK s \in Guard : s = [guard[g] EXCEPT !.at = "failed", !.denied = TRUE]
    BY <2>2 DEF Guard, Phases
  <2>4. /\ s.at = "failed" /\ s.denied = TRUE
        /\ \A f \in {"code", "serving", "alone"} : s[f] = guard[g][f]
    BY <2>2, <2>3 DEF Guard
  <2>5. guard'[g] = s /\ Goes(g, s) /\ port' = Free
    BY <1>1, <1>3, <2>1, <2>3, GoesTo DEF Refuse, Goes
  <2>6. port' # g
    BY <2>5, OAuthAssumption
  <2>7. PortOf(g)' /\ HealOf(g)'
    BY <2>4, <2>5, <2>6 DEF PortOf, HealOf, Alone, FirstConnect, IsUp
  <2>8. issued \in Nat /\ \A w \in pages \cup {s.code} : w <= issued
    BY <1>1, <2>4, IdsAreNumbers DEF OAuthInv, PagesInv
  <2>9. /\ pages' \cup clients' \cup access' \cup refresh' \subseteq Ids
        /\ file' \in Session /\ issued' \in Ids /\ kills' \in Nat /\ revoked' \in Nat /\ issued <= issued'
        /\ \A w \in pages' \cup {s.code} : w <= issued'
    BY <1>1, <2>8 DEF server, TypeOK
  <2>10. ~ (s.at \notin {"off", "failed"} /\ ~ s.serving)
    BY <2>4
  <2>11. QED
    BY <2>1, <2>2, <2>4, <2>5, <2>6, <2>7, <2>9, <2>10, StepOf
<1>4. QED
  BY <1>2, <1>3

\* What the server takes back, it takes back when no guard is alone.
LEMMA TakenBack ==
  ASSUME OAuthInv, Quiet, UNCHANGED <<file, port, guard, pages, issued>>, TypeOK'
  PROVE  OAuthInv'
<1>1. \A g \in Guards : ~ Alone(g)
  BY DEF OAuthInv, PortInv, PortOf, Quiet, Alone, FirstConnect, IsUp
<1>2. \A g \in Guards : IsUp(g)' <=> IsUp(g)
  BY DEF IsUp
<1>3. \A g \in Guards : PortOf(g) => PortOf(g)'
  BY DEF PortOf, FirstConnect, IsUp
<1>4. \A g \in Guards : ~ Alone(g)'
  BY <1>1 DEF Alone, FirstConnect, IsUp
<1>5. \A g \in Guards : HealOf(g) => HealOf(g)'
  BY <1>4 DEF HealOf
<1>6. PortInv' /\ AloneInv' /\ HealInv' /\ PagesInv'
  BY <1>3, <1>4, <1>5 DEF OAuthInv, PortInv, AloneInv, HealInv, PagesInv
<1>7. QED
  BY <1>6 DEF OAuthInv

LEMMA OAuthStepHeals ==
  ASSUME OAuthInv, [Next]_vars
  PROVE  OAuthInv'
<1>1. CASE UNCHANGED vars
  <2>1. UNCHANGED <<file, port, guard, pages, clients, access, refresh, issued, kills, revoked>>
    BY <1>1 DEF vars
  <2>2. QED
    BY <2>1 DEF OAuthInv, TypeOK, PagesInv, PortInv, PortOf, AloneInv, HealInv, HealOf, Alone,
                FirstConnect, IsUp, GoesWell, SaveGoesWell, Doomed
<1>2. ASSUME NEW g \in Guards,
             \/ Start(g) \/ Connected(g) \/ Challenged(g) \/ Register(g) \/ Refresh(g)
             \/ RefreshRefused(g) \/ ClientRefused(g) \/ StartAuthorization(g)
             \/ ReadSession(g) \/ WriteSession(g) \/ Redirect(g)
             \/ Exchange(g) \/ ExchangeRefused(g) \/ Kill(g)
      PROVE  OAuthInv'
  BY <1>2, StartStep, ConnectedStep, ChallengedStep, RegisterStep, RefreshStep, RefreshRefusedStep,
     ClientRefusedStep, StartAuthorizationStep, ReadSessionStep, WriteSessionStep, RedirectStep,
     ExchangeStep, ExchangeRefusedStep, KillStep
<1>3. ASSUME NEW id \in Ids, Expire(id) PROVE OAuthInv'
  <2>1. TypeOK'
    BY <1>3 DEF OAuthInv, TypeOK, Expire
  <2>2. QED
    BY <1>3, <2>1, TakenBack DEF Expire
<1>4. ASSUME NEW id \in Ids, Revoke(id) PROVE OAuthInv'
  <2>1. TypeOK'
    BY <1>4 DEF OAuthInv, TypeOK, Revoke
  <2>2. QED
    BY <1>4, <2>1, TakenBack DEF Revoke
<1>5. QED
  BY <1>1, <1>2, <1>3, <1>4, ConsentStep, RefuseStep DEF Next

LEMMA OAuthInvHeals == OAuthInv => FileHeals
  BY DEF OAuthInv, HealInv, HealOf, FileHeals

\* Guards by themselves: whatever kills, revocations and overlapping saves left in the
\* session file, the next guard that has it to itself fails only if the user refuses.
THEOREM OAuthFileHeals == Spec => []FileHeals
<1>1. OAuthInv /\ [Next]_vars => OAuthInv'
  BY OAuthStepHeals
<1>2. QED
  BY OAuthStart, OAuthInvHeals, <1>1, PTL DEF Spec

\* The proxy moves the guards only as module OAuth says: what is proved of them by
\* themselves holds of them in the proxy.
THEOREM ProxyGuardsAreOAuth == ProxySpec => Spec
<1>1. ProxyInit => Init
  BY DEF ProxyInit
<1>2. ASSUME [ProxyNext]_allVars PROVE [Next]_vars
  <2>1. CASE UNCHANGED allVars
    BY <2>1 DEF allVars
  <2>2. CASE OAuthStep
    BY <2>2 DEF OAuthStep
  <2>3. CASE Change
    BY <2>3 DEF Change
  <2>4. ASSUME NEW g \in Guards,
               \/ Launch(g) \/ BeginBatch(g) \/ FetchSecrets(g) \/ FetchFails(g) \/ Spawn(g)
               \/ ConnectHttp(g) \/ Exit(g) \/ ListTools(g)
               \/ \E n \in Names : ReadName(g, n)
               \/ \E tool \in Tools, args \in SUBSET Patterns, text \in Texts :
                    CallTool(g, tool, args, text)
        PROVE  UNCHANGED vars
    BY <2>4 DEF Launch, Starting, BeginBatch, ReadName, FetchSecrets, FetchFails, Spawn,
                ConnectHttp, Exit, Serves, ListTools, CallTool
  <2>5. QED
    BY <1>2, <2>1, <2>2, <2>3, <2>4 DEF ProxyNext
<1>3. QED
  BY <1>1, <1>2, PTL DEF ProxySpec, Spec

\* The session file heals for the guards of the proxy too.
THEOREM ProxyFileHeals == ProxySpec => []FileHeals
  BY OAuthFileHeals, ProxyGuardsAreOAuth, PTL
=============================================================================
