------------------------------- MODULE Proxy --------------------------------
(***************************************************************************)
(* gateway-proxy: one entry of the manifest (src/proxy/manifest.ts), the   *)
(* secrets injected into a child (src/proxy/injector.ts,                   *)
(* src/proxy/runner.ts), and the policy on what passes between a client    *)
(* and the server (src/proxy/guard.ts, src/proxy/policy.ts).               *)
(*                                                                         *)
(* A guard of an OAuth server connects as module OAuth says; one of a      *)
(* stdio server asks the gateway for its secrets in one request, which the *)
(* gateway answers with one read for each name (src/core/secrets-service), *)
(* and spawns it.  An argument or a text is the set of patterns that match *)
(* it.                                                                     *)
(***************************************************************************)
EXTENDS OAuth

CONSTANTS
  Tools, Patterns, Names, Vars,
  DefaultDeny,  \* DEFAULT_DENY_ARG_PATTERNS
  DefaultKey,   \* consumerKeyEnv of the manifest
  Environ,      \* the environment the proxy is started with
  Entries,      \* bound: what the entry of the manifest may say
  Texts,        \* bound: what the server answers to a call
  MaxChanges    \* bound: changes of the gateway, the server and the manifest

ASSUME ProxyAssumption ==
  /\ DefaultDeny \subseteq Patterns
  /\ DefaultKey \in Vars
  /\ Environ \in [Vars -> {"unset", "plain", "key"}]
  /\ Names \cap {"unset", "plain", "key", "static"} = {}
  /\ Texts \subseteq SUBSET Patterns
  /\ MaxChanges \in Nat

VARIABLES
  entry,     \* the entry of the manifest
  readable,  \* readable[n]: the version a read of secret n answers, 0 if missing or denied
  keyGood,   \* the consumer key is valid
  tools,     \* tools the server behind the proxy offers
  started,   \* started[g]: the entry g was started from
  child,     \* child[g]: the injected secrets and the environment of the process g spawned
  listed,    \* listed[g]: the last tools/list that g answered
  offered,   \* ghost: what it was made from
  call,      \* call[g]: the last tools/call of g
  seen,      \* ghost: seen[g][n]: what was readable of n while g's request was served
  changes    \* ghost

proxyVars == <<entry, readable, keyGood, tools, started, child, listed, offered, call, seen, changes>>
allVars == <<vars, proxyVars>>

----------------------------------------------------------------------------

\* ProxyServer, as parseManifest lets it through: a map of secrets to variables,
\* static variables, the variable of the consumer key, and the policy.
IsEntry(e) ==
  /\ e.transport \in {"stdio", "http", "oauth"}
  /\ e.secrets \in UNION {[S -> Vars] : S \in SUBSET Names}
  /\ e.static \subseteq Vars /\ e.keyVar \in Vars
  /\ e.allow \subseteq Tools /\ e.limits \in BOOLEAN
  /\ e.deny \subseteq Patterns /\ e.redact \subseteq Patterns /\ e.defaults \in BOOLEAN

ASSUME EntriesAssumption == \A e \in Entries : IsEntry(e)

NoSecrets == [n \in {} |-> 0]

NoChild == [at |-> "none", injected |-> NoSecrets, env |-> [v \in Vars |-> "unset"]]

Unseen == [n \in Names |-> {}]

NoCall == [tool |-> "none", verdict |-> "none", text |-> {}]

\* compilePolicy: limits says that there is an allowlist.
Compiled(e) ==
  [allow |-> IF e.limits THEN e.allow ELSE Tools,
   deny |-> e.deny \cup (IF e.defaults THEN DefaultDeny ELSE {}),
   redact |-> e.redact]

\* A guard compiles its policy once, from the entry it was started from.
Policy(g) == Compiled(started[g])

ProxyInit ==
  /\ Init
  /\ entry \in Entries
  /\ readable = [n \in Names |-> 1] /\ keyGood = TRUE
  /\ tools = Tools
  /\ started = [g \in Guards |-> entry]
  /\ child = [g \in Guards |-> NoChild]
  /\ listed = [g \in Guards |-> {}] /\ offered = listed
  /\ call = [g \in Guards |-> NoCall]
  /\ seen = [g \in Guards |-> Unseen]
  /\ changes = 0

----------------------------------------------------------------------------
\* Starting a server that is a child process.

\* resolveConsumerKey.
HasKey(e) == Environ[e.keyVar] = "key"

\* fetchInjectedEnv sends no request when there is nothing to fetch.
CanAsk(e) == e.secrets = NoSecrets \/ HasKey(e)

BatchGood_Partial(e, answer) == DOMAIN answer = DOMAIN e.secrets

\* The answer has the value of each name, or says it is missing or denied; one that is
\* makes the start fail.
BatchGood(e, answer) ==
  /\ DOMAIN answer = DOMAIN e.secrets
  /\ \A n \in DOMAIN answer : answer[n] > 0

\* The variables of consumer keys that the child does not inherit.
Stripped(e) == {DefaultKey, e.keyVar}

\* The last secret of an entry that goes to v: nothing keeps two from one variable.
LastFor(e, v) == CHOOSE n \in DOMAIN e.secrets : e.secrets[n] = v

\* buildChildEnv: injected secrets win over static variables, and those over inherited ones.
ChildEnv(e) ==
  [v \in Vars |->
     IF \E n \in DOMAIN e.secrets : e.secrets[n] = v THEN LastFor(e, v)
     ELSE IF v \in e.static THEN "static"
     ELSE IF v \in Stripped(e) THEN "unset"
     ELSE Environ[v]]

\* The manifest is read, and the secrets are asked for ...
Launch(g) ==
  /\ entry.transport = "stdio"
  /\ child[g].at = "none"
  /\ CanAsk(entry)
  /\ started' = [started EXCEPT ![g] = entry]
  /\ child' = [child EXCEPT ![g].at = "asking"]
  /\ UNCHANGED <<vars, entry, readable, keyGood, tools, listed, offered, call, seen, changes>>

Starting(g) == UNCHANGED <<vars, entry, readable, keyGood, tools, started, listed, offered, call, changes>>

\* ... which takes no request if there are none; else the hooks of the gateway look at
\* the key ...
BeginBatch(g) ==
  /\ Starting(g)
  /\ child[g].at = "asking"
  /\ keyGood \/ started[g].secrets = NoSecrets
  /\ child' = [child EXCEPT ![g].at = "answering"]
  /\ seen' = [seen EXCEPT ![g] = [n \in Names |-> {readable[n]}]]

\* An answer with the value of n besides.
Extended(answer, n) ==
  [m \in DOMAIN answer \cup {n} |-> IF m = n THEN readable[n] ELSE answer[m]]

\* ... and its handler reads one name after the other, from the row or the cache.
ReadName(g, n) ==
  /\ Starting(g)
  /\ child[g].at = "answering"
  /\ n \in DOMAIN started[g].secrets \ DOMAIN child[g].injected
  /\ child' = [child EXCEPT ![g].injected = Extended(@, n)]
  /\ UNCHANGED seen

\* fetchInjectedEnv has the answer for all of the names.
FetchSecrets(g) ==
  /\ Starting(g)
  /\ child[g].at = "answering"
  /\ BatchGood(started[g], child[g].injected)
  /\ child' = [child EXCEPT ![g].at = "fetched"]
  /\ UNCHANGED seen

\* The start fails on a name that is missing or denied, and on any other answer: a bad
\* key, too many requests, a gateway that is away.
FetchFails(g) ==
  /\ Starting(g)
  /\ child[g].at \in {"asking", "answering"}
  /\ started[g].secrets # NoSecrets
  /\ child' = [child EXCEPT ![g] = NoChild]
  /\ seen' = [seen EXCEPT ![g] = Unseen]

\* The process is started with what came, whatever has changed since.
Spawn(g) ==
  /\ Starting(g)
  /\ child[g].at = "fetched"
  /\ child' = [child EXCEPT ![g].at = "up", ![g].env = ChildEnv(started[g])]
  /\ UNCHANGED seen

\* A guard of a server that is hosted elsewhere, without authorization of its own.
ConnectHttp(g) ==
  /\ entry.transport = "http"
  /\ child[g].at = "none"
  /\ child' = [child EXCEPT ![g].at = "up"]
  /\ started' = [started EXCEPT ![g] = entry]
  /\ UNCHANGED <<vars, entry, readable, keyGood, tools, listed, offered, call, seen, changes>>

Exit(g) ==
  /\ child[g].at = "up"
  /\ child' = [child EXCEPT ![g] = NoChild]
  /\ listed' = [listed EXCEPT ![g] = {}]
  /\ offered' = [offered EXCEPT ![g] = {}]
  /\ call' = [call EXCEPT ![g] = NoCall]
  /\ seen' = [seen EXCEPT ![g] = Unseen]
  /\ UNCHANGED <<vars, entry, readable, keyGood, tools, started, changes>>

----------------------------------------------------------------------------
\* The guard between a client and the server.

Serves(g) ==
  /\ child[g].at = "up"
  /\ UNCHANGED <<vars, entry, readable, keyGood, tools, started, child, seen, changes>>

FilterTools_All(some, p) == some

FilterTools(some, p) == some \cap p.allow

ListTools(g) ==
  /\ Serves(g)
  /\ offered' = [offered EXCEPT ![g] = tools]
  /\ listed' = [listed EXCEPT ![g] = FilterTools(tools, Policy(g))]
  /\ UNCHANGED call

\* evaluateToolCall: the name first, and then the arguments.
Verdict(tool, args, p) ==
  IF tool \notin p.allow THEN "notAllowed"
  ELSE IF args \cap p.deny # {} THEN "badArgs"
  ELSE "forwarded"

Redacted(text, p) == text \ p.redact

\* A call that is blocked is alerted; what becomes of the alert changes nothing.
CallTool(g, tool, args, text) ==
  /\ Serves(g)
  /\ call' = [call EXCEPT ![g] =
       [tool |-> tool, verdict |-> Verdict(tool, args, Policy(g)),
        text |-> IF Verdict(tool, args, Policy(g)) = "forwarded" THEN Redacted(text, Policy(g)) ELSE {}]]
  /\ UNCHANGED <<listed, offered>>

----------------------------------------------------------------------------
\* Secrets, grants and keys change on the gateway, between two reads of a batch as well;
\* the tools of the server and the manifest change at any moment of a start.
Change ==
  /\ changes < MaxChanges /\ entry.transport # "oauth"
  /\ changes' = changes + 1
  /\ \/ \E n \in Names, v \in 0 .. 2 : readable' = [readable EXCEPT ![n] = v] /\ UNCHANGED <<keyGood, tools, entry>>
     \/ keyGood' = FALSE /\ UNCHANGED <<readable, tools, entry>>
     \/ tools' \in SUBSET Tools /\ UNCHANGED <<readable, keyGood, entry>>
     \/ /\ entry' \in {e \in Entries : e.transport = entry.transport}
        /\ UNCHANGED <<readable, keyGood, tools>>
  /\ seen' = [g \in Guards |-> IF child[g].at # "answering" THEN seen[g]
                               ELSE [n \in Names |-> seen[g][n] \cup {readable'[n]}]]
  /\ UNCHANGED <<vars, started, child, listed, offered, call>>

\* How guards of an OAuth server get connected; what passes through them then, passes as
\* through any other guard.
OAuthStep ==
  /\ entry.transport = "oauth"
  /\ Next
  /\ UNCHANGED proxyVars

ProxyNext ==
  \/ OAuthStep
  \/ Change
  \/ \E g \in Guards :
       \/ Launch(g) \/ BeginBatch(g) \/ FetchSecrets(g) \/ FetchFails(g) \/ Spawn(g) 
       \/ ConnectHttp(g) \/ Exit(g) \/ ListTools(g)
       \/ \E n \in Names : ReadName(g, n)
       \/ \E tool \in Tools, args \in SUBSET Patterns, text \in Texts : CallTool(g, tool, args, text)

ProxySpec == ProxyInit /\ [][ProxyNext]_allVars
----------------------------------------------------------------------------
\* A child that runs has every secret of the entry it was started from, whatever is
\* deleted, refused or edited while it starts: each as it was readable at some moment of
\* the request (not all at one), in the variable the entry names (two that name one
\* variable leave one of them there), and neither of the keys that fetch secrets for it.
ChildComplete ==
  \A g \in Guards : child[g].at = "up" /\ started[g].transport = "stdio" =>
    LET e == started[g] IN
    /\ DOMAIN child[g].injected = DOMAIN e.secrets
    /\ \A n \in DOMAIN e.secrets :
         /\ child[g].injected[n] > 0 /\ child[g].injected[n] \in seen[g][n]
         /\ child[g].env[e.secrets[n]] \in {m \in DOMAIN e.secrets : e.secrets[m] = e.secrets[n]}
    /\ \A v \in Stripped(e) : child[g].env[v] # "key"

\* What the guard lists and what it forwards agree, though they are two checks made at
\* two times: a tool it forwards was not hidden, and one it calls not allowed was.
CallsAgree ==
  \A g \in Guards :
    /\ call[g].verdict \in {"forwarded", "badArgs"} /\ call[g].tool \in offered[g]
         => call[g].tool \in listed[g]
    /\ call[g].verdict = "notAllowed" => call[g].tool \notin listed[g]
=============================================================================
