------------------------------- MODULE OAuth --------------------------------
(***************************************************************************)
(* Guards of one OAuth-protected MCP server and the session file they      *)
(* share (src/proxy/oauth.ts, src/proxy/guard.ts): the first connect, the  *)
(* consent in the browser, the exchange of the code, and the refreshes of  *)
(* guards that run.                                                        *)
(*                                                                         *)
(* The client library and the authorization server are external: they are  *)
(* modelled from the calls they make to the provider.  Each save reads the *)
(* whole file and writes the whole file, in two steps that steps of other  *)
(* guards may separate.  A guard owns the callback port from its start to  *)
(* the end of its first connect.                                           *)
(***************************************************************************)
EXTENDS Naturals, FiniteSets

CONSTANTS
  Guards,     \* processes that guard the server
  Free,       \* nobody has the callback port
  MaxIssued,  \* bound: clients, tokens and verifiers that are made
  MaxKills,   \* bound: guards that are killed
  MaxRevoked  \* bound: what the authorization server takes back

ASSUME OAuthAssumption ==
  /\ Free \notin Guards
  /\ MaxIssued \in Nat /\ MaxKills \in Nat /\ MaxRevoked \in Nat

VARIABLES
  file,     \* the OAuthSession in the file
  port,     \* who listens on the callback port
  guard,    \* guard[g]: where g is, and what it holds
  pages,    \* consent pages that are open in the browser: the verifiers they are for
  clients,  \* registrations the authorization server knows
  access,   \* tokens that give access
  refresh,  \* tokens that can be refreshed
  issued,   \* ghost: clients, tokens and verifiers made so far
  kills,    \* ghost
  revoked   \* ghost

vars == <<file, port, guard, pages, clients, access, refresh, issued, kills, revoked>>

server == <<clients, access, refresh, revoked>>

----------------------------------------------------------------------------

Ids == 0 .. MaxIssued

Session == [client : Ids, tokens : Ids, verifier : Ids]

NoSession == [client |-> 0, tokens |-> 0, verifier |-> 0]

Fields == {"client", "tokens", "verifier"}

Phases == {"off", "connect", "auth", "read", "write", "redirect", "consent",
           "exchange", "reconnect", "running", "failed"}

\* read and write are the two halves of a save of field := id; then is what follows it;
\* code: the page to open once the verifier is saved, then the code its approval gave.
\* serving: connected once; final: the connect that no handler catches; tried: an error
\* was answered by clearing credentials; alone: no other guard was up when this one started;
\* denied: the user refused, or approved the page of an earlier guard.
Guard == [at : Phases, copy : Session, field : Fields, id : Ids, then : Phases, code : Ids,
          serving : BOOLEAN, final : BOOLEAN, tried : BOOLEAN, alone : BOOLEAN, denied : BOOLEAN]

Off == [at |-> "off", copy |-> NoSession, field |-> "client", id |-> 0, then |-> "off", code |-> 0,
        serving |-> FALSE, final |-> FALSE, tried |-> FALSE, alone |-> FALSE, denied |-> FALSE]

Init ==
  /\ file = NoSession
  /\ port = Free
  /\ guard = [g \in Guards |-> Off]
  /\ pages = {}
  /\ clients = {} /\ access = {} /\ refresh = {}
  /\ issued = 0 /\ kills = 0 /\ revoked = 0

----------------------------------------------------------------------------

Goes(g, state) == guard' = [guard EXCEPT ![g] = state]

IsUp(g) == guard[g].at \notin {"off", "failed"}

\* FileOAuthStore.read for the save of a field, and where g goes from there.
Saves(g, field, id, next) ==
  Goes(g, [guard[g] EXCEPT !.at = "read", !.field = field, !.id = id, !.then = next])

\* An id no one was given yet.
Fresh(id) == id = issued + 1 /\ id \in Ids /\ issued' = id

\* createLoopbackAuthorizer: the port is taken first; a second guard that starts
\* meanwhile finds it taken and is gone.
Start(g) ==
  /\ ~ IsUp(g)
  /\ port = Free
  /\ port' = g
  /\ Goes(g, [Off EXCEPT !.at = "connect", !.alone = \A h \in Guards \ {g} : ~ IsUp(h)])
  /\ UNCHANGED <<file, pages, server, issued, kills>>

\* connect: with a token that is good; the port is closed behind it.
Connected(g) ==
  /\ guard[g].at \in {"connect", "reconnect"}
  /\ file.tokens \in access
  /\ port' = Free
  /\ Goes(g, [guard[g] EXCEPT !.at = "running", !.serving = TRUE])
  /\ UNCHANGED <<file, pages, server, issued, kills>>

\* The server answers 401: the client library authorizes.
Challenged(g) ==
  /\ guard[g].at \in {"connect", "reconnect", "running"}
  /\ file.tokens \notin access
  /\ Goes(g, [guard[g] EXCEPT !.at = "auth", !.tried = FALSE,
                              !.final = guard[g].at = "reconnect"])
  /\ UNCHANGED <<file, port, pages, server, issued, kills>>

\* No client in the file: one is registered.
Register(g) ==
  /\ guard[g].at = "auth" /\ file.client = 0
  /\ \E id \in Ids :
       /\ Fresh(id)
       /\ clients' = clients \cup {id}
       /\ Saves(g, "client", id, "auth")
  /\ UNCHANGED <<file, port, pages, access, refresh, kills, revoked>>

Ends(g) == IF guard[g].serving THEN "running" ELSE "failed"

\* An OAuth error that clears nothing more: a running guard fails the call, another ends.
GivesUp(g) ==
  /\ Goes(g, [guard[g] EXCEPT !.at = Ends(g), !.code = 0])
  /\ port' = IF port = g THEN Free ELSE port
  /\ UNCHANGED <<file, pages, server, issued, kills>>

\* The refresh token is good for one use.
Refresh(g) ==
  /\ guard[g].at = "auth" /\ file.client \in clients /\ file.tokens \in refresh
  /\ \E id \in Ids :
       /\ Fresh(id)
       /\ access' = access \cup {id}
       /\ refresh' = (refresh \ {file.tokens}) \cup {id}
       /\ Saves(g, "tokens", id, IF guard[g].serving THEN "running"
                                 ELSE IF guard[g].final THEN "reconnect" ELSE "connect")
  /\ UNCHANGED <<file, port, pages, clients, kills, revoked>>

\* invalid_grant: invalidateCredentials('tokens'), and once more from the start.
RefreshRefused(g) ==
  /\ guard[g].at = "auth" /\ file.client \in clients
  /\ file.tokens # 0 /\ file.tokens \notin refresh
  /\ IF guard[g].tried
     THEN GivesUp(g)
     ELSE /\ Goes(g, [guard[g] EXCEPT !.at = "read", !.field = "tokens", !.id = 0,
                                      !.then = "auth", !.tried = TRUE])
          /\ UNCHANGED <<file, port, pages, server, issued, kills>>

\* clear('all'): the file is removed.
Removed(session) == NoSession

\* invalid_client: invalidateCredentials('all'), and once more from the start.
ClientRefused(g) ==
  /\ guard[g].at = "auth" /\ file.client \notin clients \cup {0} /\ file.tokens # 0
  /\ IF guard[g].tried
     THEN GivesUp(g)
     ELSE /\ file' = Removed(file)
          /\ Goes(g, [guard[g] EXCEPT !.tried = TRUE])
          /\ UNCHANGED <<port, pages, server, issued, kills>>

\* Nothing to refresh: a verifier for a new authorization.
StartAuthorization(g) ==
  /\ guard[g].at = "auth" /\ file.client # 0 /\ file.tokens = 0
  /\ \E id \in Ids :
       /\ Fresh(id)
       /\ Goes(g, [guard[g] EXCEPT !.at = "read", !.field = "verifier", !.id = id, !.then = "redirect",
                                   !.code = IF file.client \in clients THEN id ELSE 0])
  /\ UNCHANGED <<file, port, pages, server, kills>>

\* Every save and clear: the session as it is read ...
ReadSession(g) ==
  /\ guard[g].at = "read"
  /\ Goes(g, [guard[g] EXCEPT !.at = "write", !.copy = file])
  /\ UNCHANGED <<file, port, pages, server, issued, kills>>

Merged_FieldOnly(copy, field, id) == [NoSession EXCEPT ![field] = id]

\* ... is written back with one field changed.
Merged(copy, field, id) == [copy EXCEPT ![field] = id]

WriteSession(g) ==
  /\ guard[g].at = "write"
  /\ file' = Merged(guard[g].copy, guard[g].field, guard[g].id)
  /\ Goes(g, [guard[g] EXCEPT !.at = guard[g].then, !.copy = NoSession])
  /\ UNCHANGED <<port, pages, server, issued, kills>>

\* redirectToAuthorization: the browser opens.  The page of a client that the server has
\* forgotten shows an error and leads nowhere: the guard waits, with no time limit.  Only
\* the first connect waits for the code; a running guard has closed its port, and the
\* promise it parks is never taken.
Redirect(g) ==
  /\ guard[g].at = "redirect"
  /\ pages' = (pages \cup {guard[g].code}) \ {0}
  /\ Goes(g, [guard[g] EXCEPT !.at = IF guard[g].serving THEN "running"
                                     ELSE IF guard[g].final THEN "failed" ELSE "consent",
                              !.code = 0])
  /\ port' = IF guard[g].final /\ port = g THEN Free ELSE port
  /\ UNCHANGED <<file, server, issued, kills>>

\* The user approves a page: whoever has the port gets its code.
Consent(v) ==
  /\ v \in pages
  /\ pages' = pages \ {v}
  /\ IF port # Free /\ guard[port].at = "consent"
     THEN Goes(port, [guard[port] EXCEPT !.at = "exchange", !.code = v,
                                      !.denied = v # guard[port].id])
     ELSE UNCHANGED guard
  /\ UNCHANGED <<file, port, server, issued, kills>>

Refuse(v) ==
  /\ v \in pages
  /\ pages' = pages \ {v}
  /\ IF port # Free /\ guard[port].at = "consent"
     THEN /\ Goes(port, [guard[port] EXCEPT !.at = "failed", !.denied = TRUE])
          /\ port' = Free
     ELSE UNCHANGED <<guard, port>>
  /\ UNCHANGED <<file, server, issued, kills>>

\* finishAuth: the verifier is read from the file.
CodeFits(g) == file.client \in clients /\ file.verifier = guard[g].code

Exchange(g) ==
  /\ guard[g].at = "exchange" /\ CodeFits(g)
  /\ \E id \in Ids :
       /\ Fresh(id)
       /\ access' = access \cup {id}
       /\ refresh' = refresh \cup {id}
       /\ Saves(g, "tokens", id, "reconnect")
  /\ UNCHANGED <<file, port, pages, clients, kills, revoked>>

\* The code does not fit what is in the file: the guard ends, with its tokens cleared.
ExchangeRefused(g) ==
  /\ guard[g].at = "exchange" /\ ~ CodeFits(g)
  /\ IF file.client \in clients /\ file.verifier # 0 /\ ~ guard[g].tried
     THEN /\ Goes(g, [guard[g] EXCEPT !.at = "read", !.field = "tokens", !.id = 0,
                                      !.then = "exchange", !.tried = TRUE])
          /\ UNCHANGED <<file, port, pages, server, issued, kills>>
     ELSE GivesUp(g)

----------------------------------------------------------------------------
\* A guard is killed; in the middle of a write it leaves a file that reads as {}.
Kill(g) ==
  /\ IsUp(g)
  /\ kills < MaxKills
  /\ kills' = kills + 1
  /\ Goes(g, Off)
  /\ port' = IF port = g THEN Free ELSE port
  /\ file' \in IF guard[g].at = "write" THEN {file, NoSession} ELSE {file}
  /\ UNCHANGED <<pages, server, issued>>

\* Assumption: while a guard authorizes, nothing is taken back from it.
Quiet == \A g \in Guards : guard[g].at \in {"off", "failed", "running"}

Expire(id) ==
  /\ Quiet
  /\ id \in access
  /\ access' = access \ {id}
  /\ UNCHANGED <<file, port, guard, pages, clients, refresh, issued, kills, revoked>>

\* The server ends what a token was for, or forgets a client together with its tokens.
Revoke(id) ==
  /\ Quiet
  /\ revoked < MaxRevoked
  /\ revoked' = revoked + 1
  /\ \/ id \in refresh /\ UNCHANGED clients
     \/ id \in clients /\ clients' = clients \ {id}
  /\ refresh' = refresh \ {id}
  /\ access' = access \ {id}
  /\ UNCHANGED <<file, port, guard, pages, issued, kills>>

Next ==
  \/ \E g \in Guards :
       \/ Start(g) \/ Connected(g) \/ Challenged(g) \/ Register(g) \/ Refresh(g)
       \/ RefreshRefused(g) \/ ClientRefused(g) \/ StartAuthorization(g)
       \/ ReadSession(g) \/ WriteSession(g) \/ Redirect(g)
       \/ Exchange(g) \/ ExchangeRefused(g) \/ Kill(g)
  \/ \E id \in Ids : Consent(id) \/ Refuse(id) \/ Expire(id) \/ Revoke(id)

Spec == Init /\ [][Next]_vars
----------------------------------------------------------------------------
TypeOK ==
  /\ file \in Session
  /\ port \in Guards \cup {Free}
  /\ guard \in [Guards -> Guard]
  /\ pages \cup clients \cup access \cup refresh \subseteq Ids
  /\ issued \in Ids /\ kills \in Nat /\ revoked \in Nat

\* Whatever overlapping, killed or revoked guards left in the file, the next guard that
\* has it to itself does not fail, unless the user refuses or approves another page.
FileHeals ==
  \A g \in Guards : guard[g].at = "failed" /\ guard[g].alone => guard[g].denied
=============================================================================
