------------------------------ MODULE McpTools ------------------------------
(***************************************************************************)
(* The MCP server of the gateway over streamable HTTP                      *)
(* (src/mcp/http-transport.ts, src/mcp/server-factory.ts,                  *)
(* src/mcp/tools.ts) in front of the REST API: ApiGate with callers that   *)
(* share the address of the MCP server.                                    *)
(*                                                                         *)
(* Every HTTP request gets a server and a transport of its own, bound to   *)
(* the consumer key in its headers, so the MCP server keeps nothing        *)
(* between two requests: a tool call is one request to the API.            *)
(***************************************************************************)
EXTENDS ApiGate

CONSTANTS
  McpIp,   \* the address the API sees for every tool call
  Plain    \* the way encodeURIComponent writes a name

ASSUME McpToolsAssumption == McpIp \in Ips /\ Plain \in Spellings

\* handleToolCall: the route of each tool.
ToolKinds == {"read", "env"} \cup (Reports \cap {"list", "rotation-report"})

ToolUrls == {u \in Urls : KindOf(u) \in ToolKinds /\ u[2] = Plain}

\* The route is asked with the key of the request, and never for an old version.
Ask(k, c) ==
  /\ Caller(k, c)
  /\ \E u \in ToolUrls :
       \/ Throttled(McpIp, k, c, u)
       \/ Report(McpIp, k, c, u)
       \/ \E r \in Requests, at \in Entries(KindOf(u)) \ {"find"} : Begin(McpIp, k, c, u, r, at)

\* A request without a key is refused by the MCP server; a wrong one by the API.
ToolCall(k) ==
  \/ BadKey(McpIp, k)
  \/ \E c \in Consumers : Ask(k, c)

\* A caller that uses the API itself, from an address of its own.
DirectCall(ip) ==
  \/ NoKey(ip)
  \/ \E k \in Keys : BadKey(ip, k) \/ \E c \in Consumers : Call(ip, k, c)

McpNext ==
  \/ PassBy
  \/ \E k \in Keys : ToolCall(k)
  \/ \E ip \in Ips \ {McpIp} : DirectCall(ip)
  \/ \E r \in Requests : Handler(r)
  \/ Administer
  \/ Restart
  \/ Tick

McpSpec == Init /\ [][McpNext]_vars
=============================================================================
