----------------------------- MODULE MCMcpTools -----------------------------
(* The API and the MCP server in front of it on small instances. *)
EXTENDS McpTools, TLC

CONSTANTS
  s1, s2,   \* two secrets
  Encoded   \* another way to write a path

\* Every kind of request, and `env` in two spellings.
FewUrls == ({<<"batch", "all">>, <<"env", "all">>, <<"create", "all">>, <<"list", "all">>,
             <<"read", s1>>, <<"update", s1>>, <<"delete", s1>>} \X {Plain})
           \cup {<<<<"env", "all">>, Encoded>>}

\* The patterns of RATE_LIMITS know the plain URLs; one that matches none has a larger
\* limit.
SmallLimits == [p \in Kinds \X Spellings |-> IF p[2] = Plain THEN 1 ELSE 2]

\* Alerts for reads are on as well.
AllToggles == {"read", "create", "update", "delete"}

\* Keys that expire while the model runs.
Soon == {1}

NoneOrAll == {{}, Consumers}

Symmetry == Permutations(Keys) \cup Permutations(Requests)
=============================================================================
