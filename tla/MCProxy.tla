------------------------------ MODULE MCProxy -------------------------------
(* Entries of a manifest: three of a child process, two with secrets; a hosted server;  *)
(* an OAuth server. *)
EXTENDS Proxy, TLC

Base ==
  [transport |-> "stdio", secrets |-> ("s1" :> "V1" @@ "s2" :> "V2"), static |-> {"V2"}, keyVar |-> "KEY2",
   allow |-> {"t1"}, limits |-> TRUE, deny |-> {"own"}, redact |-> {"own"}, defaults |-> TRUE]

\* Another entry of the child: two secrets in one variable, that of the other one's key.
Edited ==
  [Base EXCEPT !.secrets = [n \in {"s1", "s2"} |-> "KEY2"], !.keyVar = "KEY1", !.redact = {}]

SmallEntries ==
  {Base, Edited, [Base EXCEPT !.allow = {}, !.secrets = NoSecrets],
   [Base EXCEPT !.transport = "http", !.secrets = NoSecrets, !.limits = FALSE, !.defaults = FALSE],
   [Base EXCEPT !.transport = "oauth"]}

SmallEnviron == [v \in Vars |-> IF v \in {"KEY1", "KEY2"} THEN "key" ELSE "plain"]

\* A server whose answer has all that there is to redact.
FewTexts == {Patterns}

Symmetry == Permutations(Guards)
=============================================================================
