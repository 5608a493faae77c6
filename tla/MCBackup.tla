------------------------------ MODULE MCBackup ------------------------------
(* Backup on a small instance: a collection and two agents, weeks of two days. *)
EXTENDS Backup, TLC

Collections == <<"collection">>

TwoAgents == <<"agent1", "agent2">>

TwoPrefixes == <<"qdrant", "letta">>

PrefixOfSource == ("collection" :> "qdrant") @@ ("agent1" :> "letta") @@ ("agent2" :> "letta")
=============================================================================
