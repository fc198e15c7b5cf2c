---------------------------- MODULE MCSupervisor ----------------------------
(* Small instances of Supervisor for TLC: a configured chain and two that may be added. *)
EXTENDS Supervisor

CONSTANTS home, added, other, homeNode, localNode, remoteNode, otherNode

MCServes == [n \in Nodes |-> CASE n = homeNode -> home [] n = otherNode -> other [] OTHER -> added]
MCConfig == <<[id |-> home, node |-> homeNode, requireLocal |-> TRUE]>>

Stored(n) == [enabled |-> TRUE, source |-> "api", trust |-> TrustForEndpoint(n),
              by |-> "nobody", node |-> n, error |-> FALSE]

\* A new database, and one that remembers both chains.
Empty == [c \in {} |-> Stored(remoteNode)]
Both  == [c \in {added, other} |-> Stored(IF c = added THEN remoteNode ELSE otherNode)]
MCDatabases == {Empty, Both}

Scenario(f) == [d \in Disturbance |-> IF d \in DOMAIN f THEN f[d] ELSE 0]

MCScenarios ==
  {Scenario([adds |-> 2, deletes |-> 1, crashes |-> 1]),
   Scenario([adds |-> 2, deletes |-> 1, writes |-> 1]),
   Scenario([adds |-> 2, deletes |-> 1, fails |-> 1]),
   Scenario([adds |-> 1, fails |-> 2]),
   Scenario([toggles |-> 2, deletes |-> 1, crashes |-> 1]),
   Scenario([adds |-> 1, judgements |-> 1, fails |-> 1, signals |-> 1]),
   Scenario([adds |-> 1, dials |-> 1, writes |-> 1, crashes |-> 1])}

MCFailingHome == {Scenario([fails |-> 1])}
=============================================================================
