---------------------------- MODULE MCDiscovery -----------------------------
(* Small instances of Discovery for TLC. *)
EXTENDS Discovery

CONSTANTS p, q

\* Nothing, one or both emit.
MCBlocks == {{}, {p}, {p, q}}

Scenario(f) == [d \in Disturbance |-> IF d \in DOMAIN f THEN f[d] ELSE 0]

\* Votes against the queue's order, verdicts against promotions, failures against both.
MCScenarios ==
  {Scenario([votes |-> 2]),
   Scenario([votes |-> 1, deploys |-> 1]),
   Scenario([votes |-> 1, aborts |-> 1]),
   Scenario([votes |-> 1, revokes |-> 1]),
   Scenario([verdicts |-> 2, manual |-> 1]),
   Scenario([reorgs |-> 1, aborts |-> 1]),
   Scenario([floors |-> 1, aborts |-> 1]),
   Scenario([manual |-> 1, aborts |-> 1])}


MCFailingSweep == {Scenario([aborts |-> 1])}
=============================================================================
