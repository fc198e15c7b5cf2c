-------------------------- MODULE MCStatePublisher --------------------------
(* Small instances of UserState and StatePublisher for TLC. *)
EXTENDS StatePublisher, TLC

CONSTANT u

MCOwnerOf == [d \in Devices |-> u]

\* Nothing, or one contract not recognized and remembered.
Only == CHOOSE x \in Chains \X Tokens : TRUE
MCContents ==
  {<<{}, {}>>,
   <<{[chain |-> Only[1], token |-> Only[2], weight |-> -1]}, {[chain |-> Only[1], token |-> Only[2]]}>>}

Scenario(f) == [d \in Disturbance |-> IF d \in DOMAIN f THEN f[d] ELSE 0]

\* Pages, old endpoints and votes against each other; then the publisher on its own and
\* under each disturbance.
MCScenarios ==
  {Scenario([time |-> 1, states |-> 2, legacy |-> 1]),
   Scenario([states |-> 1, legacy |-> 2]),
   Scenario([states |-> 2, votes |-> 1]),
   Scenario([states |-> 1, imports |-> 1]),
   Scenario([states |-> 2, ticks |-> 1]),
   Scenario([states |-> 1, ticks |-> 1, reverts |-> 1, reorgs |-> 1, aborts |-> 1, dropped |-> 1]),
   Scenario([states |-> 1, ticks |-> 1, reorgs |-> 2]),
   Scenario([states |-> 1, ticks |-> 1, deep |-> 1, dropped |-> 1]),
   Scenario([states |-> 1, ticks |-> 1, foreign |-> 1])}
=============================================================================
