------------------------------- MODULE MCVotes -------------------------------
(* Small instances of Votes for TLC: two assets on two chains. *)
EXTENDS Votes

MCBallots == {<<"x", "x">>, <<"y">>}
MCChainOf == [k \in Keys |-> IF k = "x" THEN 1 ELSE 2]
Weighed(w) == [k \in Keys |-> IF k = "x" THEN w ELSE 0]
MCSplits == {[deadline |-> 1, chain |-> 1, weights |-> Weighed(-1)],
             [deadline |-> 2, chain |-> 1, weights |-> Weighed(0)],
             [deadline |-> 1, chain |-> 2, weights |-> Weighed(0)]}

Scenario(f) == [d \in Disturbance |-> IF d \in DOMAIN f THEN f[d] ELSE 0]

MCScenarios ==
  {Scenario([signs |-> 2, relays |-> 2, fails |-> 1]),
   Scenario([signs |-> 1, relays |-> 2, drops |-> 1]),
   Scenario([signs |-> 2, relays |-> 1, direct |-> 1]),
   Scenario([signs |-> 1, relays |-> 1, moves |-> 1]),
   Scenario([signs |-> 1, relays |-> 1, direct |-> 1, syncs |-> 1]),
   Scenario([direct |-> 2, moves |-> 1, fails |-> 1, syncs |-> 1]),
   Scenario([signs |-> 1, direct |-> 3]),
   Scenario([votes |-> 2, verdicts |-> 2])}

MCOverlap == {Scenario([signs |-> 2, relays |-> 2])}
=============================================================================
