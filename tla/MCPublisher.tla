---------------------------- MODULE MCPublisher ----------------------------
(* Small instances of Publisher for TLC. *)
EXTENDS Publisher

Scenario(oracle, growth, f) ==
  [oracle |-> oracle, growth |-> growth,
   allowed |-> [d \in Disturbance |-> IF d \in DOMAIN f THEN f[d] ELSE 0]]

\* With an arbiter, the loop alone: a failed call beside a dispute or a dropped
\* transaction, or a rival.  At an oracle: the endpoint beside the loop, a restart and a
\* stale submission, a failed call around a dispute, or a dispute between two epochs.
MCDisturbed ==
  {Scenario(FALSE, 2, [rows |-> 2, faults |-> 1, disputes |-> 1]),
   Scenario(FALSE, 2, [rows |-> 2, faults |-> 1, drops |-> 1]),
   Scenario(FALSE, 2, [rows |-> 2, rivals |-> 1]),
   Scenario(TRUE, 1, [rows |-> 2, posts |-> 1]),
   Scenario(TRUE, 1, [rows |-> 2, crashes |-> 1, stale |-> 1, disputes |-> 1]),
   Scenario(TRUE, 1, [rows |-> 2, faults |-> 1, disputes |-> 1]),
   Scenario(TRUE, 2, [rows |-> 2, disputes |-> 1])}

MCEndpoint == {Scenario(TRUE, 2, [rows |-> 2, posts |-> 1])}
=============================================================================
