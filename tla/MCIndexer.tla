----------------------------- MODULE MCIndexer ------------------------------
(* Small instances of Indexer for TLC. *)
EXTENDS Indexer, TLC

CONSTANT Empty   \* the hash of a block without events

\* Every asset emits in every block but the empty one: other hashes are forks alike in content.
MCLogsOf   == [h \in Hashes |-> IF h = Empty THEN {} ELSE Assets]
MCHintFrom == [a \in Assets |-> 0]

Scenario(assets, f) ==
  [assets |-> assets, allowed |-> [d \in Disturbance |-> IF d \in DOMAIN f THEN f[d] ELSE 0]]

CONSTANT One   \* the asset of the scenarios with one

\* Two assets undisturbed; one asset under failing ticks, restarts, reorgs, or pruning.
MCDisturbed ==
  {Scenario(Assets, [blocks |-> 3]),
   Scenario({One}, [blocks |-> 3, aborts |-> 2]),
   Scenario({One}, [blocks |-> 2, revokes |-> 1, resyncs |-> 1]),
   Scenario({One}, [blocks |-> 2, aborts |-> 1, prunes |-> 2]),
   Scenario({One}, [blocks |-> 2, lost |-> 1, prunes |-> 2, unfloored |-> 1]),
   Scenario({One}, [blocks |-> 3, reorgs |-> 1]),
   Scenario({One}, [blocks |-> 2, reorgs |-> 1, lost |-> 1]),
   Scenario({One}, [blocks |-> 2, reorgs |-> 2]),
   Scenario({One}, [blocks |-> 2, reorgs |-> 1, aborts |-> 1]),
   Scenario({One}, [blocks |-> 2, lost |-> 1, aborts |-> 1, torn |-> 1]),
   Scenario({One}, [blocks |-> 2, blind |-> 1]),
   Scenario({One}, [blocks |-> 3, shrunk |-> 1, torn |-> 1])}

MCUnfloored  == {Scenario({One}, [blocks |-> 2, prunes |-> 2, unfloored |-> 1])}
MCQuiet      == {Scenario({One}, [blocks |-> 1])}
MCBlindReorg == {Scenario({One}, [blocks |-> 3, blind |-> 1])}
=============================================================================
