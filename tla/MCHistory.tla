----------------------------- MODULE MCHistory ------------------------------
(* Small instances of History for TLC. *)
EXTENDS History

At(kind, cutoff, logs, span) == [kind |-> kind, cutoff |-> cutoff, logs |-> logs, span |-> span]

\* Every way a node answers for what it dropped, with and without a limit on the
\* width of a query, with all its history and with some of it gone.
MCNodes ==
  {At("geth", 0, Blocks, 3), At("geth", 3, Blocks, 1), At("foreign", 3, Blocks, 3),
   At("quiet", 2, {1, 2, 5}, 3), At("light", 3, {2, 4}, 3)}
=============================================================================
