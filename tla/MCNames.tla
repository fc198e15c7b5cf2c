------------------------------ MODULE MCNames -------------------------------
(* Small instances of Names for TLC. *)
EXTENDS Names

Nothing == [e \in Event |-> 0]

\* The operator wires the name and repoints it while runs fail; or, with the name
\* wired, readers claim, refresh and release names past the relay and over it, or
\* sign and post hints.
MCScenarios ==
  {[allowed |-> [Nothing EXCEPT !["faults"] = 3, !["drops"] = 1, !["goals"] = 1],
    attached |-> FALSE],
   [allowed |-> [Nothing EXCEPT !["signs"] = 3, !["requests"] = 1, !["direct"] = 2],
    attached |-> TRUE],
   [allowed |-> [Nothing EXCEPT !["signs"] = 1, !["requests"] = 2, !["faults"] = 1, !["drops"] = 1],
    attached |-> TRUE],
   [allowed |-> [Nothing EXCEPT !["hints"] = 2, !["posts"] = 3], attached |-> TRUE]}
=============================================================================
