---------------------------- MODULE StateRecord -----------------------------
(***************************************************************************)
(* What publishing checkpoints promises, without jobs, transactions or     *)
(* blocks: accounts move on to later revisions, and from time to time a    *)
(* cut of them, no older than the last and no newer than what was          *)
(* accepted, becomes the confirmed record.                                 *)
(***************************************************************************)
EXTENDS Naturals

CONSTANT Accounts

VARIABLES
  revision,    \* the revision of each account's head, 0 before its first
  confirmed    \* the revisions the confirmed record names

Init ==
  /\ revision = [a \in Accounts |-> 0]
  /\ confirmed = [a \in Accounts |-> 0]

\* An account moves on, by more than one where it continues an imported history.
Accept(a) ==
  /\ revision' \in [Accounts -> Nat]
  /\ revision'[a] > revision[a]
  /\ \A b \in Accounts \ {a} : revision'[b] = revision[b]
  /\ UNCHANGED confirmed

Confirm ==
  /\ confirmed' \in [Accounts -> Nat]
  /\ \A a \in Accounts : confirmed[a] <= confirmed'[a] /\ confirmed'[a] <= revision[a]
  /\ UNCHANGED revision

Next == Confirm \/ \E a \in Accounts : Accept(a)

Spec == Init /\ [][Next]_<<revision, confirmed>>
=============================================================================
