------------------------------- MODULE Demand -------------------------------
(***************************************************************************)
(* The demand signal of contracts/src/HintRegistry.sol: free votes, cast   *)
(* by the voter or carried by anyone as a signature over (voter, chainId,  *)
(* tokens, nonce, deadline), tallied per asset and kept enumerable.  It    *)
(* shares no storage with hints, epochs or rewards, so it stands alone.    *)
(***************************************************************************)
EXTENDS Naturals, Sequences, FiniteSets, SequencesExt

CONSTANTS
  Voters, Keys,     \* accounts; (chainId, token) pairs
  Ballots,          \* lists of keys a vote may name, repeats included
  Deadlines,        \* deadlines a voter may sign
  MaxNonce, MaxSigned, MaxTime \* bounds: nonce signed, signatures at large, clock

ASSUME DemandAssumption ==
  /\ Ballots \subseteq Seq(Keys)
  /\ Deadlines \subseteq Nat /\ MaxNonce \in Nat /\ MaxSigned \in Nat /\ MaxTime \in Nat

VARIABLES
  voted,       \* _voted: who voted for a key
  voters,      \* _demand[key].voters
  demandKeys,  \* _demandKeys
  nonces,      \* nonces(voter) of the inherited Nonces
  signed,      \* signatures voters have handed out
  carried,     \* history: how often each signature was accepted
  now          \* block.timestamp

vars == <<voted, voters, demandKeys, nonces, signed, carried, now>>
tally == <<voted, voters, demandKeys>>

Signature == [voter : Voters, ballot : Ballots, nonce : 0 .. MaxNonce, deadline : Deadlines]

\* One round of _vote's loop: a repeat is skipped, a key's first voter lists it.
VoteOne(v, t, k) ==
  IF v \in t.voted[k] THEN t
  ELSE [voted  |-> [t.voted EXCEPT ![k] = @ \cup {v}],
        voters |-> [t.voters EXCEPT ![k] = @ + 1],
        keys   |-> IF t.voters[k] = 0 THEN Append(t.keys, k) ELSE t.keys]

\* Faulty variant of CastVotes: repeats filtered against the votes before the call only.
CastVotesUnrolled(v, ballot) ==
  LET new == SelectSeq(ballot, LAMBDA k : v \notin voted[k])
  IN  /\ voted' = [k \in Keys |-> IF k \in ToSet(new) THEN voted[k] \cup {v} ELSE voted[k]]
      /\ voters' = [k \in Keys |-> voters[k] + Len(SelectSeq(new, LAMBDA x : x = k))]
      /\ demandKeys' = demandKeys \o SelectSeq(new, LAMBDA k : voters[k] = 0)

\* _vote
CastVotes(v, ballot) ==
  LET t == FoldLeft(LAMBDA acc, k : VoteOne(v, acc, k),
                    [voted |-> voted, voters |-> voters, keys |-> demandKeys], ballot)
  IN  /\ voted' = t.voted
      /\ voters' = t.voters
      /\ demandKeys' = t.keys

Vote(v, ballot) ==
  /\ CastVotes(v, ballot)
  /\ UNCHANGED <<nonces, signed, carried, now>>

\* The voter signs a ballot off chain, for its current nonce or a later one.
Sign(s) ==
  /\ s.nonce >= nonces[s.voter]
  /\ s \notin signed /\ Cardinality(signed) < MaxSigned
  /\ signed' = signed \cup {s}
  /\ carried' = [x \in DOMAIN carried \cup {s} |-> IF x = s THEN 0 ELSE carried[x]]
  /\ UNCHANGED <<tally, nonces, now>>

\* voteFor: anyone carries a signature; recovery yields the voter exactly when the
\* nonce signed is the one just spent.
VoteFor(s) ==
  /\ now <= s.deadline
  /\ s.nonce = nonces[s.voter]
  /\ nonces' = [nonces EXCEPT ![s.voter] = @ + 1]
  /\ CastVotes(s.voter, s.ballot)
  /\ carried' = [carried EXCEPT ![s] = @ + 1]
  /\ UNCHANGED <<signed, now>>

Tick ==
  /\ now < MaxTime
  /\ now' = now + 1
  /\ UNCHANGED <<tally, nonces, signed, carried>>

Init ==
  /\ voted = [k \in Keys |-> {}]
  /\ voters = [k \in Keys |-> 0]
  /\ demandKeys = <<>>
  /\ nonces = [v \in Voters |-> 0]
  /\ signed = {}
  /\ carried = [s \in {} |-> 0]
  /\ now = 0

Next ==
  \/ \E v \in Voters, ballot \in Ballots : Vote(v, ballot)
  \/ \E s \in Signature : Sign(s)
  \/ \E s \in signed : VoteFor(s)
  \/ Tick

Spec == Init /\ [][Next]_vars

-----------------------------------------------------------------------------
\* One address counts once per asset, however often and by whichever route it voted,
\* repeats inside one ballot included: the counter is the number of distinct voters.
OneAddressCountsOnce ==
  \A k \in Keys : voters[k] = Cardinality(voted[k])

\* listDemand pages through exactly the voted assets, each once.
DemandEnumerable ==
  /\ \A k \in Keys : voters[k] > 0 <=> k \in ToSet(demandKeys)
  /\ IsInjective(demandKeys)

\* A signature is good for exactly one transaction, even one that adds no vote.
SignatureSpentOnce ==
  \A s \in signed : carried[s] <= 1

\* What vote and voteFor count is what was meant: each voter once, every voted asset
\* listed once, each signature good for one transaction.
VotesCounted == OneAddressCountsOnce /\ DemandEnumerable /\ SignatureSpentOnce
=============================================================================
