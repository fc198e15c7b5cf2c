---------------------------- MODULE VotesProofs ----------------------------
(***************************************************************************)
(* Theorems about Demand and Votes, for every set of voters, assets and    *)
(* ballots, any number of relay requests served at once and any number of  *)
(* disturbances.                                                           *)
(***************************************************************************)
EXTENDS Votes, FiniteSetTheorems, WellFoundedInduction, TLAPS

-----------------------------------------------------------------------------
(* A ballot is counted by a fold over its keys.  What one round keeps, the *)
(* fold keeps: the library defines it over the subsets of the ballot's     *)
(* indices, so the argument is an induction over those.                    *)

Tally == [voted : [Keys -> SUBSET Voters], voters : [Keys -> Nat], keys : Seq(Keys)]

\* The counter is the number of distinct voters and the list the keys that have one.
Tallied(t) ==
  /\ \A k \in Keys : IsFiniteSet(t.voted[k]) /\ t.voters[k] = Cardinality(t.voted[k])
  /\ \A k \in Keys : t.voters[k] > 0 <=> \E i \in DOMAIN t.keys : t.keys[i] = k
  /\ \A i, j \in DOMAIN t.keys : t.keys[i] = t.keys[j] => i = j

SoundTally == {t \in Tally : Tallied(t)}

\* One round of _vote keeps the tally sound: a repeat is skipped and a first vote listed.
LEMMA VoteOneSound ==
  ASSUME NEW v \in Voters, NEW t \in SoundTally, NEW k \in Keys
  PROVE  VoteOne(v, t, k) \in SoundTally
<1>1. CASE v \in t.voted[k]
  BY <1>1 DEF VoteOne
<1>2. CASE v \notin t.voted[k]
  <2>1. PICK a \in [Keys -> SUBSET Voters], b \in [Keys -> Nat], q \in Seq(Keys) :
          t = [voted |-> a, voters |-> b, keys |-> q]
    BY DEF SoundTally, Tally
  <2>2. /\ t.voted = a /\ t.voters = b /\ t.keys = q
        /\ \A j \in Keys : IsFiniteSet(a[j]) /\ b[j] = Cardinality(a[j])
        /\ \A j \in Keys : b[j] > 0 <=> \E i \in DOMAIN q : q[i] = j
        /\ \A i, j \in DOMAIN q : q[i] = q[j] => i = j
    BY <2>1 DEF SoundTally, Tallied
  <2>3. PICK a1 : a1 = [a EXCEPT ![k] = a[k] \cup {v}] /\ a1 \in [Keys -> SUBSET Voters]
    <3>1. [a EXCEPT ![k] = a[k] \cup {v}] \in [Keys -> SUBSET Voters]
      OBVIOUS
    <3> QED BY <3>1
  <2>4. PICK b1 : b1 = [b EXCEPT ![k] = b[k] + 1] /\ b1 \in [Keys -> Nat]
    <3>1. [b EXCEPT ![k] = b[k] + 1] \in [Keys -> Nat]
      OBVIOUS
    <3> QED BY <3>1
  <2>5. PICK q1 : q1 = (IF b[k] = 0 THEN Append(q, k) ELSE q) /\ q1 \in Seq(Keys)
    <3>1. Append(q, k) \in Seq(Keys)
      OBVIOUS
    <3> QED BY <3>1
  <2>6. VoteOne(v, t, k) = [voted |-> a1, voters |-> b1, keys |-> q1]
    BY <1>2, <2>2, <2>3, <2>4, <2>5 DEF VoteOne
  <2>7. \A j \in Keys : IsFiniteSet(a1[j]) /\ b1[j] = Cardinality(a1[j])
    <3>1. IsFiniteSet(a[k] \cup {v}) /\ Cardinality(a[k] \cup {v}) = Cardinality(a[k]) + 1
      BY <1>2, <2>2, FS_AddElement
    <3>2. IsFiniteSet(a1[k]) /\ b1[k] = Cardinality(a1[k])
      BY <2>2, <2>3, <2>4, <3>1
    <3>3. \A j \in Keys \ {k} : a1[j] = a[j] /\ b1[j] = b[j]
      BY <2>3, <2>4
    <3> QED BY <2>2, <3>2, <3>3
  <2>8. b1[k] > 0 /\ \A j \in Keys \ {k} : b1[j] = b[j]
    BY <2>4
  <2>9. /\ \A j \in Keys : b1[j] > 0 <=> \E i \in DOMAIN q1 : q1[i] = j
        /\ \A i, j \in DOMAIN q1 : q1[i] = q1[j] => i = j
    <3>1. CASE b[k] # 0
      <4>1. q1 = q /\ b[k] > 0
        BY <2>5, <3>1
      <4> QED BY <2>2, <2>8, <4>1
    <3>2. CASE b[k] = 0
      <4>1. PICK n \in Nat : n = Len(q)
        OBVIOUS
      <4>2. /\ DOMAIN q = 1 .. n /\ DOMAIN q1 = 1 .. (n + 1) /\ q1[n + 1] = k
            /\ \A i \in 1 .. n : q1[i] = q[i]
        BY <2>5, <3>2, <4>1
      <4>3. \A i \in 1 .. n : q[i] # k
        <5>1. ~(b[k] > 0)
          BY <3>2
        <5>2. ~\E i \in DOMAIN q : q[i] = k
          BY <2>2, <5>1
        <5> QED BY <4>2, <5>2
      <4>4. /\ \A i \in 1 .. (n + 1) : i = n + 1 \/ i \in 1 .. n
            /\ n + 1 \in 1 .. (n + 1) /\ 1 .. n \subseteq 1 .. (n + 1)
        OBVIOUS
      <4>5. \A i, j \in DOMAIN q1 : q1[i] = q1[j] => i = j
        BY <2>2, <4>2, <4>3, <4>4
      <4>6. ASSUME NEW j \in Keys PROVE b1[j] > 0 <=> \E i \in DOMAIN q1 : q1[i] = j
        <5>1. CASE j = k
          BY <2>8, <4>2, <4>4, <5>1
        <5>2. CASE j # k
          <6>1. (\E i \in 1 .. n : q[i] = j) <=> (\E i \in 1 .. (n + 1) : q1[i] = j)
            BY <4>2, <4>4, <5>2
          <6>2. b1[j] > 0 <=> b[j] > 0
            BY <2>8, <5>2
          <6>3. b[j] > 0 <=> \E i \in 1 .. n : q[i] = j
            BY <2>2, <4>2
          <6> QED BY <4>2, <6>1, <6>2, <6>3
        <5> QED BY <5>1, <5>2
      <4> QED BY <4>5, <4>6
    <3> QED BY <3>1, <3>2
  <2> DEFINE t1 == [voted |-> a1, voters |-> b1, keys |-> q1]
  <2>10. t1 \in Tally
    BY <2>3, <2>4, <2>5 DEF Tally
  <2>11. Tallied(t1)
    BY <2>7, <2>9 DEF Tallied
  <2> QED BY <2>6, <2>10, <2>11 DEF SoundTally
<1> QED BY <1>1, <1>2

\* Among subsets of a finite set there is a smallest one: the induction used below.
LEMMA SmallestSubset ==
  ASSUME NEW S, IsFiniteSet(S), NEW B, B \subseteq SUBSET S, B # {}
  PROVE  \E s \in B : \A t \in B : t \subseteq s => t = s
<1>1. IsWellFoundedOn(StrictSubsetOrdering(S), FiniteSubsetsOf(S))
  BY FS_StrictSubsetOrderingWellFounded
<1>2. B \subseteq FiniteSubsetsOf(S)
  BY FS_Subset DEF FiniteSubsetsOf
<1>3. PICK s \in B : \A t \in B : ~(<<t, s>> \in StrictSubsetOrdering(S))
  BY <1>1, <1>2, WFMin
<1> QED BY <1>3 DEF StrictSubsetOrdering

\* A set of numbers has a least element.
LEMMA LeastOf ==
  ASSUME NEW B, B \subseteq Nat, B # {}
  PROVE  \E n \in B : \A m \in B : ~(m < n)
<1>1. PICK n \in B : \A m \in B : ~(<<m, n>> \in OpToRel(<, Nat))
  BY NatLessThanWellFounded, WFMin
<1> QED BY <1>1 DEF OpToRel

\* The index the fold takes next is one of those left.
LEMMA LastIndex ==
  ASSUME NEW n \in Nat, NEW s \in SUBSET (1 .. n), s # {}
  PROVE  Max(s) \in s
<1> DEFINE B == {m \in Nat : n - m \in s}
<1>1. PICK y \in s : y \in 1 .. n
  OBVIOUS
<1>2. n - y \in B
  BY <1>1
<1>3. PICK m \in B : \A l \in B : ~(l < m)
  <2>1. B \subseteq Nat /\ B # {}
    BY <1>2
  <2> HIDE DEF B
  <2> QED BY <2>1, LeastOf
<1>4. n - m \in s
  OBVIOUS
<1>5. ASSUME NEW z \in s PROVE n - m >= z
  <2>1. z \in 1 .. n /\ n - z \in Nat /\ n - (n - z) = z
    OBVIOUS
  <2>2. n - z \in B
    BY <2>1
  <2>3. ~(n - z < m) /\ m \in Nat
    BY <1>3, <2>2
  <2> QED BY <2>1, <2>3
<1>6. \E x \in s : \A z \in s : x >= z
  BY <1>4, <1>5
<1> QED BY <1>6 DEF Max

\* g tabulates the fold over the subsets of the ballot's indices.
Counts(v, t0, ballot, g) ==
  g = [s \in SUBSET DOMAIN ballot |->
         IF s = {} THEN t0 ELSE VoteOne(v, g[s \ {Max(s)}], ballot[Max(s)])]

\* The tally after one ballot.
Counted(v, t0, ballot) == FoldLeft(LAMBDA acc, k : VoteOne(v, acc, k), t0, ballot)

\* The library's fold is the last entry of its chosen table.
LEMMA FoldIsCount ==
  ASSUME NEW v, NEW t0, NEW ballot
  PROVE  Counted(v, t0, ballot) = (CHOOSE g : Counts(v, t0, ballot, g))[DOMAIN ballot]
  BY DEF Counted, FoldLeft, MapThenFoldSet, Counts

\* Such a table exists, by induction on the size of the subsets it is right about.
LEMMA CountsExist ==
  ASSUME NEW v \in Voters, NEW t0 \in SoundTally, NEW ballot \in Seq(Keys)
  PROVE  \E g \in [SUBSET DOMAIN ballot -> SoundTally] : Counts(v, t0, ballot, g)
<1> DEFINE S == DOMAIN ballot
           Value(g, s) == IF s = {} THEN t0 ELSE VoteOne(v, g[s \ {Max(s)}], ballot[Max(s)])
           UpTo(n, g) == \A s \in SUBSET S : Cardinality(s) <= n => g[s] = Value(g, s)
           Bad == {n \in Nat : ~\E g \in [SUBSET S -> SoundTally] : UpTo(n, g)}
<1>1. S = 1 .. Len(ballot) /\ Len(ballot) \in Nat /\ IsFiniteSet(S)
  BY FS_Interval
<1>2. ASSUME NEW s \in SUBSET S, s # {}
      PROVE  /\ Max(s) \in s /\ s \ {Max(s)} \in SUBSET S /\ ballot[Max(s)] \in Keys
             /\ Cardinality(s) \in Nat /\ Cardinality(s \ {Max(s)}) = Cardinality(s) - 1
  <2>1. IsFiniteSet(s)
    BY <1>1, FS_Subset
  <2>2. Max(s) \in s
    BY <1>1, <1>2, LastIndex
  <2>3. ballot[Max(s)] \in Keys
    BY <2>2
  <2> QED BY <2>1, <2>2, <2>3, FS_CardinalityType, FS_RemoveElement
<1>3. ASSUME NEW g \in [SUBSET S -> SoundTally], NEW s \in SUBSET S
      PROVE  Value(g, s) \in SoundTally
  BY <1>2, VoteOneSound
<1>4. 0 \notin Bad
  <2> DEFINE g == [s \in SUBSET S |-> t0]
  <2>1. \A s \in SUBSET S : Cardinality(s) <= 0 => s = {}
    <3> SUFFICES ASSUME NEW s \in SUBSET S, s # {} PROVE ~(Cardinality(s) <= 0)
      OBVIOUS
    <3>1. Cardinality(s \ {Max(s)}) \in Nat
      BY <1>1, FS_Subset, FS_CardinalityType
    <3> QED BY <1>2, <3>1
  <2>2. g \in [SUBSET S -> SoundTally] /\ UpTo(0, g)
    BY <2>1
  <2> QED BY <2>2
<1>5. ASSUME NEW n \in Nat, n \notin Bad PROVE n + 1 \notin Bad
  <2>1. PICK g \in [SUBSET S -> SoundTally] : UpTo(n, g)
    BY <1>5
  <2> DEFINE h == [s \in SUBSET S |-> Value(g, s)]
  <2>2. h \in [SUBSET S -> SoundTally]
    BY <1>3
  <2>3. UpTo(n + 1, h)
    <3> SUFFICES ASSUME NEW s \in SUBSET S, Cardinality(s) <= n + 1, s # {}
                 PROVE  h[s] = Value(h, s)
      OBVIOUS
    <3> DEFINE t == s \ {Max(s)}
    <3>1. t \in SUBSET S /\ Cardinality(t) <= n
      <4>1. t \in SUBSET S /\ Cardinality(s) \in Nat /\ Cardinality(t) = Cardinality(s) - 1
        BY <1>2
      <4> HIDE DEF t
      <4> QED BY <4>1
    <3>2. g[t] = Value(g, t)
      BY <2>1, <3>1
    <3>3. h[t] = Value(g, t)
      BY <3>1
    <3> QED BY <3>2, <3>3
  <2> QED BY <2>2, <2>3
<1>6. Bad = {}
  <2> SUFFICES ASSUME Bad # {} PROVE FALSE
    OBVIOUS
  <2> HIDE DEF Bad
  <2>1. Bad \subseteq Nat
    BY DEF Bad
  <2>2. PICK n \in Bad : \A m \in Bad : ~(m < n)
    BY <2>1, LeastOf
  <2>3. n \in Nat /\ n # 0
    BY <1>4, <2>1
  <2>4. n - 1 \in Nat /\ n - 1 \notin Bad /\ n = (n - 1) + 1
    BY <2>2, <2>3
  <2> QED BY <1>5, <2>2, <2>4
<1>7. Cardinality(S) \in Nat
  BY <1>1, FS_CardinalityType
<1>8. PICK g \in [SUBSET S -> SoundTally] : UpTo(Cardinality(S), g)
  BY <1>6, <1>7
<1>9. \A s \in SUBSET S : g[s] = Value(g, s)
  BY <1>1, <1>8, FS_Subset
<1>10. g = [s \in SUBSET S |-> Value(g, s)]
  BY <1>9
<1> QED BY <1>10 DEF Counts

\* _vote keeps the tally sound, whatever the ballot repeats.
LEMMA BallotSound ==
  ASSUME NEW v \in Voters, NEW t0 \in SoundTally, NEW ballot \in Seq(Keys)
  PROVE  Counted(v, t0, ballot) \in SoundTally
<1> DEFINE S == DOMAIN ballot
<1>1. PICK g : g = CHOOSE h : Counts(v, t0, ballot, h)
  OBVIOUS
<1>2. \E h : Counts(v, t0, ballot, h)
  BY CountsExist
<1>3. Counts(v, t0, ballot, g)
  BY <1>1, <1>2
<1>4. \A s \in SUBSET S :
        g[s] = IF s = {} THEN t0 ELSE VoteOne(v, g[s \ {Max(s)}], ballot[Max(s)])
  BY <1>3 DEF Counts
<1>5. S = 1 .. Len(ballot) /\ Len(ballot) \in Nat /\ IsFiniteSet(S)
  BY FS_Interval
<1> DEFINE Bad == {s \in SUBSET S : g[s] \notin SoundTally}
<1>6. Bad = {}
  <2> SUFFICES ASSUME Bad # {} PROVE FALSE
    OBVIOUS
  <2>1. PICK s \in Bad : \A t \in Bad : t \subseteq s => t = s
    <3>1. Bad \subseteq SUBSET S
      OBVIOUS
    <3>2. IsFiniteSet(S)
      BY <1>5
    <3> HIDE DEF Bad, S
    <3> QED BY <3>1, <3>2, SmallestSubset
  <2>2. s # {}
    <3>1. g[{}] = t0
      BY <1>4
    <3>2. g[s] \notin SoundTally
      OBVIOUS
    <3> QED BY <3>1, <3>2
  <2>3. Max(s) \in s
    BY <1>5, <2>2, LastIndex
  <2>4. s \ {Max(s)} \in SUBSET S /\ g[s \ {Max(s)}] \in SoundTally /\ ballot[Max(s)] \in Keys
    BY <2>1, <2>3
  <2>5. g[s] = VoteOne(v, g[s \ {Max(s)}], ballot[Max(s)])
    BY <1>4, <2>2
  <2> QED BY <2>4, <2>5, VoteOneSound
<1>7. g[S] \in SoundTally
  BY <1>6
<1> QED BY <1>1, <1>7, FoldIsCount

-----------------------------------------------------------------------------
(* The contract's votes, as the deployment's parts use them.               *)

\* _vote writes the counted tally.
LEMMA CastVotesCounts ==
  ASSUME NEW v, NEW ballot, CastVotes(v, ballot)
  PROVE  LET t == Counted(v, [voted |-> voted, voters |-> voters, keys |-> demandKeys], ballot)
         IN  voted' = t.voted /\ voters' = t.voters /\ demandKeys' = t.keys
  BY DEF CastVotes, Counted, FoldLeft, MapThenFoldSet

\* What the contract holds: a sound tally, and signatures spent with their nonce.
DemandInv ==
  /\ [voted |-> voted, voters |-> voters, keys |-> demandKeys] \in SoundTally
  /\ nonces \in [Voters -> Nat]
  /\ signed \subseteq Signature
  /\ carried \in [signed -> Nat]
  /\ \A s \in signed : carried[s] <= 1 /\ (carried[s] > 0 => s.nonce < nonces[s.voter])

Steps == {"idle", "nonce", "fresh", "simulate", "send", "wait", "agree"}
Request == [pc : Steps, sig : Signature \cup {NoSig}, started : Nat, tx : Nat]
Transaction == [sig : Signature, at : Nat, spent : BOOLEAN,
                state : {"pending", "ok", "reverted", "dropped"}]

\* What the relay holds: requests and transactions about signatures that were handed out.
RelayType ==
  /\ now \in Nat
  /\ older.nonces \in [Voters -> Nat]
  /\ relayLast \in [at : [Voters -> [Chains -> Int]], nonce : [Voters -> Nat]]
  /\ seen \in [Voters -> Nat]
  /\ requests \in [Requests -> Request]
  /\ txs \in Seq(Transaction)
  /\ \A r \in Requests : Busy(r) => requests[r].sig \in signed
  /\ \A t \in DOMAIN txs : txs[t].sig \in signed
  /\ \A r \in Requests : requests[r].pc = "wait" =>
       requests[r].tx \in DOMAIN txs /\ txs[requests[r].tx].sig = requests[r].sig

\* Two signatures the relay's window is shared by.
SameLine(s, u) == s.voter = u.voter /\ ChainVoted(s) = ChainVoted(u)

\* A request of a voter served alone: its nonce was not seen spent, and it was admitted a
\* window after every transaction sent for the same voter and chain.
Admitted(q) ==
  /\ q.pc \in {"fresh", "simulate", "send", "wait"} => q.sig.nonce >= seen[q.sig.voter]
  /\ q.pc \in {"nonce", "fresh", "simulate"} =>
       \A t \in DOMAIN txs : SameLine(txs[t].sig, q.sig) => now - txs[t].at >= RelayWindow
  /\ q.pc = "send" =>
       /\ relayLast.at[q.sig.voter][ChainVoted(q.sig)] = q.started /\ q.started <= now
       /\ \A t \in DOMAIN txs : SameLine(txs[t].sig, q.sig) => q.started - txs[t].at >= RelayWindow

\* A transaction sent for a voter served alone: the relay remembers a send at least as
\* late, or has failed one that was admitted a window later.
Remembered(t) ==
  LET last == relayLast.at[txs[t].sig.voter][ChainVoted(txs[t].sig)]
  IN  /\ ~txs[t].spent
      /\ IF last = Never THEN now - txs[t].at >= RelayWindow ELSE last >= txs[t].at

\* RelayedOnce is not inductive: what keeps a second send out is what the request in
\* flight was admitted with and what the relay remembers of the last one.
AloneInv ==
  /\ \A q, r \in Requests :
       Busy(q) /\ Busy(r) /\ requests[q].sig.voter = requests[r].sig.voter
         /\ Alone(requests[r].sig.voter) => q = r
  /\ \A v \in Voters : Alone(v) => relayLast.nonce[v] >= seen[v]
  /\ \A r \in Requests : Busy(r) /\ Alone(requests[r].sig.voter) => Admitted(requests[r])
  /\ \A t \in DOMAIN txs : Alone(txs[t].sig.voter) => Remembered(t)
  /\ OnePerWindow

VotesInv == DemandInv /\ RelayType /\ AloneInv

\* A counted ballot leaves the contract's tally sound.
LEMMA TallyStep ==
  ASSUME DemandInv, NEW v \in Voters, NEW ballot \in Ballots, CastVotes(v, ballot)
  PROVE  [voted |-> voted', voters |-> voters', keys |-> demandKeys'] \in SoundTally
<1>1. ballot \in Seq(Keys)
  BY DemandAssumption
<1> DEFINE t0 == [voted |-> voted, voters |-> voters, keys |-> demandKeys]
<1>2. t0 \in SoundTally
  BY DEF DemandInv
<1>3. PICK t : t = Counted(v, t0, ballot)
  OBVIOUS
<1>4. t \in SoundTally
  <2> HIDE DEF t0
  <2> QED BY ONLY <1>1, <1>2, <1>3, BallotSound, v \in Voters
<1>5. voted' = t.voted /\ voters' = t.voters /\ demandKeys' = t.keys
  BY <1>3, CastVotesCounts
<1>6. t \in Tally
  BY <1>4 DEF SoundTally
<1>7. t = [voted |-> t.voted, voters |-> t.voters, keys |-> t.keys]
  BY <1>6 DEF Tally
<1> QED BY <1>4, <1>5, <1>7

\* voteFor spends the signature with its nonce.
LEMMA VoteForStep ==
  ASSUME DemandInv, NEW s \in signed, VoteFor(s)
  PROVE  DemandInv'
<1>1. s \in Signature /\ s.voter \in Voters /\ s.ballot \in Ballots /\ s.nonce \in Nat
  BY DEF DemandInv, Signature
<1>2. [voted |-> voted', voters |-> voters', keys |-> demandKeys'] \in SoundTally
  BY <1>1, TallyStep DEF VoteFor
<1>3. /\ nonces' = [nonces EXCEPT ![s.voter] = nonces[s.voter] + 1]
      /\ carried' = [carried EXCEPT ![s] = carried[s] + 1]
      /\ signed' = signed /\ s.nonce = nonces[s.voter]
  BY DEF VoteFor
<1>4. /\ nonces \in [Voters -> Nat] /\ carried \in [signed -> Nat] /\ signed \subseteq Signature
      /\ \A x \in signed : carried[x] <= 1 /\ (carried[x] > 0 => x.nonce < nonces[x.voter])
  BY DEF DemandInv
<1>5. nonces' \in [Voters -> Nat] /\ carried' \in [signed -> Nat]
  BY <1>1, <1>3, <1>4
<1>6. carried[s] = 0
  BY <1>1, <1>3, <1>4
<1>7. ASSUME NEW x \in signed
      PROVE  carried'[x] <= 1 /\ (carried'[x] > 0 => x.nonce < nonces'[x.voter])
  <2>1. x.voter \in Voters /\ x.nonce \in Nat
    BY <1>4 DEF Signature
  <2>2. nonces'[x.voter] >= nonces[x.voter] /\ nonces'[s.voter] = nonces[s.voter] + 1
    BY <1>1, <1>3, <1>4, <2>1
  <2>3. CASE x = s
    BY <1>1, <1>3, <1>4, <1>6, <2>2, <2>3
  <2>4. CASE x # s
    <3>1. carried'[x] = carried[x]
      BY <1>3, <1>4, <2>4
    <3>2. nonces[x.voter] \in Nat /\ nonces'[x.voter] \in Nat
      BY <1>4, <1>5, <2>1
    <3> QED BY <1>4, <2>1, <2>2, <3>1, <3>2
  <2> QED BY <2>3, <2>4
<1> QED BY <1>2, <1>3, <1>4, <1>5, <1>7 DEF DemandInv

\* A signature handed out has been carried by nobody.
LEMMA SignStep ==
  ASSUME DemandInv, NEW s \in Signature, Sign(s)
  PROVE  DemandInv'
<1>1. /\ nonces \in [Voters -> Nat] /\ carried \in [signed -> Nat] /\ signed \subseteq Signature
      /\ \A x \in signed : carried[x] <= 1 /\ (carried[x] > 0 => x.nonce < nonces[x.voter])
      /\ [voted |-> voted, voters |-> voters, keys |-> demandKeys] \in SoundTally
  BY DEF DemandInv
<1>2. /\ signed' = signed \cup {s} /\ s \notin signed
      /\ carried' = [x \in signed \cup {s} |-> IF x = s THEN 0 ELSE carried[x]]
      /\ voted' = voted /\ voters' = voters /\ demandKeys' = demandKeys /\ nonces' = nonces
  BY <1>1 DEF Sign, tally
<1>3. carried' \in [signed' -> Nat]
  BY <1>1, <1>2
<1>4. \A x \in signed' : carried'[x] <= 1 /\ (carried'[x] > 0 => x.nonce < nonces'[x.voter])
  BY <1>1, <1>2
<1> QED BY <1>1, <1>2, <1>3, <1>4 DEF DemandInv

\* What the contract holds stays as it is when nothing of it is written.
LEMMA DemandFrame ==
  ASSUME DemandInv,
         UNCHANGED <<voted, voters, demandKeys, nonces, signed, carried>>
  PROVE  DemandInv'
  BY DEF DemandInv

\* An empty registry.
LEMMA EmptyTally ==
  [voted |-> [k \in Keys |-> {}], voters |-> [k \in Keys |-> 0], keys |-> <<>>] \in SoundTally
<1> DEFINE a == [k \in Keys |-> {}]
           b == [k \in Keys |-> 0]
<1>1. a \in [Keys -> SUBSET Voters] /\ b \in [Keys -> Nat] /\ <<>> \in Seq(Keys)
  OBVIOUS
<1>2. \A k \in Keys : IsFiniteSet(a[k]) /\ b[k] = Cardinality(a[k])
  BY FS_EmptySet
<1>3. \A k \in Keys : ~(b[k] > 0)
  OBVIOUS
<1>4. DOMAIN <<>> = {}
  OBVIOUS
<1> HIDE DEF a, b
<1>5. PICK t : t = [voted |-> a, voters |-> b, keys |-> <<>>]
  OBVIOUS
<1>6. t \in Tally
  BY <1>1, <1>5 DEF Tally
<1>7. Tallied(t)
  BY <1>2, <1>3, <1>4, <1>5 DEF Tallied
<1>8. t \in SoundTally
  BY <1>6, <1>7 DEF SoundTally
<1> QED BY <1>5, <1>8 DEF a, b

\* No step of the deployment leaves the contract's books unsound.
LEMMA DemandKept ==
  ASSUME DemandInv, RelayType, [VotesNext]_votesVars
  PROVE  DemandInv'
<1> USE DEF contractVars, relayVars, tableVars, mirrorVars
<1>1. ASSUME NEW v \in Voters, NEW ballot \in Ballots, DirectVote(v, ballot)
      PROVE  DemandInv'
  <2>1. CastVotes(v, ballot) /\ UNCHANGED <<nonces, signed, carried>>
    BY <1>1 DEF DirectVote, Vote
  <2>2. [voted |-> voted', voters |-> voters', keys |-> demandKeys'] \in SoundTally
    BY <2>1, TallyStep
  <2> QED BY <2>1, <2>2 DEF DemandInv
<1>2. ASSUME NEW v \in Voters, NEW ballot \in Ballots, RecordDemand(v, ballot)
      PROVE  DemandInv'
  BY <1>2, DemandFrame DEF RecordDemand
<1>3. ASSUME NEW s \in Signature, SignVote(s) PROVE DemandInv'
  BY <1>3, SignStep DEF SignVote
<1>4. ASSUME NEW s \in signed, CarriedByOther(s) PROVE DemandInv'
  BY <1>4, VoteForStep DEF CarriedByOther
<1>5. CASE Clock \/ CatchUp
  BY <1>5, DemandFrame DEF Clock, Tick, CatchUp, tally
<1>6. ASSUME NEW t \in DOMAIN txs, MineAccepted(t) PROVE DemandInv'
  <2>1. txs[t].sig \in signed
    BY DEF RelayType
  <2> QED BY <1>6, <2>1, VoteForStep DEF MineAccepted
<1>7. ASSUME NEW t \in DOMAIN txs, MineReverted(t) \/ Drop(t) PROVE DemandInv'
  BY <1>7, DemandFrame DEF MineReverted, Drop
<1>8. ASSUME NEW v \in Voters, NEW x \in Splits, ReplaceVerdicts(v, x) PROVE DemandInv'
  BY <1>8, DemandFrame DEF ReplaceVerdicts
<1>9. CASE MirrorStep \/ SyncFails
  BY <1>9, DemandFrame DEF MirrorStep, BeginSync, ReadPage, EndSync, SyncFails
<1>10. ASSUME NEW r \in Requests, NEW s \in signed, RelayVote(r, s) PROVE DemandInv'
  BY <1>10, DemandFrame DEF RelayVote
<1>11. ASSUME NEW r \in Requests, RelayStep(r) PROVE DemandInv'
  BY <1>11, DemandFrame
  DEF RelayStep, ReadNonce, ReadFresh, SimulateVote, SendVote, ReadAgrees, SubmitFails,
      ReadReceipt, GiveUp
<1>12. CASE MoveRegistry
  <2>1. /\ [voted |-> voted', voters |-> voters', keys |-> demandKeys'] \in SoundTally
        /\ nonces' \in [Voters -> Nat] /\ signed' = {} /\ carried' \in [{} -> Nat]
    BY <1>12, EmptyTally DEF MoveRegistry
  <2> QED BY <2>1 DEF DemandInv
<1>13. CASE UNCHANGED votesVars
  BY <1>13, DemandFrame DEF votesVars
<1> QED
  BY <1>1, <1>2, <1>3, <1>4, <1>5, <1>6, <1>7, <1>8, <1>9, <1>10, <1>11, <1>12, <1>13
  DEF VotesNext

\* A sound tally is what VotesCounted asks for.
LEMMA DemandMeansCounted == DemandInv => VotesCounted
<1> SUFFICES ASSUME DemandInv PROVE VotesCounted
  OBVIOUS
<1>1. /\ voted \in [Keys -> SUBSET Voters] /\ voters \in [Keys -> Nat]
      /\ demandKeys \in Seq(Keys)
      /\ \A k \in Keys : IsFiniteSet(voted[k]) /\ voters[k] = Cardinality(voted[k])
      /\ \A k \in Keys : voters[k] > 0 <=> \E i \in DOMAIN demandKeys : demandKeys[i] = k
      /\ \A i, j \in DOMAIN demandKeys : demandKeys[i] = demandKeys[j] => i = j
  <2>1. PICK t : t = [voted |-> voted, voters |-> voters, keys |-> demandKeys]
    OBVIOUS
  <2>2. t.voted = voted /\ t.voters = voters /\ t.keys = demandKeys
    BY <2>1
  <2>3. t \in SoundTally
    BY <2>1 DEF DemandInv
  <2> QED BY <2>2, <2>3 DEF SoundTally, Tally, Tallied
<1>2. OneAddressCountsOnce
  BY <1>1 DEF OneAddressCountsOnce
<1>3. \A k : k \in ToSet(demandKeys) <=> \E i \in DOMAIN demandKeys : demandKeys[i] = k
  BY DEF ToSet
<1>4. IsInjective(demandKeys)
  BY <1>1 DEF IsInjective
<1>5. DemandEnumerable
  BY <1>1, <1>3, <1>4 DEF DemandEnumerable
<1>6. SignatureSpentOnce
  BY DEF DemandInv, SignatureSpentOnce
<1> QED BY <1>2, <1>5, <1>6 DEF VotesCounted

-----------------------------------------------------------------------------
(* The relay's types.                                                      *)

Memory == [at : [Voters -> [Chains -> Int]], nonce : [Voters -> Nat]]

\* The memory m with x as the time of the last vote of a line.
Stamped(m, v, c, x) == [m EXCEPT !.at[v][c] = x]

\* Nothing else is touched by it.
OnlyStamped(m, m1, v, c, x) ==
  /\ m1 \in Memory /\ m1.nonce = m.nonce /\ m1.at[v][c] = x
  /\ \A w \in Voters, d \in Chains : w # v \/ d # c => m1.at[w][d] = m.at[w][d]

\* Writing when the last vote of a line was sent touches that line only.
LEMMA WriteAt ==
  ASSUME NEW m \in Memory, NEW v \in Voters, NEW c \in Chains, NEW x \in Int
  PROVE  OnlyStamped(m, Stamped(m, v, c, x), v, c, x)
<1>0. PICK m1 : m1 = Stamped(m, v, c, x)
  OBVIOUS
<1>1. PICK a \in [Voters -> [Chains -> Int]], n \in [Voters -> Nat] : m = [at |-> a, nonce |-> n]
  BY DEF Memory
<1>2. m1 = [at |-> [a EXCEPT ![v] = [a[v] EXCEPT ![c] = x]], nonce |-> n]
  BY <1>0, <1>1 DEF Stamped
<1>3. PICK b : b = [a EXCEPT ![v] = [a[v] EXCEPT ![c] = x]]
  OBVIOUS
<1>4. b \in [Voters -> [Chains -> Int]]
  BY <1>3
<1>5. b[v][c] = x /\ \A w \in Voters, d \in Chains : w # v \/ d # c => b[w][d] = a[w][d]
  BY <1>3
<1>6. m1 = [at |-> b, nonce |-> n]
  BY <1>2, <1>3
<1>7. m1 \in Memory /\ m1.at = b /\ m1.nonce = n
  BY ONLY <1>1, <1>4, <1>6, n \in [Voters -> Nat] DEF Memory
<1> QED BY <1>0, <1>1, <1>5, <1>7 DEF OnlyStamped

\* Writing the nonce a voter must carry next.
LEMMA WriteNonce ==
  ASSUME NEW m \in Memory, NEW v \in Voters, NEW x \in Nat,
         NEW m1, m1 = [m EXCEPT !.nonce[v] = x]
  PROVE  /\ m1 \in Memory /\ m1.at = m.at /\ m1.nonce[v] = x
         /\ \A w \in Voters : w # v => m1.nonce[w] = m.nonce[w]
  BY DEF Memory

\* A signature's voter and chain are ones the relay keeps a line for.
LEMMA LineOf ==
  ASSUME NEW s \in Signature
  PROVE  s.voter \in Voters /\ s.nonce \in Nat /\ ChainVoted(s) \in Chains
<1>1. s.voter \in Voters /\ s.nonce \in Nat /\ s.ballot \in Ballots
  BY DEF Signature
<1>2. s.ballot \in Seq(Keys) /\ Len(s.ballot) > 0
  BY <1>1, DemandAssumption, VotesAssumption
<1>3. Head(s.ballot) \in Keys
  BY <1>2
<1> QED BY <1>1, <1>3 DEF ChainVoted, Chains

\* One request changes to q, which is idle or about the same signature.
LEMMA RequestTyped ==
  ASSUME NEW reqs \in [Requests -> Request], NEW sent \in Seq(Transaction), NEW sigs,
         \A r \in Requests : reqs[r].pc # "idle" => reqs[r].sig \in sigs,
         \A r \in Requests : reqs[r].pc = "wait" =>
           reqs[r].tx \in DOMAIN sent /\ sent[reqs[r].tx].sig = reqs[r].sig,
         NEW r \in Requests, NEW q \in Request,
         q.pc # "idle" => q.sig \in sigs,
         q.pc = "wait" => q.tx \in DOMAIN sent /\ sent[q.tx].sig = q.sig,
         NEW reqs1, reqs1 = [reqs EXCEPT ![r] = q]
  PROVE  /\ reqs1 \in [Requests -> Request]
         /\ \A p \in Requests : reqs1[p].pc # "idle" => reqs1[p].sig \in sigs
         /\ \A p \in Requests : reqs1[p].pc = "wait" =>
              reqs1[p].tx \in DOMAIN sent /\ sent[reqs1[p].tx].sig = reqs1[p].sig
<1>1. reqs1[r] = q /\ \A p \in Requests : p # r => reqs1[p] = reqs[p]
  OBVIOUS
<1>2. reqs1 \in [Requests -> Request]
  OBVIOUS
<1> QED BY <1>1, <1>2

\* A request that is over, or has not begun.
LEMMA DoneTyped == Done \in Request
  BY DEF Done, Request, Steps

\* What Goes leaves of a request.
LEMMA GoesTo ==
  ASSUME RelayType, NEW r \in Requests, NEW ok \in BOOLEAN, NEW next \in Steps, Goes(r, ok, next)
  PROVE  \E q \in Request :
           /\ requests' = [requests EXCEPT ![r] = q]
           /\ ok => /\ q.pc = next /\ q.sig = requests[r].sig
                    /\ q.started = (IF next = "send" THEN now ELSE requests[r].started)
                    /\ q.tx = requests[r].tx
           /\ ~ok => q = Done
<1>1. requests[r] \in Request /\ now \in Nat
  BY DEF RelayType
<1> DEFINE q == IF ok THEN [pc |-> next, sig |-> requests[r].sig, tx |-> requests[r].tx,
                            started |-> IF next = "send" THEN now ELSE requests[r].started]
                ELSE Done
<1>2. q \in Request
  BY <1>1, DoneTyped DEF Request
<1>3. requests' = [requests EXCEPT ![r] = q]
  BY DEF Goes
<1>4. ok => /\ q.pc = next /\ q.sig = requests[r].sig
            /\ q.started = (IF next = "send" THEN now ELSE requests[r].started)
            /\ q.tx = requests[r].tx
  BY <1>1 DEF Request
<1> QED BY <1>2, <1>3, <1>4

\* Every backend the relay asks answers a nonce for every voter.
LEMMA ViewsTyped ==
  ASSUME DemandInv, RelayType, NEW view \in Views
  PROVE  view.nonces \in [Voters -> Nat]
  BY DEF Views, Latest, DemandInv, RelayType

\* What the relay holds when it does nothing itself: the clock, the contract and the
\* transactions' fate move on.
SameTxs ==
  /\ txs' \in Seq(Transaction) /\ DOMAIN txs' = DOMAIN txs
  /\ \A t \in DOMAIN txs : /\ txs'[t].sig = txs[t].sig /\ txs'[t].at = txs[t].at
                           /\ txs'[t].spent = txs[t].spent

\* The transactions are left alone.
LEMMA Untouched ==
  ASSUME RelayType, txs' = txs
  PROVE  SameTxs
  BY DEF RelayType, SameTxs

\* Being mined, reverted or dropped changes nothing else of a transaction.
LEMMA Fate ==
  ASSUME RelayType, NEW t \in DOMAIN txs, NEW x \in {"pending", "ok", "reverted", "dropped"},
         txs' = [txs EXCEPT ![t].state = x]
  PROVE  SameTxs
<1>1. txs \in Seq(Transaction) /\ txs[t] \in Transaction
  BY DEF RelayType
<1>2. PICK a \in Signature, b \in Nat, c \in BOOLEAN, d \in {"pending", "ok", "reverted", "dropped"} :
        txs[t] = [sig |-> a, at |-> b, spent |-> c, state |-> d]
  BY <1>1 DEF Transaction
<1>3. PICK u : u = [txs[t] EXCEPT !.state = x]
  OBVIOUS
<1>4. u = [sig |-> a, at |-> b, spent |-> c, state |-> x]
  BY <1>2, <1>3
<1>5. u \in Transaction
  BY <1>4 DEF Transaction
<1>6. u.sig = txs[t].sig /\ u.at = txs[t].at /\ u.spent = txs[t].spent
  BY <1>2, <1>4
<1>7. txs' = [txs EXCEPT ![t] = u]
  BY <1>3
<1>8. txs' \in Seq(Transaction) /\ DOMAIN txs' = DOMAIN txs
  BY <1>1, <1>5, <1>7
<1>9. txs'[t] = u /\ \A k \in DOMAIN txs : k # t => txs'[k] = txs[k]
  BY <1>1, <1>7
<1> QED BY <1>6, <1>8, <1>9 DEF SameTxs

\* A step that is not the relay's keeps its types.
LEMMA RelayFrame ==
  ASSUME RelayType, UNCHANGED <<relayLast, seen, requests>>, now' \in Nat,
         older'.nonces \in [Voters -> Nat], signed \subseteq signed', SameTxs
  PROVE  RelayType'
<1>1. \A t \in DOMAIN txs' : txs'[t].sig \in signed'
  BY DEF RelayType, SameTxs
<1>2. \A r \in Requests : requests[r].pc = "wait" =>
        requests[r].tx \in DOMAIN txs' /\ txs'[requests[r].tx].sig = requests[r].sig
  BY DEF RelayType, SameTxs
<1>3. \A r \in Requests : Busy(r) => requests[r].sig \in signed'
  BY DEF RelayType
<1> QED BY <1>1, <1>2, <1>3 DEF RelayType, SameTxs, Busy

\* One request moves on, and what the relay remembers with it.
LEMMA RequestMoves ==
  ASSUME RelayType, UNCHANGED <<now, older, txs, signed>>,
         relayLast' \in Memory, seen' \in [Voters -> Nat],
         NEW r \in Requests, NEW q \in Request, requests' = [requests EXCEPT ![r] = q],
         q.pc # "idle" => q.sig \in signed,
         q.pc = "wait" => q.tx \in DOMAIN txs /\ txs[q.tx].sig = q.sig
  PROVE  RelayType'
<1>1. /\ requests \in [Requests -> Request] /\ txs \in Seq(Transaction)
      /\ \A p \in Requests : requests[p].pc # "idle" => requests[p].sig \in signed
      /\ \A p \in Requests : requests[p].pc = "wait" =>
           requests[p].tx \in DOMAIN txs /\ txs[requests[p].tx].sig = requests[p].sig
  BY DEF RelayType, Busy
<1>2. /\ requests' \in [Requests -> Request]
      /\ \A p \in Requests : requests'[p].pc # "idle" => requests'[p].sig \in signed
      /\ \A p \in Requests : requests'[p].pc = "wait" =>
           requests'[p].tx \in DOMAIN txs /\ txs[requests'[p].tx].sig = requests'[p].sig
  BY <1>1, RequestTyped
<1> QED BY <1>2 DEF RelayType, Memory, Busy

-----------------------------------------------------------------------------
(* One vote per voter, chain and window.                                   *)

\* What was sent was a signature handed out, at some time.
LEMMA TxTyped ==
  ASSUME RelayType, NEW t \in DOMAIN txs
  PROVE  /\ txs[t].at \in Nat /\ txs[t].sig \in Signature
         /\ txs[t].sig.voter \in Voters /\ ChainVoted(txs[t].sig) \in Chains
<1>1. txs[t] \in Transaction
  BY DEF RelayType
<1>2. txs[t].at \in Nat /\ txs[t].sig \in Signature
  BY <1>1 DEF Transaction
<1> QED BY <1>2, LineOf

\* Time passing and transactions being mined take nothing from what was admitted.
LEMMA AloneFrame ==
  ASSUME RelayType, AloneInv, UNCHANGED <<relayLast, seen, requests, crowded>>,
         now' \in Nat, now' >= now, SameTxs
  PROVE  AloneInv'
<1>1. RelayWindow \in Nat /\ now \in Nat
  BY VotesAssumption DEF RelayType
<1>2. \A t \in DOMAIN txs : txs[t].at \in Nat
  BY TxTyped
<1>3. \A r \in Requests : requests[r].started \in Nat
  BY DEF RelayType, Request
<1>4. ASSUME NEW r \in Requests, Busy(r), Alone(requests[r].sig.voter)
      PROVE  Admitted(requests[r])'
  <2>1. Admitted(requests[r])
    BY <1>4 DEF AloneInv
  <2>2. \A t \in DOMAIN txs : now - txs[t].at >= RelayWindow => now' - txs[t].at >= RelayWindow
    BY <1>1, <1>2
  <2>3. requests[r].started <= now => requests[r].started <= now'
    BY <1>1, <1>3
  <2> QED BY <2>1, <2>2, <2>3 DEF Admitted, SameTxs
<1>5. ASSUME NEW t \in DOMAIN txs, Alone(txs[t].sig.voter) PROVE Remembered(t)'
  <2>1. Remembered(t)
    BY <1>5 DEF AloneInv
  <2>2. now - txs[t].at >= RelayWindow => now' - txs[t].at >= RelayWindow
    BY <1>1, <1>2
  <2> QED BY <2>1, <2>2 DEF Remembered, SameTxs
<1>6. OnePerWindow'
  BY DEF AloneInv, OnePerWindow, SameTxs, Alone
<1> QED BY <1>4, <1>5, <1>6 DEF AloneInv, SameTxs, Alone, Busy

\* A request that only moves on, or is over.
LEMMA AloneMoves ==
  ASSUME RelayType, AloneInv, UNCHANGED <<relayLast, seen, crowded, now, txs>>,
         NEW r \in Requests, NEW q \in Request, requests' = [requests EXCEPT ![r] = q],
         q.pc # "idle" => /\ Busy(r) /\ q.sig = requests[r].sig
                          /\ Alone(q.sig.voter) => Admitted(q)
  PROVE  AloneInv'
<1>1. requests'[r] = q /\ \A p \in Requests : p # r => requests'[p] = requests[p]
  BY DEF RelayType
<1>2. \A p \in Requests : Busy(p)' => Busy(p) /\ requests'[p].sig = requests[p].sig
  BY <1>1 DEF Busy
<1>3. ASSUME NEW p \in Requests, Busy(p)', Alone(requests'[p].sig.voter)
      PROVE  Admitted(requests'[p])
  <2>1. CASE p = r
    BY <1>1, <1>3, <2>1 DEF Busy, Alone
  <2>2. CASE p # r
    BY <1>1, <1>2, <1>3, <2>2 DEF AloneInv, Alone
  <2> QED BY <2>1, <2>2
<1>4. (\A t \in DOMAIN txs : Alone(txs[t].sig.voter) => Remembered(t))' /\ OnePerWindow'
  BY DEF AloneInv, Alone, OnePerWindow, Remembered
<1>5. (\A v \in Voters : Alone(v) => relayLast.nonce[v] >= seen[v])'
  BY DEF AloneInv, Alone
<1>6. (\A p, t \in Requests :
          Busy(p) /\ Busy(t) /\ requests[p].sig.voter = requests[t].sig.voter
            /\ Alone(requests[t].sig.voter) => p = t)'
  BY <1>2 DEF AloneInv, Alone
<1>7. (\A p \in Requests :
          Busy(p) /\ Alone(requests[p].sig.voter) => Admitted(requests[p]))'
  BY <1>3 DEF Alone, Admitted
<1> QED BY <1>4, <1>5, <1>6, <1>7 DEF AloneInv

\* A request starts: it was admitted by what the relay remembers, and nobody else's
\* request for the voter is being served unless the voter is crowded now.
LEMMA RelayVoteKeeps ==
  ASSUME DemandInv, RelayType, AloneInv, NEW r \in Requests, NEW s \in signed, RelayVote(r, s)
  PROVE  RelayType' /\ AloneInv'
<1>1. s \in Signature
  BY DEF DemandInv
<1>2. s.voter \in Voters /\ ChainVoted(s) \in Chains
  BY <1>1, LineOf
<1>3. PICK q : q = [Done EXCEPT !.pc = "nonce", !.sig = s]
  OBVIOUS
<1>4. q = [pc |-> "nonce", sig |-> s, started |-> 0, tx |-> 0]
  BY <1>3 DEF Done
<1>5. q \in Request
  BY <1>1, <1>4 DEF Request, Steps
<1>6. q.pc = "nonce" /\ q.sig = s
  BY <1>4
<1>7. /\ requests' = [requests EXCEPT ![r] = q] /\ ~Busy(r) /\ WindowOpen(s)
      /\ UNCHANGED <<now, older, txs, signed, relayLast, seen>>
      /\ crowded' = IF \E p \in Requests : Busy(p) /\ requests[p].sig.voter = s.voter
                    THEN crowded \cup {s.voter} ELSE crowded
  BY <1>3 DEF RelayVote, contractVars
<1>8. RelayType'
  BY <1>5, <1>6, <1>7, RequestMoves DEF RelayType, Memory
<1>9. requests'[r] = q /\ \A p \in Requests : p # r => requests'[p] = requests[p]
  BY <1>7 DEF RelayType
<1>10. \A v : Alone(v)' => Alone(v)
  BY <1>7 DEF Alone
<1>11. Alone(s.voter)' => \A p \in Requests : Busy(p) => requests[p].sig.voter # s.voter
  BY <1>7 DEF Alone
<1>12. Alone(s.voter) => Admitted(q)
  <2> SUFFICES ASSUME Alone(s.voter), NEW t \in DOMAIN txs, SameLine(txs[t].sig, s)
               PROVE  now - txs[t].at >= RelayWindow
    BY <1>6 DEF Admitted
  <2>1. PICK last \in Int : last = relayLast.at[s.voter][ChainVoted(s)]
    BY <1>2 DEF RelayType
  <2>2. last = Never \/ now - last >= RelayWindow
    BY <1>7, <2>1 DEF WindowOpen
  <2>3. Remembered(t)
    BY DEF AloneInv, SameLine
  <2>4. IF last = Never THEN now - txs[t].at >= RelayWindow ELSE last >= txs[t].at
    BY <2>1, <2>3 DEF Remembered, SameLine
  <2>5. txs[t].at \in Nat /\ now \in Nat /\ RelayWindow \in Nat
    BY TxTyped, VotesAssumption DEF RelayType
  <2> QED BY <2>2, <2>4, <2>5
<1>13. ASSUME NEW p \in Requests, Busy(p)', Alone(requests[p].sig.voter)'
       PROVE  Admitted(requests'[p])
  <2>1. CASE p = r
    BY <1>6, <1>9, <1>10, <1>12, <1>13, <2>1 DEF Alone
  <2>2. CASE p # r
    BY <1>9, <1>10, <1>13, <2>2 DEF AloneInv, Alone, Busy
  <2> QED BY <2>1, <2>2
<1>14. ASSUME NEW p \in Requests, NEW u \in Requests, Busy(p)', Busy(u)',
              requests'[p].sig.voter = requests'[u].sig.voter, Alone(requests[u].sig.voter)'
       PROVE  p = u
  <2>1. \A x \in Requests : x # r => (Busy(x)' <=> Busy(x))
    BY <1>9 DEF Busy
  <2>2. CASE p # r /\ u # r
    BY <1>9, <1>10, <1>14, <2>1, <2>2 DEF AloneInv, Alone
  <2>3. CASE p = r /\ u # r
    BY <1>6, <1>9, <1>11, <1>14, <2>1, <2>3 DEF Alone
  <2>4. CASE p # r /\ u = r
    BY <1>6, <1>9, <1>11, <1>14, <2>1, <2>4 DEF Alone
  <2> QED BY <2>2, <2>3, <2>4
<1>15. \A t \in DOMAIN txs : Alone(txs[t].sig.voter)' => Remembered(t)'
  BY <1>7, <1>10 DEF AloneInv, Remembered, Alone
<1>16. OnePerWindow'
  BY <1>7, <1>10 DEF AloneInv, OnePerWindow, Alone
<1>17. \A v \in Voters : Alone(v)' => relayLast'.nonce[v] >= seen'[v]
  BY <1>7, <1>10 DEF AloneInv
<1>18. \A p \in Requests : Busy(p)' /\ Alone(requests[p].sig.voter)' => Admitted(requests[p])'
  BY <1>7, <1>13 DEF Admitted, Alone
<1>19. \A p, u \in Requests :
         Busy(p)' /\ Busy(u)' /\ requests'[p].sig.voter = requests'[u].sig.voter
           /\ Alone(requests[u].sig.voter)' => p = u
  BY <1>14
<1>20. AloneInv'
  BY <1>7, <1>15, <1>16, <1>17, <1>18, <1>19 DEF AloneInv
<1> QED BY <1>8, <1>20

\* A request that is over leaves nothing to keep.
LEMMA OverKeeps ==
  ASSUME RelayType, AloneInv, NEW r \in Requests, requests' = [requests EXCEPT ![r] = Done],
         UNCHANGED <<now, older, txs, signed, relayLast, seen, crowded>>
  PROVE  RelayType' /\ AloneInv'
<1>1. Done \in Request /\ Done.pc = "idle"
  BY DoneTyped DEF Done
<1>2. RelayType'
  BY <1>1, RequestMoves DEF RelayType, Memory
<1>3. AloneInv'
  BY <1>1, AloneMoves
<1> QED BY <1>2, <1>3

\* The reads before the send: a nonce that is not below what was seen spent, a vote that
\* would count; each goes on with the same signature or answers an error.
LEMMA ReadsKeep ==
  ASSUME DemandInv, RelayType, AloneInv, NEW r \in Requests, NEW view \in Views,
         ReadNonce(r, view) \/ ReadFresh(r, view)
  PROVE  RelayType' /\ AloneInv'
<1> DEFINE s == requests[r].sig
<1>1. /\ requests[r] \in Request /\ Busy(r) /\ s \in signed
      /\ UNCHANGED <<now, older, txs, signed, relayLast, seen, crowded>>
  BY DEF ReadNonce, ReadFresh, RelayType, Busy, contractVars
<1>2. s \in Signature /\ s.voter \in Voters /\ s.nonce \in Nat
  BY <1>1, LineOf DEF DemandInv
<1>3. PICK ok \in BOOLEAN, next \in {"fresh", "simulate"} :
        /\ Goes(r, ok, next)
        /\ next = "fresh" => requests[r].pc = "nonce" /\ (ok => s.nonce = RelayNonce(s.voter, view))
        /\ next = "simulate" => requests[r].pc = "fresh"
  <2>1. CASE ReadNonce(r, view)
    BY <2>1 DEF ReadNonce
  <2>2. CASE ReadFresh(r, view)
    BY <2>2 DEF ReadFresh
  <2> QED BY <2>1, <2>2
<1>4. PICK q \in Request :
        /\ requests' = [requests EXCEPT ![r] = q]
        /\ ok => q.pc = next /\ q.sig = s
        /\ ~ok => q = Done
  BY <1>3, GoesTo DEF Steps
<1>5. CASE ~ok
  BY <1>1, <1>4, <1>5, OverKeeps
<1>6. CASE ok
  <2>1. RelayType'
    BY <1>1, <1>3, <1>4, <1>6, RequestMoves DEF RelayType, Memory
  <2>2. ASSUME Alone(q.sig.voter) PROVE Admitted(q)
    <3>1. Admitted(requests[r])
      BY <1>1, <1>4, <1>6, <2>2 DEF AloneInv
    <3>2. next = "fresh" => s.nonce >= seen[s.voter]
      <4>1. view.nonces[s.voter] \in Nat /\ relayLast.nonce[s.voter] \in Nat /\ seen[s.voter] \in Nat
        BY <1>2, ViewsTyped DEF RelayType
      <4>2. relayLast.nonce[s.voter] >= seen[s.voter]
        BY <1>2, <1>4, <1>6, <2>2 DEF AloneInv
      <4> QED BY <1>2, <1>3, <1>6, <4>1, <4>2 DEF RelayNonce
    <3>3. next = "simulate" => s.nonce >= seen[s.voter]
      BY <1>3, <3>1 DEF Admitted
    <3>4. \A t \in DOMAIN txs : SameLine(txs[t].sig, s) => now - txs[t].at >= RelayWindow
      BY <1>3, <3>1 DEF Admitted
    <3> QED BY <1>3, <1>4, <1>6, <3>2, <3>3, <3>4 DEF Admitted
  <2>3. AloneInv'
    BY <1>1, <1>4, <1>6, <2>2, AloneMoves
  <2> QED BY <2>1, <2>3
<1> QED BY <1>5, <1>6

\* The simulated call starts the voter's window on the chain.
LEMMA SimulateKeeps ==
  ASSUME DemandInv, RelayType, AloneInv, NEW r \in Requests, NEW view \in Views,
         SimulateVote(r, view)
  PROVE  RelayType' /\ AloneInv'
<1> DEFINE s == requests[r].sig
<1>1. /\ requests[r] \in Request /\ Busy(r) /\ s \in signed /\ requests[r].pc = "simulate"
      /\ UNCHANGED <<now, older, txs, signed, seen, crowded>>
  BY DEF SimulateVote, RelayType, Busy, contractVars
<1>2. s \in Signature /\ s.voter \in Voters /\ s.nonce \in Nat /\ ChainVoted(s) \in Chains
  BY <1>1, LineOf DEF DemandInv
<1>3. PICK ok \in BOOLEAN :
        /\ Goes(r, ok, "send")
        /\ relayLast' = IF ok THEN [relayLast EXCEPT !.at[s.voter][ChainVoted(s)] = now]
                        ELSE relayLast
  BY DEF SimulateVote, Accepted
<1>4. PICK q \in Request :
        /\ requests' = [requests EXCEPT ![r] = q]
        /\ ok => q.pc = "send" /\ q.sig = s /\ q.started = now
        /\ ~ok => q = Done
  BY <1>3, GoesTo DEF Steps
<1>5. CASE ~ok
  BY <1>1, <1>3, <1>4, <1>5, OverKeeps
<1>6. CASE ok
  <2>1. relayLast \in Memory /\ now \in Nat
    BY DEF RelayType, Memory
  <2>2. /\ relayLast' \in Memory /\ relayLast'.nonce = relayLast.nonce
        /\ relayLast'.at[s.voter][ChainVoted(s)] = now
        /\ \A w \in Voters, d \in Chains :
             w # s.voter \/ d # ChainVoted(s) => relayLast'.at[w][d] = relayLast.at[w][d]
    <3>1. relayLast' = Stamped(relayLast, s.voter, ChainVoted(s), now) /\ now \in Int
      BY <1>3, <1>6, <2>1 DEF Stamped
    <3> HIDE DEF s
    <3>2. OnlyStamped(relayLast, relayLast', s.voter, ChainVoted(s), now)
      BY ONLY <1>2, <2>1, <3>1, WriteAt
    <3> QED BY ONLY <3>2 DEF OnlyStamped
  <2>3. RelayType'
    BY <1>1, <1>3, <1>4, <1>6, <2>2, RequestMoves DEF RelayType, Memory
  <2>4. requests'[r] = q /\ \A p \in Requests : p # r => requests'[p] = requests[p]
    BY <1>4 DEF RelayType
  <2>5. \A p \in Requests : Busy(p)' => Busy(p) /\ requests'[p].sig = requests[p].sig
    BY <1>1, <1>4, <1>6, <2>4 DEF Busy
  <2>6. ASSUME NEW p \in Requests, Busy(p)', Alone(requests'[p].sig.voter)
        PROVE  Admitted(requests[p])'
    <3>1. Admitted(requests[p]) /\ Busy(p)
      BY <2>5, <2>6 DEF AloneInv
    <3>2. CASE p = r
      BY <1>1, <1>4, <1>6, <2>1, <2>2, <2>4, <3>1, <3>2 DEF Admitted
    <3>3. CASE p # r
      <4>1. requests[p].sig.voter # s.voter
        BY <1>1, <2>5, <2>6, <3>1, <3>3 DEF AloneInv
      <4>2. requests[p].sig.voter \in Voters /\ ChainVoted(requests[p].sig) \in Chains
        BY <3>1, LineOf DEF RelayType, DemandInv
      <4> QED BY <1>1, <2>2, <2>4, <3>1, <3>3, <4>1, <4>2 DEF Admitted
    <3> QED BY <3>2, <3>3
  <2>7. ASSUME NEW t \in DOMAIN txs, Alone(txs[t].sig.voter)
        PROVE  Remembered(t)'
    <3>1. Remembered(t)
      BY <2>7 DEF AloneInv
    <3>2. txs[t].at \in Nat /\ txs[t].sig.voter \in Voters /\ ChainVoted(txs[t].sig) \in Chains
      BY TxTyped
    <3>3. CASE SameLine(txs[t].sig, s)
      <4>1. now - txs[t].at >= RelayWindow
        BY <1>1, <2>7, <3>3 DEF AloneInv, Admitted, SameLine
      <4>2. now >= txs[t].at /\ now # Never
        BY <2>1, <3>2, <4>1, VotesAssumption DEF Never
      <4> QED BY <1>1, <2>2, <3>1, <3>3, <4>2 DEF Remembered, SameLine
    <3>4. CASE ~SameLine(txs[t].sig, s)
      BY <1>1, <2>2, <3>1, <3>2, <3>4 DEF Remembered, SameLine
    <3> QED BY <3>3, <3>4
  <2>8. AloneInv'
    BY <1>1, <2>2, <2>5, <2>6, <2>7 DEF AloneInv, Alone, OnePerWindow
  <2> QED BY <2>3, <2>8
<1> QED BY <1>5, <1>6

\* The transaction sent is remembered, and no transaction of its line is nearer than a window.
LEMMA SendKeeps ==
  ASSUME DemandInv, RelayType, AloneInv, NEW r \in Requests, NEW view \in Views,
         SendVote(r, view)
  PROVE  RelayType' /\ AloneInv'
<1> DEFINE s == requests[r].sig
<1>1. /\ requests[r] \in Request /\ Busy(r) /\ s \in signed /\ requests[r].pc = "send"
      /\ UNCHANGED <<now, older, relayLast, signed, seen, crowded>>
  BY DEF SendVote, RelayType, Busy, contractVars
<1>2. s \in Signature /\ s.voter \in Voters /\ s.nonce \in Nat /\ ChainVoted(s) \in Chains
  BY <1>1, LineOf DEF DemandInv
<1>3. PICK x : x = [sig |-> s, at |-> requests[r].started, state |-> "pending",
                    spent |-> s.nonce < seen[s.voter]]
  OBVIOUS
<1>4. x \in Transaction /\ x.sig = s /\ x.at = requests[r].started /\ x.at \in Nat
      /\ x.spent = (s.nonce < seen[s.voter])
  <2>1. PICK b : b = (s.nonce < seen[s.voter]) /\ b \in BOOLEAN
    <3>1. (s.nonce < seen[s.voter]) \in BOOLEAN
      BY <1>2 DEF RelayType
    <3> QED BY <3>1
  <2>2. x = [sig |-> s, at |-> requests[r].started, state |-> "pending", spent |-> b]
    BY <1>3, <2>1
  <2>3. requests[r].started \in Nat
    BY <1>1 DEF Request
  <2>4. x.spent = b
    BY <2>2
  <2>5. x \in Transaction /\ x.sig = s /\ x.at = requests[r].started
    <3>1. b \in BOOLEAN
      BY <2>1
    <3> QED BY <1>2, <2>2, <2>3, <3>1 DEF Transaction
  <2> QED BY <2>1, <2>3, <2>4, <2>5
<1>5. PICK n \in Nat : n = Len(txs)
  BY DEF RelayType
<1>6. txs' = Append(txs, x)
  BY <1>3 DEF SendVote
<1>7. /\ txs' \in Seq(Transaction) /\ DOMAIN txs = 1 .. n /\ DOMAIN txs' = 1 .. (n + 1)
      /\ txs'[n + 1] = x /\ \A t \in 1 .. n : txs'[t] = txs[t]
  BY <1>4, <1>5, <1>6 DEF RelayType
<1>8. \A t \in 1 .. (n + 1) : t = n + 1 \/ t \in 1 .. n
  OBVIOUS
<1>9. PICK q : q = [pc |-> "wait", sig |-> s, started |-> requests[r].started, tx |-> n + 1]
  OBVIOUS
<1>10. q \in Request /\ q.pc = "wait" /\ q.sig = s /\ q.tx = n + 1
  BY <1>1, <1>9 DEF Request, Steps
<1>11. requests' = [requests EXCEPT ![r] = q]
  <2>1. requests' = [requests EXCEPT ![r] = [[requests[r] EXCEPT !.pc = "wait"] EXCEPT !.tx = n + 1]]
    BY <1>5 DEF SendVote, RelayType
  <2>2. PICK a \in Steps, b \in Signature \cup {NoSig}, c \in Nat, d \in Nat :
          requests[r] = [pc |-> a, sig |-> b, started |-> c, tx |-> d]
    BY <1>1 DEF Request
  <2>3. [[requests[r] EXCEPT !.pc = "wait"] EXCEPT !.tx = n + 1]
          = [pc |-> "wait", sig |-> b, started |-> c, tx |-> n + 1]
    <3>1. PICK e : e = [requests[r] EXCEPT !.pc = "wait"]
      OBVIOUS
    <3>2. e = [pc |-> "wait", sig |-> b, started |-> c, tx |-> d]
      BY <2>2, <3>1
    <3>3. [e EXCEPT !.tx = n + 1] = [pc |-> "wait", sig |-> b, started |-> c, tx |-> n + 1]
      BY <3>2
    <3> QED BY <3>1, <3>3
  <2>4. q = [pc |-> "wait", sig |-> b, started |-> c, tx |-> n + 1]
    BY <1>9, <2>2
  <2> QED BY <2>1, <2>3, <2>4
<1>12. requests'[r] = q /\ \A p \in Requests : p # r => requests'[p] = requests[p]
  BY <1>11 DEF RelayType
<1>13. \A p \in Requests : Busy(p)' => Busy(p) /\ requests'[p].sig = requests[p].sig
  BY <1>1, <1>10, <1>12 DEF Busy
<1>14. RelayType'
  <2>1. requests' \in [Requests -> Request]
    BY <1>10, <1>11 DEF RelayType
  <2>2. \A p \in Requests : Busy(p)' => requests'[p].sig \in signed
    BY <1>13 DEF RelayType
  <2>3. \A t \in DOMAIN txs' : txs'[t].sig \in signed
    BY <1>1, <1>4, <1>7, <1>8 DEF RelayType
  <2>4. \A p \in Requests : requests'[p].pc = "wait" =>
          requests'[p].tx \in DOMAIN txs' /\ txs'[requests'[p].tx].sig = requests'[p].sig
    <3>1. 1 .. n \subseteq 1 .. (n + 1) /\ n + 1 \in 1 .. (n + 1)
      OBVIOUS
    <3>2. \A p \in Requests : requests[p].pc = "wait" =>
            requests[p].tx \in 1 .. n /\ txs[requests[p].tx].sig = requests[p].sig
      BY <1>7 DEF RelayType
    <3> QED BY <1>4, <1>7, <1>10, <1>12, <3>1, <3>2
  <2> QED BY <1>1, <1>7, <2>1, <2>2, <2>3, <2>4 DEF RelayType
<1>15. ASSUME Alone(s.voter)
       PROVE  /\ s.nonce >= seen[s.voter] /\ relayLast.at[s.voter][ChainVoted(s)] = x.at
              /\ \A t \in DOMAIN txs : SameLine(txs[t].sig, s) => x.at - txs[t].at >= RelayWindow
  BY <1>1, <1>4, <1>15 DEF AloneInv, Admitted
<1>16. ASSUME NEW p \in Requests, Busy(p)', Alone(requests'[p].sig.voter)
       PROVE  Admitted(requests[p])'
  <2>1. Admitted(requests[p]) /\ Busy(p)
    BY <1>13, <1>16 DEF AloneInv
  <2>2. CASE p = r
    BY <1>1, <1>10, <1>12, <1>13, <1>15, <1>16, <2>2 DEF Admitted
  <2>3. CASE p # r
    <3>1. requests[p].sig.voter # s.voter
      BY <1>1, <1>13, <1>16, <2>1, <2>3 DEF AloneInv
    <3>2. requests'[p] = requests[p]
      BY <1>12, <2>3
    <3>3. \A t \in DOMAIN txs' : SameLine(txs'[t].sig, requests[p].sig) => t \in 1 .. n
      BY <1>4, <1>7, <1>8, <3>1 DEF SameLine
    <3>4. \A t \in 1 .. n : txs'[t] = txs[t] /\ t \in DOMAIN txs
      BY <1>7
    <3> QED BY <1>1, <2>1, <3>2, <3>3, <3>4 DEF Admitted
  <2> QED BY <2>2, <2>3
<1>17. ASSUME NEW t \in DOMAIN txs', Alone(txs'[t].sig.voter)
       PROVE  Remembered(t)'
  <2>1. CASE t = n + 1
    <3>1. ~x.spent
      <4>1. seen[s.voter] \in Nat /\ s.nonce >= seen[s.voter]
        BY <1>2, <1>4, <1>7, <1>15, <1>17, <2>1 DEF RelayType
      <4>2. ~(s.nonce < seen[s.voter])
        BY <1>2, <4>1
      <4> QED BY <1>4, <4>2, Zenon
    <3>2. relayLast.at[s.voter][ChainVoted(s)] = x.at /\ x.at # Never
      BY <1>4, <1>7, <1>15, <1>17, <2>1 DEF Never
    <3> QED BY <1>1, <1>4, <1>7, <2>1, <3>1, <3>2 DEF Remembered
  <2>2. CASE t \in 1 .. n
    BY <1>1, <1>7, <1>17, <2>2 DEF AloneInv, Remembered
  <2> QED BY <1>7, <1>8, <2>1, <2>2
<1>18. OnePerWindow'
  <2> SUFFICES ASSUME NEW t \in DOMAIN txs', NEW u \in DOMAIN txs', t < u,
                      SameLine(txs'[t].sig, txs'[u].sig), Alone(txs'[t].sig.voter)
               PROVE  txs'[u].at - txs'[t].at >= RelayWindow
    BY <1>1 DEF OnePerWindow, SameLine, Alone
  <2>1. t \in 1 .. n
    BY <1>7
  <2>2. CASE u \in 1 .. n
    BY <1>7, <2>1, <2>2 DEF AloneInv, OnePerWindow, SameLine
  <2>3. CASE u = n + 1
    BY <1>4, <1>7, <1>15, <2>1, <2>3 DEF SameLine
  <2> QED BY <1>7, <1>8, <2>2, <2>3
<1>19. AloneInv'
  BY <1>1, <1>13, <1>16, <1>17, <1>18 DEF AloneInv, Alone
<1> QED BY <1>14, <1>19

\* What was not sent forgets the window; the request had been admitted a window after
\* every transaction of the line, so the next one may be too.
LEMMA SubmitFailsKeeps ==
  ASSUME DemandInv, RelayType, AloneInv, NEW r \in Requests, SubmitFails(r)
  PROVE  RelayType' /\ AloneInv'
<1> DEFINE s == requests[r].sig
<1>1. /\ requests[r] \in Request /\ Busy(r) /\ s \in signed /\ requests[r].pc = "send"
      /\ UNCHANGED <<now, older, txs, signed, seen, crowded>>
      /\ requests' = [requests EXCEPT ![r] = Done]
  BY DEF SubmitFails, RelayType, Busy, contractVars
<1>2. s \in Signature /\ s.voter \in Voters /\ s.nonce \in Nat /\ ChainVoted(s) \in Chains
  BY <1>1, LineOf DEF DemandInv
<1>3. /\ relayLast' \in Memory /\ relayLast'.nonce = relayLast.nonce
      /\ relayLast'.at[s.voter][ChainVoted(s)] = Never
      /\ \A w \in Voters, d \in Chains :
           w # s.voter \/ d # ChainVoted(s) => relayLast'.at[w][d] = relayLast.at[w][d]
  <2>1. Never \in Int
    BY DEF Never
  <2>2. relayLast' = Stamped(relayLast, s.voter, ChainVoted(s), Never) /\ relayLast \in Memory
    BY <2>1 DEF SubmitFails, RelayType, Memory, Stamped
  <2> HIDE DEF s
  <2>3. OnlyStamped(relayLast, relayLast', s.voter, ChainVoted(s), Never)
    BY ONLY <1>2, <2>1, <2>2, WriteAt
  <2> QED BY ONLY <2>3 DEF OnlyStamped
<1>4. Done \in Request /\ Done.pc = "idle"
  BY DoneTyped DEF Done
<1>5. RelayType'
  BY <1>1, <1>3, <1>4, RequestMoves DEF RelayType
<1>6. requests'[r] = Done /\ \A p \in Requests : p # r => requests'[p] = requests[p]
  BY <1>1 DEF RelayType
<1>7. \A p \in Requests : Busy(p)' => Busy(p) /\ p # r /\ requests'[p] = requests[p]
  BY <1>4, <1>6 DEF Busy
<1>8. ASSUME NEW p \in Requests, Busy(p)', Alone(requests'[p].sig.voter)
      PROVE  Admitted(requests[p])'
  <2>1. Admitted(requests[p]) /\ Busy(p) /\ p # r
    BY <1>7, <1>8 DEF AloneInv
  <2>2. requests[p].sig.voter # s.voter
    BY <1>1, <1>7, <1>8, <2>1 DEF AloneInv
  <2>3. requests[p].sig.voter \in Voters /\ ChainVoted(requests[p].sig) \in Chains
    BY <2>1, LineOf DEF RelayType, DemandInv
  <2> QED BY <1>1, <1>3, <1>7, <1>8, <2>1, <2>2, <2>3 DEF Admitted
<1>9. ASSUME NEW t \in DOMAIN txs, Alone(txs[t].sig.voter)
      PROVE  Remembered(t)'
  <2>1. Remembered(t)
    BY <1>9 DEF AloneInv
  <2>2. txs[t].at \in Nat /\ txs[t].sig.voter \in Voters /\ ChainVoted(txs[t].sig) \in Chains
    BY TxTyped
  <2>3. CASE SameLine(txs[t].sig, s)
    <3>1. requests[r].started - txs[t].at >= RelayWindow /\ requests[r].started <= now
      BY <1>1, <1>9, <2>3 DEF AloneInv, Admitted, SameLine
    <3>2. now - txs[t].at >= RelayWindow
      <4>1. requests[r].started \in Nat /\ now \in Nat /\ RelayWindow \in Nat
        BY <1>1, VotesAssumption DEF RelayType, Request
      <4> QED BY <2>2, <3>1, <4>1
    <3> QED BY <1>1, <1>3, <2>1, <2>3, <3>2 DEF Remembered, SameLine
  <2>4. CASE ~SameLine(txs[t].sig, s)
    BY <1>1, <1>3, <2>1, <2>2, <2>4 DEF Remembered, SameLine
  <2> QED BY <2>3, <2>4
<1>10. AloneInv'
  BY <1>1, <1>3, <1>7, <1>8, <1>9 DEF AloneInv, Alone, OnePerWindow
<1> QED BY <1>5, <1>10

\* A receipt: what is seen spent is what the relay remembers as the next nonce.
LEMMA ReceiptKeeps ==
  ASSUME DemandInv, RelayType, AloneInv, NEW r \in Requests, ReadReceipt(r)
  PROVE  RelayType' /\ AloneInv'
<1> DEFINE s == requests[r].sig
<1>1. /\ requests[r] \in Request /\ Busy(r) /\ s \in signed /\ requests[r].pc = "wait"
      /\ txs[requests[r].tx].sig = s
      /\ UNCHANGED <<now, older, txs, signed, crowded>>
  BY DEF ReadReceipt, RelayType, Busy, contractVars
<1>2. s \in Signature /\ s.voter \in Voters /\ s.nonce \in Nat
  BY <1>1, LineOf DEF DemandInv
<1>3. PICK ok \in BOOLEAN :
        /\ Goes(r, ok, "agree")
        /\ relayLast' = IF ok THEN [relayLast EXCEPT !.nonce[s.voter] = s.nonce + 1] ELSE relayLast
        /\ seen' = IF ok /\ seen[s.voter] <= s.nonce THEN [seen EXCEPT ![s.voter] = s.nonce + 1]
                   ELSE seen
  BY <1>1 DEF ReadReceipt
<1>4. PICK q \in Request :
        /\ requests' = [requests EXCEPT ![r] = q]
        /\ ok => q.pc = "agree" /\ q.sig = s
        /\ ~ok => q = Done
  BY <1>3, GoesTo DEF Steps
<1>5. CASE ~ok
  BY <1>1, <1>3, <1>4, <1>5, OverKeeps
<1>6. CASE ok
  <2>1. /\ relayLast' \in Memory /\ relayLast'.at = relayLast.at
        /\ relayLast'.nonce[s.voter] = s.nonce + 1
        /\ \A w \in Voters : w # s.voter => relayLast'.nonce[w] = relayLast.nonce[w]
    <3>1. /\ relayLast' = [relayLast EXCEPT !.nonce[s.voter] = s.nonce + 1]
          /\ s.nonce + 1 \in Nat /\ relayLast \in Memory
      BY <1>2, <1>3, <1>6 DEF RelayType, Memory
    <3> HIDE DEF s
    <3> QED BY ONLY <1>2, <3>1, WriteNonce
  <2>2. seen \in [Voters -> Nat]
    BY DEF RelayType
  <2>3. /\ seen' \in [Voters -> Nat] /\ \A w \in Voters : w # s.voter => seen'[w] = seen[w]
        /\ s.nonce >= seen[s.voter] => seen'[s.voter] = s.nonce + 1
    BY <1>2, <1>3, <1>6, <2>2
  <2>4. RelayType'
    BY <1>1, <1>4, <1>6, <2>1, <2>3, RequestMoves DEF RelayType
  <2>5. requests'[r] = q /\ \A p \in Requests : p # r => requests'[p] = requests[p]
    BY <1>4 DEF RelayType
  <2>6. \A p \in Requests : Busy(p)' => Busy(p) /\ requests'[p].sig = requests[p].sig
    BY <1>1, <1>4, <1>6, <2>5 DEF Busy
  <2>7. Alone(s.voter) => s.nonce >= seen[s.voter]
    BY <1>1 DEF AloneInv, Admitted
  <2>8. \A v \in Voters : Alone(v) => relayLast'.nonce[v] >= seen'[v]
    <3>1. Alone(s.voter) => relayLast'.nonce[s.voter] >= seen'[s.voter]
      BY <1>2, <2>1, <2>3, <2>7
    <3> QED BY <2>1, <2>3, <3>1 DEF AloneInv
  <2>9. ASSUME NEW p \in Requests, Busy(p)', Alone(requests'[p].sig.voter)
        PROVE  Admitted(requests[p])'
    <3>1. CASE p = r
      BY <1>4, <1>6, <2>5, <3>1 DEF Admitted
    <3>2. CASE p # r
      <4>1. Admitted(requests[p]) /\ Busy(p)
        BY <2>6, <2>9 DEF AloneInv
      <4>2. requests[p].sig.voter # s.voter
        BY <1>1, <2>6, <2>9, <3>2, <4>1 DEF AloneInv
      <4>3. requests[p].sig.voter \in Voters
        BY <4>1, LineOf DEF RelayType, DemandInv
      <4> QED BY <1>1, <2>1, <2>3, <2>5, <3>2, <4>1, <4>2, <4>3 DEF Admitted
    <3> QED BY <3>1, <3>2
  <2>10. AloneInv'
    BY <1>1, <2>1, <2>6, <2>8, <2>9 DEF AloneInv, Alone, OnePerWindow, Remembered
  <2> QED BY <2>4, <2>10
<1> QED BY <1>5, <1>6

\* A relay that has just started.
RelayStarted ==
  /\ requests = [r \in Requests |-> Done] /\ txs = <<>> /\ now \in Nat
  /\ older.nonces = [v \in Voters |-> 0] /\ seen = [v \in Voters |-> 0]
  /\ relayLast = NothingSent

\* It has admitted nothing and sent nothing.
LEMMA StartedKeeps == RelayStarted => RelayType /\ AloneInv
<1> SUFFICES ASSUME RelayStarted PROVE RelayType /\ AloneInv
  OBVIOUS
<1>1. NothingSent \in Memory /\ NothingSent.nonce = [v \in Voters |-> 0]
  <2>1. [v \in Voters |-> [c \in Chains |-> Never]] \in [Voters -> [Chains -> Int]]
    BY DEF Never
  <2> QED BY <2>1 DEF NothingSent, Memory
<1>2. \A r \in Requests : requests[r] = Done
  BY DEF RelayStarted
<1>3. Done \in Request /\ Done.pc = "idle"
  BY DoneTyped DEF Done
<1>4. \A r \in Requests : ~Busy(r)
  BY <1>2, <1>3 DEF Busy
<1>5. txs \in Seq(Transaction) /\ DOMAIN txs = {}
  BY DEF RelayStarted
<1>6. RelayType
  <2>1. requests \in [Requests -> Request]
    BY <1>3 DEF RelayStarted
  <2>2. relayLast \in [at : [Voters -> [Chains -> Int]], nonce : [Voters -> Nat]]
    BY <1>1 DEF RelayStarted, Memory
  <2> QED BY <1>2, <1>3, <1>4, <1>5, <2>1, <2>2 DEF RelayType, RelayStarted
<1>7. \A v \in Voters : relayLast.nonce[v] >= seen[v]
  BY <1>1 DEF RelayStarted
<1>8. OnePerWindow
  BY <1>5 DEF OnePerWindow
<1>9. AloneInv
  BY <1>4, <1>5, <1>7, <1>8 DEF AloneInv
<1> QED BY <1>6, <1>9

\* Every step of the deployment keeps what the relay holds.
LEMMA RelayKept ==
  ASSUME DemandInv, DemandInv', RelayType, AloneInv, [VotesNext]_votesVars
  PROVE  RelayType' /\ AloneInv'
<1> USE DEF contractVars, relayVars, tableVars, mirrorVars
<1>1. now \in Nat /\ older.nonces \in [Voters -> Nat] /\ nonces \in [Voters -> Nat]
      /\ Latest.nonces = nonces
  BY DEF RelayType, DemandInv, Latest
<1>2. ASSUME UNCHANGED <<relayLast, seen, requests, crowded>>, now' \in Nat, now' >= now,
             older' = older \/ older' = Latest, signed \subseteq signed', SameTxs
      PROVE  RelayType' /\ AloneInv'
  <2>1. older'.nonces \in [Voters -> Nat]
    BY <1>1, <1>2
  <2>2. RelayType'
    BY <1>2, <2>1, RelayFrame
  <2>3. AloneInv'
    BY <1>2, AloneFrame
  <2> QED BY <2>2, <2>3
<1>3. ASSUME NEW v \in Voters, NEW ballot \in Ballots,
             DirectVote(v, ballot) \/ RecordDemand(v, ballot)
      PROVE  RelayType' /\ AloneInv'
  BY <1>1, <1>2, <1>3, Untouched DEF DirectVote, Vote, RecordDemand
<1>4. ASSUME NEW s \in Signature, SignVote(s) PROVE RelayType' /\ AloneInv'
  BY <1>1, <1>2, <1>4, Untouched DEF SignVote, Sign
<1>5. ASSUME NEW s \in signed, CarriedByOther(s) PROVE RelayType' /\ AloneInv'
  BY <1>1, <1>2, <1>5, Untouched DEF CarriedByOther, VoteFor
<1>6. CASE Clock
  BY <1>1, <1>2, <1>6, Untouched DEF Clock, Tick
<1>7. CASE CatchUp
  BY <1>1, <1>2, <1>7, Untouched DEF CatchUp
<1>8. ASSUME NEW t \in DOMAIN txs, MineAccepted(t) PROVE RelayType' /\ AloneInv'
  <2>1. SameTxs
    BY <1>8, Fate DEF MineAccepted
  <2> QED BY <1>1, <1>2, <1>8, <2>1 DEF MineAccepted, VoteFor
<1>9. ASSUME NEW t \in DOMAIN txs, MineReverted(t) \/ Drop(t) PROVE RelayType' /\ AloneInv'
  <2>1. SameTxs
    BY <1>9, Fate DEF MineReverted, Drop
  <2> QED BY <1>1, <1>2, <1>9, <2>1 DEF MineReverted, Drop
<1>10. ASSUME NEW v \in Voters, NEW x \in Splits, ReplaceVerdicts(v, x)
       PROVE  RelayType' /\ AloneInv'
  BY <1>1, <1>2, <1>10, Untouched DEF ReplaceVerdicts
<1>11. CASE MirrorStep \/ SyncFails
  <2>1. UNCHANGED <<voted, voters, demandKeys, nonces, carried, older, signed, now, relayLast,
                    requests, crowded, seen, txs>>
    BY <1>11 DEF MirrorStep, BeginSync, ReadPage, EndSync, SyncFails
  <2> QED BY <1>1, <1>2, <2>1, Untouched
<1>12. ASSUME NEW r \in Requests, NEW s \in signed, RelayVote(r, s) PROVE RelayType' /\ AloneInv'
  BY <1>12, RelayVoteKeeps
<1>13. ASSUME NEW r \in Requests, RelayStep(r) PROVE RelayType' /\ AloneInv'
  <2>1. ASSUME NEW view \in Views, ReadAgrees(r, view) PROVE RelayType' /\ AloneInv'
    BY <2>1, OverKeeps DEF ReadAgrees
  <2>2. CASE GiveUp(r)
    BY <2>2, OverKeeps DEF GiveUp
  <2> QED
    BY <1>13, <2>1, <2>2, ReadsKeep, SimulateKeeps, SendKeeps, SubmitFailsKeeps, ReceiptKeeps
    DEF RelayStep
<1>14. CASE MoveRegistry
  <2>1. /\ requests' = [r \in Requests |-> Done] /\ txs' = <<>> /\ now' = now
        /\ older'.nonces = [v \in Voters |-> 0] /\ seen' = [v \in Voters |-> 0]
        /\ relayLast' = NothingSent
    BY <1>14 DEF MoveRegistry
  <2>2. RelayStarted'
    BY <1>1, <2>1 DEF RelayStarted, NothingSent, Never, Chains
  <2>3. (RelayType /\ AloneInv)'
    BY <2>2, StartedKeeps, PTL
  <2> QED BY <2>3
<1>15. CASE UNCHANGED votesVars
  BY <1>1, <1>2, <1>15, Untouched DEF votesVars
<1> QED
  BY <1>3, <1>4, <1>5, <1>6, <1>7, <1>8, <1>9, <1>10, <1>11, <1>12, <1>13, <1>14, <1>15
  DEF VotesNext

\* The inductive invariant behind VotesCounted and RelayedOnce.
LEMMA VotesInvariant == VotesSpec => []VotesInv
<1>1. VotesInit => VotesInv
  <2> SUFFICES ASSUME VotesInit PROVE VotesInv
    OBVIOUS
  <2>1. RelayStarted
    BY DEF VotesInit, Init, RelayStarted
  <2>2. DemandInv
    <3>1. [voted |-> voted, voters |-> voters, keys |-> demandKeys] \in SoundTally
      BY EmptyTally DEF VotesInit, Init
    <3> QED BY <3>1 DEF VotesInit, Init, DemandInv
  <2> QED BY <2>1, <2>2, StartedKeeps DEF VotesInv
<1>2. VotesInv /\ [VotesNext]_votesVars => VotesInv'
  BY DemandKept, RelayKept DEF VotesInv
<1> QED BY <1>1, <1>2, PTL DEF VotesSpec

\* vote and voteFor count what was meant: each address once per asset however often and by
\* whichever route it voted, each voted asset listed once, each signature good for one
\* transaction (HintRegistry.sol _vote, vote, voteFor), for any set of voters, any ballots,
\* repeats included, and any interleaving with the relay.
THEOREM VotesAlwaysCounted == VotesSpec => []VotesCounted
<1>1. VotesInv => VotesCounted
  BY DemandMeansCounted DEF VotesInv
<1> QED BY <1>1, VotesInvariant, PTL

\* The relay pays for one vote per voter, chain and window and for none it has seen spent
\* (handleRelayVote), for any number of requests, lagging backends, failures and restarts,
\* as long as the voter's requests do not overlap.
THEOREM RelaysOnce == VotesSpec => []RelayedOnce
<1>1. VotesInv => RelayedOnce
  BY DEF VotesInv, AloneInv, RelayedOnce, NeverResent, Remembered
<1> QED BY <1>1, VotesInvariant, PTL

-----------------------------------------------------------------------------
(* The deployment's own table.                                             *)

Rows == [Voters -> [Keys -> Weights]]

VerdictInv == weight \in Rows /\ split \in Rows /\ VerdictStands

\* What a reader signed stands until they sign again, whatever unsigned votes are recorded
\* in their name (RecordDemand's conflict clause and ReplaceVerdicts).
THEOREM VerdictsStand == VotesSpec => []VerdictStands
<1>1. VotesInit => VerdictInv
  BY DEF VotesInit, VerdictInv, VerdictStands, Rows, Weights
<1>2. VerdictInv /\ [VotesNext]_votesVars => VerdictInv'
  <2> SUFFICES ASSUME VerdictInv, [VotesNext]_votesVars PROVE VerdictInv'
    OBVIOUS
  <2> USE DEF contractVars, relayVars, tableVars, mirrorVars
  <2>1. ASSUME NEW v \in Voters, NEW ballot \in Ballots, RecordDemand(v, ballot)
        PROVE  VerdictInv'
    <3>1. PICK row : row = [k \in Keys |-> IF k \in ToSet(ballot) /\ weight[v][k] = 0
                                           THEN 1 ELSE weight[v][k]]
      OBVIOUS
    <3>2. weight' = [weight EXCEPT ![v] = row] /\ split' = split
      BY <2>1, <3>1 DEF RecordDemand
    <3>3. row \in [Keys -> Weights]
      BY <3>1 DEF VerdictInv, Rows, Weights
    <3>4. \A k \in Keys : split[v][k] # 0 => row[k] = split[v][k]
      BY <3>1 DEF VerdictInv, VerdictStands
    <3>5. weight'[v] = row /\ \A w \in Voters : w # v => weight'[w] = weight[w]
      BY <3>2 DEF VerdictInv, Rows
    <3> QED BY <3>2, <3>3, <3>4, <3>5 DEF VerdictInv, VerdictStands, Rows
  <2>2. ASSUME NEW v \in Voters, NEW x \in Splits, ReplaceVerdicts(v, x)
        PROVE  VerdictInv'
    <3>1. x.weights \in [Keys -> Weights]
      BY VotesAssumption
    <3> DEFINE new(rows) == [k \in Keys |-> IF ChainOf[k] = x.chain THEN x.weights[k]
                                            ELSE rows[v][k]]
    <3>2. weight' = [weight EXCEPT ![v] = new(weight)] /\ split' = [split EXCEPT ![v] = new(split)]
      BY <2>2 DEF ReplaceVerdicts
    <3>3. new(weight) \in [Keys -> Weights] /\ new(split) \in [Keys -> Weights]
      BY <3>1 DEF VerdictInv, Rows
    <3>4. \A k \in Keys : new(split)[k] # 0 => new(weight)[k] = new(split)[k]
      BY DEF VerdictInv, VerdictStands
    <3>5. /\ weight'[v] = new(weight) /\ split'[v] = new(split)
          /\ \A w \in Voters : w # v => weight'[w] = weight[w] /\ split'[w] = split[w]
      BY <3>2 DEF VerdictInv, Rows
    <3> HIDE DEF new
    <3> QED BY <3>2, <3>3, <3>4, <3>5 DEF VerdictInv, VerdictStands, Rows
  <2>3. ASSUME UNCHANGED tableVars PROVE VerdictInv'
    BY <2>3 DEF VerdictInv, VerdictStands
  <2>4. CASE UNCHANGED votesVars
    BY <2>3, <2>4 DEF votesVars
  <2>5. ASSUME NEW v \in Voters, NEW ballot \in Ballots, DirectVote(v, ballot)
        PROVE  VerdictInv'
    BY <2>3, <2>5 DEF DirectVote
  <2>6. ASSUME NEW s, SignVote(s) \/ CarriedByOther(s) PROVE VerdictInv'
    BY <2>3, <2>6 DEF SignVote, CarriedByOther
  <2>7. ASSUME NEW t \in DOMAIN txs, MineAccepted(t) \/ MineReverted(t) \/ Drop(t)
        PROVE  VerdictInv'
    BY <2>3, <2>7 DEF MineAccepted, MineReverted, Drop
  <2>8. CASE Clock \/ CatchUp \/ SyncFails \/ MoveRegistry
    BY <2>3, <2>8 DEF Clock, CatchUp, SyncFails, MoveRegistry
  <2>9. CASE MirrorStep
    BY <2>3, <2>9 DEF MirrorStep, BeginSync, ReadPage, EndSync
  <2>10. ASSUME NEW r \in Requests, NEW s \in signed, RelayVote(r, s) PROVE VerdictInv'
    BY <2>3, <2>10 DEF RelayVote
  <2>11. ASSUME NEW r \in Requests, RelayStep(r) PROVE VerdictInv'
    BY <2>3, <2>11
    DEF RelayStep, ReadNonce, ReadFresh, SimulateVote, SendVote, ReadAgrees, SubmitFails,
        ReadReceipt, GiveUp
  <2> QED
    BY <2>1, <2>2, <2>4, <2>5, <2>6, <2>7, <2>8, <2>9, <2>10, <2>11 DEF VotesNext
<1>3. VerdictInv => VerdictStands
  BY DEF VerdictInv
<1> QED BY <1>1, <1>2, <1>3, PTL DEF VotesSpec
=============================================================================
