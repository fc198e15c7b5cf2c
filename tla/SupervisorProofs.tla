-------------------------- MODULE SupervisorProofs --------------------------
(***************************************************************************)
(* What the chain supervisor promises, for any chains, nodes, operators,   *)
(* configuration and chains table.  Two arguments meet in it: the lock and *)
(* the phases of the process say who may be starting a chain, and what is  *)
(* still to be done about a chain that was asked to stop is always in the  *)
(* hands of a request.                                                     *)
(***************************************************************************)
EXTENDS Supervisor, FiniteSetTheorems, SequenceTheorems, TLAPS

Ops == {"idle", "start", "dial", "persist", "launch", "stop", "stopDisabled", "disable"}
Starting == {"dial", "persist", "launch"}
ConfigRow == [id : Chains, node : Nodes, requireLocal : BOOLEAN]
Entry == [id : Chains, node : Nodes \cup {NoOne}, launch : Nat, config : BOOLEAN]
Call == [op : Ops, id : Chains, node : Nodes \cup {NoOne}, launch : Nat]
Indexer == [entry : Entry, state : {"starting", "running", "failed", "reported"}]

Table(ps) == DOMAIN ps \subseteq Chains /\ \A c \in DOMAIN ps : ps[c] \in Profile

\* What startup has still to start: configured chains, then rows of the table.
TodoType(ph, todos, ps) ==
  /\ ph = "config" => todos \in Seq(ConfigRow)
  /\ ph = "stored" => todos \in Seq(Chains) /\ \A i \in DOMAIN todos : todos[i] \in DOMAIN ps

SupervisorType ==
  /\ phase \in {"config", "stored", "serving", "down"}
  /\ launches \in Nat
  /\ Table(profiles)
  /\ calls \in [Threads -> Call]
  /\ set \in Seq(Entry)
  /\ indexers \subseteq Indexer
  /\ asked \in [Chains -> {"run", "stop", "both"}]
  /\ TodoType(phase, todo, profiles)

RunsIn(s, c) == \E i \in DOMAIN s : s[i].id = c
Unique(s) == \A i, j \in DOMAIN s : s[i].id = s[j].id => i = j
Ordered(s) == \A i, j \in DOMAIN s : i < j /\ s[j].config => s[i].config

\* A chain that is being dialled holds the lock and has no entry, so Add never refuses
\* one in StartStored, and the set has one entry for each chain.
LockInv ==
  /\ phase # "serving" => \A t \in Operators : calls[t] = Idle
  /\ phase # "stored" => calls[Main] = Idle
  /\ calls[Main].op \in {"idle", "start"} \cup Starting
  /\ \A t \in Threads : calls[t].op \in Starting => lock = t
  /\ \A t \in Threads : calls[t].op = "dial" => ~RunsIn(set, calls[t].id)
  /\ Unique(set)

OrderInv ==
  Ordered(set) /\ (phase \in {"config", "down"} => \A i \in DOMAIN set : set[i].config)

\* The row of a chain says that it is not to be started from the table.
OffIn(ps, c) == c \in DOMAIN ps /\ ps[c].source # "config" => ~ps[c].enabled

\* A chain that was asked to stop: whoever works on it is stopping it, and what is not
\* done yet is in the hands of one of them.
Going(c, cs, s, ps, ph, todos) ==
  /\ \A t \in Threads : cs[t].op # "idle" /\ cs[t].id = c =>
       cs[t].op \in {"stop", "disable", "stopDisabled"}
  /\ RunsIn(s, c) => \E t \in Operators : cs[t].id = c /\ cs[t].op \in {"stop", "stopDisabled"}
  /\ ~OffIn(ps, c) => \E t \in Operators : cs[t].id = c /\ cs[t].op \in {"stop", "disable"}
  /\ ph = "stored" => \A i \in DOMAIN todos : todos[i] = c => ps[c].source = "config"

GoneInv ==
  \A c \in Chains : asked[c] = "stop" => Going(c, calls, set, profiles, phase, todo)

SupervisorInv == SupervisorType /\ LockInv /\ OrderInv /\ GoneInv

-----------------------------------------------------------------------------
(* The chains table, one statement at a time.                              *)

\* Outside C, rows keep what startup reads of them, and a new row is a configured chain's.
SameRows(ps, qs, C) ==
  /\ DOMAIN ps \subseteq DOMAIN qs
  /\ \A d \in DOMAIN ps : d \notin C => /\ qs[d].source = ps[d].source
                                        /\ qs[d].enabled = ps[d].enabled
  /\ \A d \in DOMAIN qs : d \notin DOMAIN ps /\ d \notin C => qs[d].source = "config"

\* The trust of a row that was there changes to what the operator or the daemon says.
Deliberate(ps, qs) ==
  \A d \in DOMAIN ps : qs[d].trust # ps[d].trust =>
    qs[d].by = IF qs[d].trust = "quarantined" THEN "daemon" ELSE "operator"

LEMMA NothingWritten ==
  ASSUME Table(profiles), UNCHANGED profiles
  PROVE  Table(profiles') /\ SameRows(profiles, profiles', {}) /\ Deliberate(profiles, profiles')
BY DEF Table, SameRows, Deliberate

LEMMA UpsertChainProfileFacts ==
  ASSUME Table(profiles), NEW c \in Chains, NEW n \in Nodes \cup {NoOne},
         NEW source \in {"config", "api"}, UpsertChainProfile(c, n, source)
  PROVE  Table(profiles') /\ SameRows(profiles, profiles', {c}) /\ Deliberate(profiles, profiles')
<1> PICK row : row = [enabled |-> TRUE, source |-> source,
                      trust |-> IF Known(c) THEN profiles[c].trust ELSE TrustForEndpoint(n),
                      by |-> IF Known(c) THEN profiles[c].by ELSE "nobody",
                      node |-> n, error |-> Known(c) /\ profiles[c].error]
  OBVIOUS
<1>1. profiles' = [d \in DOMAIN profiles \cup {c} |-> IF d = c THEN row ELSE profiles[d]]
  BY DEF UpsertChainProfile
<1>2. /\ Known(c) => profiles[c].trust \in Trust /\ profiles[c].by \in {"nobody", "operator", "daemon"}
      /\ TrustForEndpoint(n) \in Trust
  BY DEF Known, Table, Profile, TrustForEndpoint, Trust
<1>3. (Known(c) /\ profiles[c].error) \in BOOLEAN
  BY DEF Known, Table, Profile
<1>4. row \in Profile
  BY <1>2, <1>3 DEF Profile
<1>5. Known(c) => row.trust = profiles[c].trust
  OBVIOUS
<1>6. Table(profiles')
  BY <1>1, <1>4 DEF Table
<1>7. SameRows(profiles, profiles', {c})
  BY <1>1 DEF SameRows
<1>8. Deliberate(profiles, profiles')
  BY <1>1, <1>5 DEF Deliberate, Known
<1> QED BY <1>6, <1>7, <1>8

LEMMA UpsertChainFacts ==
  ASSUME Table(profiles), NEW c \in Chains, UpsertChain(c)
  PROVE  Table(profiles') /\ SameRows(profiles, profiles', {}) /\ Deliberate(profiles, profiles')
<1>1. CASE Known(c)
  BY <1>1, NothingWritten DEF UpsertChain
<1>2. CASE ~Known(c)
  <2> PICK row : row = [enabled |-> TRUE, source |-> "config", trust |-> "unverified",
                        by |-> "nobody", node |-> NoOne, error |-> FALSE]
    OBVIOUS
  <2>1. profiles' = [d \in DOMAIN profiles \cup {c} |-> IF d = c THEN row ELSE profiles[d]]
    BY <1>2 DEF UpsertChain
  <2>2. row \in Profile /\ row.source = "config"
    BY DEF Profile, Trust
  <2> QED BY <1>2, <2>1, <2>2 DEF Table, SameRows, Deliberate, Known
<1> QED BY <1>1, <1>2

LEMMA SetChainErrorFacts ==
  ASSUME Table(profiles), NEW c, NEW e \in BOOLEAN, SetChainError(c, e)
  PROVE  Table(profiles') /\ SameRows(profiles, profiles', {}) /\ Deliberate(profiles, profiles')
<1>1. CASE ~Known(c)
  BY <1>1, NothingWritten DEF SetChainError
<1>2. CASE Known(c)
  <2> PICK row : row = [profiles[c] EXCEPT !.error = e]
    OBVIOUS
  <2>1. profiles' = [profiles EXCEPT ![c] = row]
    BY <1>2 DEF SetChainError
  <2>2. profiles[c] \in Profile
    BY <1>2 DEF Known, Table
  <2>3. row \in Profile /\ row.source = profiles[c].source /\ row.enabled = profiles[c].enabled
        /\ row.trust = profiles[c].trust
    BY <2>2 DEF Profile
  <2> QED BY <1>2, <2>1, <2>3 DEF Table, SameRows, Deliberate, Known
<1> QED BY <1>1, <1>2

LEMMA SetChainTrustFacts ==
  ASSUME Table(profiles), NEW c, NEW trust \in Trust, NEW who \in {"operator", "daemon"},
         SetChainTrust(c, trust, who),
         who = IF trust = "quarantined" THEN "daemon" ELSE "operator"
  PROVE  Table(profiles') /\ SameRows(profiles, profiles', {}) /\ Deliberate(profiles, profiles')
<1>1. CASE ~Known(c)
  BY <1>1, NothingWritten DEF SetChainTrust
<1>2. CASE Known(c)
  <2> PICK row : row = [profiles[c] EXCEPT !.trust = trust, !.by = who]
    OBVIOUS
  <2>1. profiles' = [profiles EXCEPT ![c] = row]
    BY <1>2 DEF SetChainTrust
  <2>2. profiles[c] \in Profile
    BY <1>2 DEF Known, Table
  <2>3. row \in Profile /\ row.source = profiles[c].source /\ row.enabled = profiles[c].enabled
        /\ row.trust = trust /\ row.by = who
    BY <2>2 DEF Profile
  <2> QED BY <1>2, <2>1, <2>3 DEF Table, SameRows, Deliberate, Known
<1> QED BY <1>1, <1>2

LEMMA SetChainEnabledFacts ==
  ASSUME Table(profiles), NEW c, NEW b \in BOOLEAN, SetChainEnabled(c, b)
  PROVE  /\ Table(profiles') /\ SameRows(profiles, profiles', {c}) /\ Deliberate(profiles, profiles')
         /\ DOMAIN profiles' = DOMAIN profiles
         /\ \A d \in DOMAIN profiles : profiles'[d].source = profiles[d].source
         /\ ~b => OffIn(profiles', c)
<1>1. CASE ~Known(c)
  BY <1>1 DEF SetChainEnabled, Table, SameRows, Deliberate, OffIn, Known
<1>2. CASE Known(c)
  <2> PICK row : row = [profiles[c] EXCEPT !.enabled = b]
    OBVIOUS
  <2>1. profiles' = [profiles EXCEPT ![c] = row]
    BY <1>2 DEF SetChainEnabled
  <2>2. profiles[c] \in Profile
    BY <1>2 DEF Known, Table
  <2>3. row \in Profile /\ row.source = profiles[c].source /\ row.enabled = b
        /\ row.trust = profiles[c].trust
    BY <2>2 DEF Profile
  <2>4. Table(profiles') /\ SameRows(profiles, profiles', {c}) /\ Deliberate(profiles, profiles')
    BY <1>2, <2>1, <2>3 DEF Table, SameRows, Deliberate, Known
  <2>5. ~b => OffIn(profiles', c)
    BY <1>2, <2>1, <2>3 DEF OffIn, Known
  <2> QED BY <2>1, <2>3, <2>4, <2>5
<1> QED BY <1>1, <1>2

\* Statements that may be lost.
LEMMA AttemptErrorFacts ==
  ASSUME Table(profiles), NEW c, NEW e \in BOOLEAN, Attempt(SetChainError(c, e))
  PROVE  Table(profiles') /\ SameRows(profiles, profiles', {}) /\ Deliberate(profiles, profiles')
BY SetChainErrorFacts, NothingWritten DEF Attempt, Lost

LEMMA AttemptProfileFacts ==
  ASSUME Table(profiles), NEW c \in Chains, NEW n \in Nodes \cup {NoOne},
         NEW source \in {"config", "api"}, Attempt(UpsertChainProfile(c, n, source))
  PROVE  Table(profiles') /\ SameRows(profiles, profiles', {c}) /\ Deliberate(profiles, profiles')
<1>1. CASE UpsertChainProfile(c, n, source)
  BY <1>1, UpsertChainProfileFacts
<1>2. CASE UNCHANGED profiles
  BY <1>2, NothingWritten DEF SameRows
<1> QED BY <1>1, <1>2 DEF Attempt, Lost

LEMMA AttemptQuarantineFacts ==
  ASSUME Table(profiles), NEW c, Attempt(SetChainTrust(c, "quarantined", "daemon"))
  PROVE  Table(profiles') /\ SameRows(profiles, profiles', {}) /\ Deliberate(profiles, profiles')
<1>1. CASE SetChainTrust(c, "quarantined", "daemon")
  BY <1>1, SetChainTrustFacts DEF Trust
<1>2. CASE UNCHANGED profiles
  BY <1>2, NothingWritten
<1> QED BY <1>1, <1>2 DEF Attempt, Lost

-----------------------------------------------------------------------------
(* The chain set.                                                          *)

LEMMA AddFacts ==
  ASSUME NEW s \in Seq(Entry), NEW e \in Entry
  PROVE  /\ Append(s, e) \in Seq(Entry)
         /\ \A c : RunsIn(Append(s, e), c) <=> RunsIn(s, c) \/ c = e.id
         /\ Unique(s) /\ ~RunsIn(s, e.id) => Unique(Append(s, e))
         /\ Ordered(s) /\ ~e.config => Ordered(Append(s, e))
         /\ (\A i \in DOMAIN s : s[i].config) /\ e.config =>
              \A i \in DOMAIN Append(s, e) : Append(s, e)[i].config
<1> PICK r : r = Append(s, e)
  OBVIOUS
<1>1. /\ r \in Seq(Entry) /\ Len(r) = Len(s) + 1 /\ Len(s) \in Nat
      /\ \A i \in 1..Len(s) : r[i] = s[i]
      /\ r[Len(s) + 1] = e
      /\ DOMAIN s = 1..Len(s) /\ DOMAIN r = 1..(Len(s) + 1)
  OBVIOUS
<1>2. \A c : RunsIn(r, c) <=> RunsIn(s, c) \/ c = e.id
  BY <1>1 DEF RunsIn
<1>3. Unique(s) /\ ~RunsIn(s, e.id) => Unique(r)
  BY <1>1 DEF Unique, RunsIn
<1>4. Ordered(s) /\ ~e.config => Ordered(r)
  BY <1>1 DEF Ordered
<1>5. (\A i \in DOMAIN s : s[i].config) /\ e.config => \A i \in DOMAIN r : r[i].config
  BY <1>1
<1> QED BY <1>1, <1>2, <1>3, <1>4, <1>5

\* What is left of a sequence when one place is taken out.
LEMMA RemoveAtFacts ==
  ASSUME NEW s \in Seq(Entry), NEW k \in DOMAIN s
  PROVE  /\ RemoveAt(s, k) \in Seq(Entry)
         /\ Len(RemoveAt(s, k)) = Len(s) - 1
         /\ \A i \in 1..(Len(s) - 1) : RemoveAt(s, k)[i] = IF i < k THEN s[i] ELSE s[i + 1]
<1>1. PICK n \in Nat : n = Len(s)
  OBVIOUS
<1>2. k \in 1..n /\ DOMAIN s = 1..n /\ k \in Int
  BY <1>1
<1>3. PICK a : a = SubSeq(s, 1, k - 1)
  OBVIOUS
<1>4. PICK b : b = SubSeq(s, k + 1, n)
  OBVIOUS
<1>5. a \in Seq(Entry) /\ Len(a) = k - 1 /\ \A i \in 1..(k - 1) : a[i] = s[i]
  BY <1>1, <1>2, <1>3
<1>6. b \in Seq(Entry) /\ Len(b) = n - k /\ \A i \in 1..(n - k) : b[i] = s[i + k]
  <2>1. \A i \in (k + 1)..n : s[i] \in Entry
    BY <1>1, <1>2
  <2>2. /\ SubSeq(s, k + 1, n) \in Seq(Entry)
        /\ Len(SubSeq(s, k + 1, n)) = IF k + 1 <= n THEN n - (k + 1) + 1 ELSE 0
        /\ \A i \in 1..(n - (k + 1) + 1) : SubSeq(s, k + 1, n)[i] = s[(k + 1) + i - 1]
    <3>1. k + 1 \in Int /\ n \in Int
      BY <1>2
    <3> QED BY ONLY <2>1, <3>1, SubSeqProperties
  <2>3. n - (k + 1) + 1 = n - k /\ (~(k + 1 <= n) => n - k = 0)
    BY <1>2
  <2>4. ASSUME NEW i \in 1..(n - k) PROVE b[i] = s[i + k]
    <3>1. (k + 1) + i - 1 = i + k /\ i \in 1..(n - (k + 1) + 1)
      BY <1>2
    <3> QED BY ONLY <1>4, <2>2, <3>1
  <2>5. b \in Seq(Entry) /\ Len(b) = n - k
    BY <1>2, <1>4, <2>2, <2>3
  <2> QED BY <2>4, <2>5
<1>7. PICK r : r = a \o b
  OBVIOUS
<1>8. RemoveAt(s, k) = r
  BY <1>1, <1>3, <1>4, <1>7 DEF RemoveAt
<1>9. /\ r \in Seq(Entry) /\ Len(r) = Len(a) + Len(b)
      /\ \A i \in 1..(Len(a) + Len(b)) : r[i] = IF i <= Len(a) THEN a[i] ELSE b[i - Len(a)]
  BY ONLY <1>5, <1>6, <1>7, ConcatProperties
<1>10. Len(a) + Len(b) = n - 1
  BY <1>2, <1>5, <1>6
<1>11. ASSUME NEW i \in 1..(n - 1) PROVE r[i] = IF i < k THEN s[i] ELSE s[i + 1]
  <2>1. r[i] = IF i <= k - 1 THEN a[i] ELSE b[i - (k - 1)]
    BY <1>5, <1>9, <1>10
  <2>2. CASE i < k
    BY <1>2, <1>5, <2>1, <2>2
  <2>3. CASE ~(i < k)
    <3>1. i - (k - 1) \in 1..(n - k) /\ (i - (k - 1)) + k = i + 1 /\ ~(i <= k - 1)
      BY <1>2, <2>3
    <3> QED BY <1>6, <2>1, <2>3, <3>1
  <2> QED BY <2>2, <2>3
<1> QED BY <1>1, <1>8, <1>9, <1>10, <1>11

LEMMA RemoveFacts ==
  ASSUME set \in Seq(Entry), Unique(set), NEW c, RemoveEntry(c)
  PROVE  /\ set' \in Seq(Entry) /\ Unique(set')
         /\ \A d : RunsIn(set', d) <=> RunsIn(set, d) /\ d # c
         /\ Ordered(set) => Ordered(set')
         /\ (\A i \in DOMAIN set : set[i].config) => \A i \in DOMAIN set' : set'[i].config
<1>1. CASE ~Running(c)
  <2>1. set' = set
    BY <1>1 DEF RemoveEntry
  <2>2. \A d : RunsIn(set, d) => d # c
    BY <1>1 DEF Running, RunsIn
  <2> QED BY <2>1, <2>2
<1>2. CASE Running(c)
  <2>1. PICK k \in DOMAIN set : k = (CHOOSE i \in DOMAIN set : set[i].id = c) /\ set[k].id = c
    BY <1>2 DEF Running
  <2>2. set' = RemoveAt(set, k)
    BY <1>2, <2>1 DEF RemoveEntry
  <2>a. PICK n \in Nat : n = Len(set)
    OBVIOUS
  <2>b. k \in 1..n /\ DOMAIN set = 1..n
    BY <2>a
  <2>c. /\ set' \in Seq(Entry) /\ Len(set') = n - 1
        /\ \A i \in 1..(n - 1) : set'[i] = IF i < k THEN set[i] ELSE set[i + 1]
    BY <2>2, <2>a, RemoveAtFacts
  <2>d. DOMAIN set' = 1..(n - 1)
    BY <2>a, <2>b, <2>c
  \* Where the entry at i was before.
  <2> DEFINE P(i) == IF i < k THEN i ELSE i + 1
  <2>p. ASSUME NEW i \in 1..(n - 1)
        PROVE  P(i) \in 1..n /\ P(i) # k /\ set'[i] = set[P(i)]
    BY <2>b, <2>c
  <2>q. ASSUME NEW i \in 1..(n - 1), NEW j \in 1..(n - 1)
        PROVE  (i < j => P(i) < P(j)) /\ (P(i) = P(j) => i = j)
    BY <2>b
  <2>r. ASSUME NEW j \in 1..n, j # k PROVE \E i \in 1..(n - 1) : P(i) = j
    <3>1. CASE j < k
      BY <2>b, <3>1
    <3>2. CASE j > k
      <4>1. j - 1 \in 1..(n - 1) /\ P(j - 1) = j
        BY <2>b, <3>2
      <4> QED BY <4>1
    <3> QED BY <2>b, <2>r, <3>1, <3>2
  <2> HIDE DEF P
  <2>3. DOMAIN set = 1..n /\ DOMAIN set' = 1..(n - 1)
    BY <2>b, <2>d
  <2>4. Unique(set')
    BY <2>3, <2>p, <2>q DEF Unique
  <2>5. Ordered(set) => Ordered(set')
    BY <2>3, <2>p, <2>q DEF Ordered
  <2>6. (\A i \in DOMAIN set : set[i].config) => \A i \in DOMAIN set' : set'[i].config
    BY <2>3, <2>p
  <2>7. ASSUME NEW d PROVE RunsIn(set', d) <=> RunsIn(set, d) /\ d # c
    <3>1. ASSUME NEW i \in 1..(n - 1), set'[i].id = d PROVE RunsIn(set, d) /\ d # c
      BY <2>1, <2>3, <2>p, <3>1 DEF Unique, RunsIn
    <3>2. ASSUME NEW j \in 1..n, set[j].id = d, d # c PROVE RunsIn(set', d)
      <4>1. PICK i \in 1..(n - 1) : P(i) = j
        BY <2>1, <2>r, <3>2
      <4> QED BY <2>3, <2>p, <3>2, <4>1 DEF RunsIn
    <3> QED BY <2>3, <3>1, <3>2 DEF RunsIn
  <2> QED BY <2>c, <2>4, <2>5, <2>6, <2>7
<1> QED BY <1>1, <1>2

-----------------------------------------------------------------------------
(* The calls in progress.                                                  *)

LEMMA IdleFacts == Idle \in Call /\ Idle.op = "idle"
<1>1. ConfigChains \in Seq(ConfigRow) /\ ConfigChains # <<>>
  BY SupervisorAssumption DEF ConfigRow
<1>2. ConfigChains[1] \in ConfigRow
  BY <1>1
<1>3. ConfigChains[1].id \in Chains
  BY <1>2 DEF ConfigRow
<1> QED BY <1>3 DEF Idle, Call, Ops

LEMMA SetCallFacts ==
  ASSUME calls \in [Threads -> Call], NEW t \in Threads, NEW x \in Call,
         calls' = [calls EXCEPT ![t] = x]
  PROVE  /\ calls' \in [Threads -> Call] /\ calls'[t] = x
         /\ \A u \in Threads : u # t => calls'[u] = calls[u]
OBVIOUS

LEMMA ReturnFacts ==
  ASSUME calls \in [Threads -> Call], NEW t \in Threads, Return(t)
  PROVE  /\ calls' \in [Threads -> Call] /\ calls'[t] = Idle /\ calls'[t].op = "idle"
         /\ \A u \in Threads : u # t => calls'[u] = calls[u]
BY IdleFacts DEF Return

LEMMA GotoFacts ==
  ASSUME calls \in [Threads -> Call], NEW t \in Threads, NEW op \in Ops, Goto(t, op)
  PROVE  /\ calls' \in [Threads -> Call]
         /\ calls'[t].op = op /\ calls'[t].id = calls[t].id
         /\ \A u \in Threads : u # t => calls'[u] = calls[u]
<1>1. PICK x : x = [calls[t] EXCEPT !.op = op]
  OBVIOUS
<1>2. x \in Call /\ x.op = op /\ x.id = calls[t].id
  BY <1>1 DEF Call
<1>3. calls' = [calls EXCEPT ![t] = x]
  BY <1>1 DEF Goto
<1> QED BY <1>2, <1>3, SetCallFacts

\* A call that is not about chain c.
Elsewhere(x, c) == x.op = "idle" \/ x.id # c

\* What is left to do about a chain stays in the same hands when nobody working on it
\* moves, its row is not written, it is not added and startup does not come back to it.
LEMMA GoingKept ==
  ASSUME SupervisorType, NEW c \in Chains, Going(c, calls, set, profiles, phase, todo),
         NEW C, SameRows(profiles, profiles', C), c \notin C,
         RunsIn(set', c) => RunsIn(set, c),
         \A t \in Threads : \/ calls'[t] = calls[t]
                            \/ Elsewhere(calls[t], c) /\ Elsewhere(calls'[t], c),
         phase' = "stored" =>
           /\ phase = "stored"
           /\ \A i \in DOMAIN todo' : \E j \in DOMAIN todo : todo[j] = todo'[i]
  PROVE  Going(c, calls', set', profiles', phase', todo')
<1>1. \A t \in Threads : calls'[t].op # "idle" /\ calls'[t].id = c =>
        calls'[t].op \in {"stop", "disable", "stopDisabled"}
  BY DEF Going, Elsewhere
<1>2. ASSUME NEW t \in Operators, calls[t].id = c, calls[t].op \in {"stop", "stopDisabled", "disable"}
      PROVE  calls'[t] = calls[t]
  BY <1>2 DEF Elsewhere, Threads
<1>3. RunsIn(set', c) => \E t \in Operators :
        calls'[t].id = c /\ calls'[t].op \in {"stop", "stopDisabled"}
  BY <1>2 DEF Going
<1>4. ~OffIn(profiles', c) => ~OffIn(profiles, c)
  BY DEF OffIn, SameRows
<1>5. ~OffIn(profiles', c) => \E t \in Operators :
        calls'[t].id = c /\ calls'[t].op \in {"stop", "disable"}
  BY <1>2, <1>4 DEF Going
<1>6. ASSUME phase' = "stored", NEW i \in DOMAIN todo', todo'[i] = c
      PROVE  profiles'[c].source = "config"
  <2>1. PICK j \in DOMAIN todo : todo[j] = c
    BY <1>6
  <2>2. c \in DOMAIN profiles /\ profiles[c].source = "config"
    BY <1>6, <2>1 DEF Going, SupervisorType, TodoType
  <2> QED BY <2>2 DEF SameRows
<1> QED BY <1>1, <1>3, <1>5, <1>6 DEF Going

\* Nobody who starts a chain starts one that was asked to stop.
LEMMA StartersElsewhere ==
  ASSUME GoneInv, NEW c \in Chains, asked[c] = "stop", NEW t \in Threads,
         calls[t].op \in {"start"} \cup Starting
  PROVE  calls[t].id # c
BY DEF GoneInv, Going, Starting

\* The lock and the phases, when nobody begins to start a chain and no entry is added.
LEMMA LockKept ==
  ASSUME SupervisorType, LockInv, UNCHANGED <<phase, lock>>, Unique(set'),
         \A d : RunsIn(set', d) => RunsIn(set, d),
         \A u \in Threads : \/ calls'[u] = calls[u]
                            \/ u \in Operators /\ phase = "serving" /\ calls'[u].op \notin Starting
  PROVE  LockInv'
<1>1. Main \in Threads /\ Main \notin Operators /\ Operators \subseteq Threads
  BY SupervisorAssumption DEF Threads
<1>2. calls'[Main] = calls[Main]
  BY <1>1
<1>3. phase' # "serving" => \A t \in Operators : calls'[t] = Idle
  BY <1>1 DEF LockInv
<1>4. \A t \in Threads : calls'[t].op \in Starting => calls'[t] = calls[t]
  OBVIOUS
<1>5. \A t \in Threads : calls'[t].op \in Starting => lock' = t
  BY <1>4 DEF LockInv
<1>6. \A t \in Threads : calls'[t].op = "dial" => ~RunsIn(set', calls'[t].id)
  BY <1>4 DEF LockInv, Starting
<1> QED BY <1>2, <1>3, <1>5, <1>6 DEF LockInv

LEMMA AllIdle ==
  ASSUME LockInv, phase \in {"config", "down"}
  PROVE  \A t \in Threads : calls[t] = Idle /\ calls[t].op = "idle"
BY IdleFacts DEF LockInv, Threads

\* The steps that leave startup, the lock, the set and what was asked alone: those of
\* requests and indexers that end or write a row.
LEMMA PlainStep ==
  ASSUME SupervisorInv, UNCHANGED <<phase, launches, todo, set, lock, asked>>,
         Table(profiles'), SameRows(profiles, profiles', {}), indexers' \subseteq Indexer,
         UNCHANGED calls
  PROVE  SupervisorInv'
<1>1. SupervisorType'
  BY DEF SupervisorInv, SupervisorType, TodoType, SameRows
<1>2. LockInv'
  BY LockKept DEF SupervisorInv, LockInv
<1>3. OrderInv'
  BY DEF SupervisorInv, OrderInv
<1>4. GoneInv'
  <2> SUFFICES ASSUME NEW c \in Chains, asked[c] = "stop"
               PROVE  Going(c, calls', set', profiles', phase', todo')
    BY DEF GoneInv
  <2>1. Going(c, calls, set, profiles, phase, todo)
    BY DEF SupervisorInv, GoneInv
  <2> QED BY <2>1, GoingKept DEF SupervisorInv
<1> QED BY <1>1, <1>2, <1>3, <1>4 DEF SupervisorInv

-----------------------------------------------------------------------------
(* Startup and the end of the process.                                     *)

LEMMA SupervisorInitially == Init => SupervisorInv
<1> SUFFICES ASSUME Init PROVE SupervisorInv
  OBVIOUS
<1>1. SupervisorType
  BY IdleFacts, SupervisorAssumption
     DEF Init, SupervisorType, Table, TodoType, ConfigRow, Threads
<1>2. LockInv /\ OrderInv
  BY IdleFacts, SupervisorAssumption
     DEF Init, LockInv, OrderInv, Unique, Ordered, Starting, Threads
<1>3. GoneInv
  BY DEF Init, GoneInv
<1> QED BY <1>1, <1>2, <1>3 DEF SupervisorInv

LEMMA StartConfigKeeps == ASSUME SupervisorInv, StartConfigChain PROVE SupervisorInv'
<1>1. PICK c : c = Head(todo)
  OBVIOUS
<1>2. /\ phase = "config" /\ todo \in Seq(ConfigRow) /\ todo # <<>>
      /\ c \in ConfigRow /\ c.id \in Chains /\ c.node \in Nodes /\ Tail(todo) \in Seq(ConfigRow)
  <2>1. phase = "config" /\ todo \in Seq(ConfigRow) /\ todo # <<>>
    BY DEF SupervisorInv, SupervisorType, TodoType, StartConfigChain
  <2>2. c \in ConfigRow /\ Tail(todo) \in Seq(ConfigRow)
    BY <1>1, <2>1
  <2> QED BY <2>1, <2>2 DEF ConfigRow
<1>3. PICK e : e = [id |-> c.id, node |-> c.node, launch |-> launches + 1, config |-> TRUE]
  OBVIOUS
<1>4. e \in Entry /\ e.id = c.id /\ e.config
  BY <1>2, <1>3 DEF Entry, SupervisorInv, SupervisorType
<1>5. /\ ~RunsIn(set, e.id) /\ set' = Append(set, e)
      /\ Attempt(UpsertChainProfile(c.id, c.node, "config"))
      /\ Launch(e) /\ asked' = [asked EXCEPT ![c.id] = "run"]
      /\ launches' = launches + 1 /\ todo' = Tail(todo) /\ UNCHANGED <<phase, lock, calls>>
  BY <1>1, <1>3, <1>4 DEF StartConfigChain, NextEntry, AddEntry, Running, RunsIn
<1>6. Table(profiles') /\ SameRows(profiles, profiles', {c.id})
  BY <1>2, <1>5, AttemptProfileFacts DEF SupervisorInv, SupervisorType
<1>7. /\ set' \in Seq(Entry) /\ Unique(set')
      /\ \A d : RunsIn(set', d) <=> RunsIn(set, d) \/ d = c.id
      /\ \A i \in DOMAIN set' : set'[i].config
  BY <1>2, <1>4, <1>5, AddFacts DEF SupervisorInv, SupervisorType, LockInv, OrderInv
<1>8. indexers' \subseteq Indexer
  BY <1>4, <1>5 DEF Launch, Indexer, SupervisorInv, SupervisorType
<1>9. SupervisorType'
  BY <1>2, <1>5, <1>6, <1>7, <1>8 DEF SupervisorInv, SupervisorType, TodoType
<1>10. \A t \in Threads : calls[t].op = "idle"
  BY <1>2, AllIdle DEF SupervisorInv
<1>11. LockInv'
  BY <1>5, <1>7, <1>10 DEF SupervisorInv, LockInv, Starting
<1>12. OrderInv'
  BY <1>7 DEF OrderInv, Ordered
<1>13. GoneInv'
  <2> SUFFICES ASSUME NEW d \in Chains, asked'[d] = "stop"
               PROVE  Going(d, calls', set', profiles', phase', todo')
    BY DEF GoneInv
  <2>1. d # c.id /\ asked[d] = "stop"
    BY <1>2, <1>5 DEF SupervisorInv, SupervisorType
  <2>2. Going(d, calls, set, profiles, phase, todo) /\ phase' # "stored"
    BY <1>2, <1>5, <2>1 DEF SupervisorInv, GoneInv
  <2>3. (RunsIn(set', d) => RunsIn(set, d)) /\ d \notin {c.id} /\ UNCHANGED calls
    BY <1>5, <1>7, <2>1
  <2> QED BY <1>6, <2>2, <2>3, GoingKept DEF SupervisorInv
<1> QED BY <1>9, <1>11, <1>12, <1>13 DEF SupervisorInv

LEMMA EndedKeeps == ASSUME SupervisorInv, Ended PROVE SupervisorInv'
<1>1. \A t \in Threads : calls'[t] = Idle /\ calls'[t].op = "idle"
  BY IdleFacts DEF Ended
<1>2. set' = <<>> /\ phase' = "down" /\ UNCHANGED profiles
  BY DEF Ended
<1>3. SupervisorType'
  BY <1>2, IdleFacts DEF Ended, SupervisorInv, SupervisorType, TodoType
<1>4. LockInv' /\ OrderInv'
  BY <1>1, <1>2 DEF LockInv, OrderInv, Unique, Ordered, Starting, Threads, RunsIn
<1>5. GoneInv'
  <2> SUFFICES ASSUME NEW c \in Chains, asked'[c] = "stop"
               PROVE  Going(c, calls', set', profiles', phase', todo')
    BY DEF GoneInv
  <2>1. asked[c] = "stop" /\ ~\E t \in Operators : calls[t].op # "idle" /\ calls[t].id = c
    BY DEF Ended
  <2>2. OffIn(profiles, c)
    BY <2>1 DEF SupervisorInv, GoneInv, Going
  <2>3. ~RunsIn(set', c)
    BY <1>2 DEF RunsIn
  <2> QED BY <1>1, <1>2, <2>2, <2>3 DEF Going
<1> QED BY <1>3, <1>4, <1>5 DEF SupervisorInv

\* The table's enabled rows, in some order.
LEMMA SetToSeqFacts ==
  ASSUME NEW S, IsFiniteSet(S)
  PROVE  SetToSeq(S) \in Seq(S)
<1>1. PICK n \in Nat : ExistsBijection(1..n, S)
  BY FS_NatBijection
<1>2. Cardinality(S) = n
  BY <1>1, FS_CountingElements
<1>3. PICK f \in Bijection(1..n, S) : TRUE
  BY <1>1 DEF ExistsBijection
<1>4. f \in [1..n -> S] /\ IsInjective(f)
  BY <1>3 DEF Bijection, Injection, IsInjective
<1>5. SetToSeq(S) \in [1..n -> S]
  BY <1>2, <1>4 DEF SetToSeq
<1> QED BY <1>5

LEMMA ListStoredKeeps == ASSUME SupervisorInv, ListStored PROVE SupervisorInv'
<1>1. /\ phase = "config" /\ phase' = "stored"
      /\ UNCHANGED <<launches, set, indexers, lock, calls, profiles, asked>>
  BY DEF ListStored
<1>2. PICK S : S = {c \in DOMAIN profiles : profiles[c].enabled}
  OBVIOUS
<1>3. S \subseteq Chains /\ IsFiniteSet(S)
  BY <1>2, SupervisorAssumption, FS_Subset DEF SupervisorInv, SupervisorType, Table
<1>4. todo' \in Seq(S)
  <2>1. todo' = SetToSeq(S) \/ todo' = <<>>
    BY <1>2 DEF ListStored
  <2>2. SetToSeq(S) \in Seq(S)
    BY <1>3, SetToSeqFacts
  <2>3. <<>> \in Seq(S)
    OBVIOUS
  <2> QED BY <2>1, <2>2, <2>3
<1>5. todo' \in Seq(Chains) /\ \A i \in DOMAIN todo' : todo'[i] \in S
  BY <1>3, <1>4
<1>6. SupervisorType'
  BY <1>1, <1>2, <1>5 DEF SupervisorInv, SupervisorType, TodoType
<1>7. LockInv' /\ OrderInv'
  BY <1>1 DEF SupervisorInv, LockInv, OrderInv
<1>8. GoneInv'
  <2> SUFFICES ASSUME NEW c \in Chains, asked[c] = "stop"
               PROVE  Going(c, calls', set', profiles', phase', todo')
    BY <1>1 DEF GoneInv
  <2>1. Going(c, calls, set, profiles, phase, todo) /\ \A t \in Threads : calls[t].op = "idle"
    BY <1>1, AllIdle DEF SupervisorInv, GoneInv
  <2>2. OffIn(profiles, c)
    BY <2>1 DEF Going, Threads
  <2>3. ASSUME NEW i \in DOMAIN todo', todo'[i] = c PROVE profiles'[c].source = "config"
    BY <1>1, <1>2, <1>5, <2>2, <2>3 DEF OffIn
  <2> QED BY <1>1, <2>1, <2>3 DEF Going
<1> QED BY <1>6, <1>7, <1>8 DEF SupervisorInv

LEMMA RestartStoredKeeps == ASSUME SupervisorInv, RestartStored PROVE SupervisorInv'
<1>1. PICK c : c = Head(todo)
  OBVIOUS
<1>2. /\ phase = "stored" /\ todo # <<>> /\ calls[Main] = Idle /\ todo' = Tail(todo)
      /\ UNCHANGED <<phase, launches, set, indexers, lock, profiles, asked>>
      /\ todo \in Seq(Chains) /\ \A i \in DOMAIN todo : todo[i] \in DOMAIN profiles
  BY DEF RestartStored, SupervisorInv, SupervisorType, TodoType
<1>3. /\ todo' \in Seq(Chains) /\ c \in Chains /\ c = todo[1] /\ 1 \in DOMAIN todo
      /\ \A i \in DOMAIN todo' : i + 1 \in DOMAIN todo /\ todo'[i] = todo[i + 1]
  BY <1>1, <1>2
<1>4. c \in DOMAIN profiles /\ profiles[c] \in Profile
  BY <1>2, <1>3 DEF SupervisorInv, SupervisorType, Table
<1>5. PICK x : x = [op |-> "start", id |-> c, node |-> profiles[c].node, launch |-> 0]
  OBVIOUS
<1>6. x \in Call /\ x.op = "start" /\ x.id = c
  BY <1>3, <1>4, <1>5 DEF Call, Ops, Profile
<1>7. \/ calls' = calls
      \/ calls' = [calls EXCEPT ![Main] = x] /\ profiles[c].source # "config"
  BY <1>1, <1>5 DEF RestartStored
<1>8. Main \in Threads /\ Main \notin Operators /\ calls \in [Threads -> Call]
  BY SupervisorAssumption DEF Threads, SupervisorInv, SupervisorType
<1>9. /\ calls' \in [Threads -> Call]
      /\ \A u \in Threads : u # Main => calls'[u] = calls[u]
      /\ calls'[Main] = Idle \/ (calls'[Main] = x /\ profiles[c].source # "config")
  BY <1>2, <1>6, <1>7, <1>8
<1>10. SupervisorType'
  BY <1>2, <1>3, <1>9 DEF SupervisorInv, SupervisorType, TodoType
<1>11. LockInv'
  <2>1. calls'[Main].op \in {"idle", "start"}
    BY <1>6, <1>9, IdleFacts
  <2>2. \A u \in Threads : calls'[u].op \in Starting => u # Main
    BY <2>1 DEF Starting
  <2> QED BY <1>2, <1>8, <1>9, <2>1, <2>2 DEF SupervisorInv, LockInv, Threads, Starting
<1>12. OrderInv'
  BY <1>2 DEF SupervisorInv, OrderInv
<1>13. GoneInv'
  <2> SUFFICES ASSUME NEW d \in Chains, asked[d] = "stop"
               PROVE  Going(d, calls', set', profiles', phase', todo')
    BY <1>2 DEF GoneInv
  <2>1. Going(d, calls, set, profiles, phase, todo)
    BY DEF SupervisorInv, GoneInv
  <2>2. calls'[Main] = x => d # c
    BY <1>2, <1>3, <1>6, <1>9, <2>1, IdleFacts DEF Going
  <2>3. Elsewhere(calls[Main], d) /\ Elsewhere(calls'[Main], d)
    BY <1>2, <1>6, <1>9, <2>2, IdleFacts DEF Elsewhere
  <2>4. \A t \in Threads : calls'[t] = calls[t] \/ (Elsewhere(calls[t], d) /\ Elsewhere(calls'[t], d))
    BY <1>9, <2>3
  <2>5. SameRows(profiles, profiles', {}) /\ (RunsIn(set', d) => RunsIn(set, d))
    BY <1>2 DEF SameRows
  <2>6. \A i \in DOMAIN todo' : \E j \in DOMAIN todo : todo[j] = todo'[i]
    BY <1>3
  <2> QED BY <1>2, <2>1, <2>4, <2>5, <2>6, GoingKept DEF SupervisorInv
<1> QED BY <1>10, <1>11, <1>12, <1>13 DEF SupervisorInv

\* Beginning to serve, and the next process.
LEMMA PhaseKeeps == ASSUME SupervisorInv, Serve \/ Restart PROVE SupervisorInv'
<1>1. /\ UNCHANGED <<launches, set, indexers, lock, calls, profiles, asked>>
      /\ phase' # "stored" /\ phase' \in {"serving", "config"}
      /\ phase' = "serving" => calls[Main] = Idle /\ phase = "stored"
      /\ phase' = "config" => phase = "down" /\ todo' = ConfigChains
  BY DEF Serve, Restart
<1>2. SupervisorType'
  BY <1>1, SupervisorAssumption DEF SupervisorInv, SupervisorType, TodoType, ConfigRow
<1>3. LockInv'
  BY <1>1 DEF SupervisorInv, LockInv
<1>4. phase' = "config" => \A i \in DOMAIN set : set[i].config
  BY <1>1 DEF SupervisorInv, OrderInv
<1>5. OrderInv'
  BY <1>1, <1>4 DEF SupervisorInv, OrderInv
<1>6. GoneInv'
  BY <1>1 DEF SupervisorInv, GoneInv, Going
<1> QED BY <1>2, <1>3, <1>5, <1>6 DEF SupervisorInv

-----------------------------------------------------------------------------
(* StartStored.                                                            *)

LEMMA BeginStartKeeps ==
  ASSUME SupervisorInv, NEW t \in Threads, BeginStart(t) PROVE SupervisorInv'
<1>1. /\ calls[t].op = "start" /\ lock = NoOne
      /\ UNCHANGED <<phase, launches, todo, set, indexers, profiles, asked>>
      /\ calls \in [Threads -> Call]
  BY DEF BeginStart, process, SupervisorInv, SupervisorType
<1>2. /\ calls' \in [Threads -> Call]
      /\ \A u \in Threads : u # t => calls'[u] = calls[u]
      /\ calls[t].op # "idle"
      /\ \/ calls'[t] = Idle /\ lock' = lock
         \/ /\ calls'[t].op = "dial" /\ calls'[t].id = calls[t].id /\ lock' = t
            /\ ~RunsIn(set, calls[t].id)
  <2>1. CASE Running(calls[t].id)
    BY <1>1, <2>1, ReturnFacts DEF BeginStart
  <2>2. CASE ~Running(calls[t].id)
    BY <1>1, <2>2, GotoFacts DEF BeginStart, Ops, Running, RunsIn
  <2> QED BY <2>1, <2>2
<1>3. SupervisorType' /\ OrderInv'
  BY <1>1, <1>2 DEF SupervisorInv, SupervisorType, OrderInv, TodoType
<1>4. LockInv'
  <2>1. \A u \in Threads : u # t => calls'[u].op \notin Starting
    BY <1>1, <1>2, SupervisorAssumption DEF SupervisorInv, LockInv, Threads
  <2>2. calls[t] # Idle
    BY <1>1, IdleFacts
  <2>3. \A u \in Operators : phase # "serving" => calls'[u] = Idle
    BY <1>2, <2>2 DEF SupervisorInv, LockInv, Threads
  <2>4. phase # "stored" => calls'[Main] = Idle
    BY <1>2, <2>2 DEF SupervisorInv, LockInv, Threads
  <2>5. calls'[Main].op \in {"idle", "start"} \cup Starting
    BY <1>2, IdleFacts DEF SupervisorInv, LockInv, Threads, Starting
  <2>6. ASSUME NEW u \in Threads, calls'[u].op \in Starting
        PROVE  u = t /\ lock' = u /\ ~RunsIn(set', calls'[u].id)
    BY <1>1, <1>2, <2>1, <2>6, IdleFacts DEF Starting
  <2> QED BY <1>1, <2>3, <2>4, <2>5, <2>6 DEF SupervisorInv, LockInv, Starting
<1>5. GoneInv'
  <2> SUFFICES ASSUME NEW d \in Chains, asked[d] = "stop"
               PROVE  Going(d, calls', set', profiles', phase', todo')
    BY <1>1 DEF GoneInv
  <2>1. Going(d, calls, set, profiles, phase, todo) /\ calls[t].id # d
    BY <1>1, StartersElsewhere DEF SupervisorInv, GoneInv
  <2>2. \A u \in Threads : calls'[u] = calls[u] \/ (Elsewhere(calls[u], d) /\ Elsewhere(calls'[u], d))
    BY <1>2, <2>1, IdleFacts DEF Elsewhere
  <2>3. SameRows(profiles, profiles', {})
    BY <1>1 DEF SameRows
  <2> QED BY <1>1, <2>1, <2>2, <2>3, GoingKept DEF SupervisorInv
<1> QED BY <1>3, <1>4, <1>5 DEF SupervisorInv

\* Whoever is starting a chain holds the lock: nobody else is.
LEMMA OneStarter ==
  ASSUME LockInv, NEW t \in Threads, calls[t].op \in Starting
  PROVE  \A u \in Threads : u # t => calls[u].op \notin Starting
BY DEF LockInv

\* A starter that goes on to another step of StartStored, or ends, with the lock.
LEMMA StarterKeepsLock ==
  ASSUME SupervisorType, LockInv, NEW t \in Threads, calls[t].op \in Starting,
         UNCHANGED phase, Unique(set'),
         \A u \in Threads : u # t => calls'[u] = calls[u],
         calls'[t] = Idle \/ (calls'[t].op \in {"persist", "launch"} /\ lock' = t)
  PROVE  LockInv'
<1>1. \A u \in Threads : u # t => calls'[u].op \notin Starting
  BY OneStarter
<1>2. calls[t] # Idle
  BY IdleFacts DEF Starting
<1>3. \A u \in Operators : phase # "serving" => calls'[u] = Idle
  BY <1>2 DEF LockInv, Threads
<1>4. phase # "stored" => calls'[Main] = Idle
  BY <1>2 DEF LockInv, Threads
<1>5. calls'[Main].op \in {"idle", "start"} \cup Starting
  BY IdleFacts DEF LockInv, Threads, Starting
<1>6. ASSUME NEW u \in Threads, calls'[u].op \in Starting PROVE u = t /\ lock' = u
  BY <1>1, <1>6, IdleFacts DEF Starting
<1>7. ASSUME NEW u \in Threads PROVE calls'[u].op # "dial"
  BY <1>1, IdleFacts DEF Starting
<1> QED BY <1>3, <1>4, <1>5, <1>6, <1>7 DEF LockInv

\* ... and what it does is about a chain nobody asked to stop.
LEMMA StarterKeepsGone ==
  ASSUME SupervisorInv, NEW t \in Threads, calls[t].op \in Starting,
         UNCHANGED <<phase, todo, asked>>, SameRows(profiles, profiles', {calls[t].id}),
         \A d : RunsIn(set', d) => RunsIn(set, d) \/ d = calls[t].id,
         \A u \in Threads : u # t => calls'[u] = calls[u],
         calls'[t] = Idle \/ calls'[t].id = calls[t].id
  PROVE  GoneInv'
<1> SUFFICES ASSUME NEW d \in Chains, asked[d] = "stop"
             PROVE  Going(d, calls', set', profiles', phase', todo')
  BY DEF GoneInv
<1>1. Going(d, calls, set, profiles, phase, todo) /\ calls[t].id # d
  BY StartersElsewhere DEF SupervisorInv, GoneInv
<1>2. \A u \in Threads : calls'[u] = calls[u] \/ (Elsewhere(calls[u], d) /\ Elsewhere(calls'[u], d))
  BY <1>1, IdleFacts DEF Elsewhere
<1>3. d \notin {calls[t].id} /\ (RunsIn(set', d) => RunsIn(set, d))
  BY <1>1
<1> QED BY <1>1, <1>2, <1>3, GoingKept DEF SupervisorInv

LEMMA DialAndAddKeeps ==
  ASSUME SupervisorInv, NEW t \in Threads, DialAndAdd(t) PROVE SupervisorInv'
<1>1. /\ calls[t].op = "dial" /\ UNCHANGED <<phase, todo, indexers, asked>>
      /\ calls \in [Threads -> Call] /\ calls[t] \in Call /\ calls[t].op \in Starting
      /\ set \in Seq(Entry) /\ Unique(set) /\ ~RunsIn(set, calls[t].id)
  BY DEF DialAndAdd, SupervisorInv, SupervisorType, LockInv, Starting
<1>2. phase \notin {"config", "down"}
  BY <1>1, AllIdle DEF SupervisorInv
<1>3. CASE \E e \in Entry : /\ e.id = calls[t].id /\ ~e.config /\ e.launch = launches + 1
                            /\ AddEntry(e) /\ launches' = e.launch
                            /\ calls' = [calls EXCEPT ![t].op = "persist", ![t].launch = e.launch]
                            /\ UNCHANGED <<lock, profiles>>
  <2>1. PICK e \in Entry : /\ e.id = calls[t].id /\ ~e.config /\ e.launch = launches + 1
                           /\ AddEntry(e) /\ launches' = e.launch
                           /\ calls' = [calls EXCEPT ![t].op = "persist", ![t].launch = e.launch]
                           /\ UNCHANGED <<lock, profiles>>
    BY <1>3
  <2>2. PICK x : x = [calls[t] EXCEPT !.op = "persist", !.launch = e.launch]
    OBVIOUS
  <2>3. x \in Call /\ x.op = "persist" /\ x.id = calls[t].id
    BY <1>1, <2>2 DEF Call, Ops, Entry
  <2>4. calls' = [calls EXCEPT ![t] = x]
    BY <2>1, <2>2
  <2>5. /\ calls' \in [Threads -> Call] /\ calls'[t] = x
        /\ \A u \in Threads : u # t => calls'[u] = calls[u]
    BY <1>1, <2>3, <2>4, SetCallFacts
  <2>6. /\ set' \in Seq(Entry) /\ Unique(set') /\ (Ordered(set) => Ordered(set'))
        /\ \A d : RunsIn(set', d) => RunsIn(set, d) \/ d = calls[t].id
    BY <1>1, <2>1, AddFacts DEF AddEntry
  <2>7. SupervisorType'
    BY <1>1, <2>1, <2>5, <2>6 DEF SupervisorInv, SupervisorType, TodoType
  <2>8. lock' = t
    BY <1>1, <2>1 DEF SupervisorInv, LockInv
  <2>9. LockInv'
    BY <1>1, <2>3, <2>5, <2>6, <2>8, StarterKeepsLock DEF SupervisorInv
  <2>10. OrderInv'
    BY <1>1, <1>2, <2>6 DEF SupervisorInv, OrderInv
  <2>11. SameRows(profiles, profiles', {calls[t].id})
    BY <2>1 DEF SameRows
  <2>12. GoneInv'
    BY <1>1, <2>3, <2>5, <2>6, <2>11, StarterKeepsGone
  <2> QED BY <2>7, <2>9, <2>10, <2>12 DEF SupervisorInv
<1>4. CASE Table(profiles') /\ SameRows(profiles, profiles', {}) /\ Return(t)
           /\ lock' = NoOne /\ UNCHANGED <<set, launches>>
  <2>1. /\ calls' \in [Threads -> Call] /\ calls'[t] = Idle
        /\ \A u \in Threads : u # t => calls'[u] = calls[u]
    BY <1>1, <1>4, ReturnFacts
  <2>2. SupervisorType' /\ OrderInv'
    BY <1>1, <1>4, <2>1 DEF SupervisorInv, SupervisorType, TodoType, SameRows, OrderInv
  <2>3. LockInv'
    BY <1>1, <1>4, <2>1, StarterKeepsLock DEF SupervisorInv
  <2>4. SameRows(profiles, profiles', {calls[t].id})
    BY <1>4 DEF SameRows
  <2>5. GoneInv'
    BY <1>1, <1>4, <2>1, <2>4, StarterKeepsGone
  <2> QED BY <2>2, <2>3, <2>5 DEF SupervisorInv
<1> QED
  <2>1. PICK e : e = NextEntry(calls[t].id, calls[t].node, FALSE)
    OBVIOUS
  <2>2. e \in Entry /\ e.id = calls[t].id /\ ~e.config /\ e.launch = launches + 1
    BY <1>1, <2>1 DEF NextEntry, Entry, Call, SupervisorInv, SupervisorType
  <2>3. Table(profiles)
    BY DEF SupervisorInv, SupervisorType
  <2>4. CASE Reaches(calls[t].id, calls[t].node, FALSE) /\ AddEntry(e) /\ launches' = e.launch
             /\ calls' = [calls EXCEPT ![t].op = "persist", ![t].launch = e.launch]
             /\ UNCHANGED <<lock, profiles, trouble>>
    BY <1>3, <2>2, <2>4
  <2>5. CASE Attempt(SetChainError(calls[t].id, TRUE)) /\ Return(t) /\ lock' = NoOne
             /\ UNCHANGED <<set, launches>>
    BY <1>4, <2>3, <2>5, AttemptErrorFacts
  <2>6. CASE SetChainError(calls[t].id, TRUE) /\ Return(t) /\ lock' = NoOne
             /\ UNCHANGED <<set, launches>>
    BY <1>4, <2>3, <2>6, SetChainErrorFacts
  <2> QED BY <2>1, <2>4, <2>5, <2>6 DEF DialAndAdd

LEMMA PersistKeeps ==
  ASSUME SupervisorInv, NEW t \in Threads, Persist(t) PROVE SupervisorInv'
<1>1. /\ calls[t].op = "persist" /\ UNCHANGED <<phase, launches, todo, set, indexers, asked>>
      /\ calls \in [Threads -> Call] /\ calls[t] \in Call /\ calls[t].op \in Starting
      /\ Table(profiles) /\ lock = t
  BY DEF Persist, SupervisorInv, SupervisorType, LockInv, Starting, process
<1>2. calls[t].id \in Chains /\ calls[t].node \in Nodes \cup {NoOne}
  BY <1>1 DEF Call
<1>3. /\ Table(profiles') /\ SameRows(profiles, profiles', {calls[t].id})
      /\ calls' \in [Threads -> Call]
      /\ \A u \in Threads : u # t => calls'[u] = calls[u]
      /\ calls'[t] = Idle \/ (calls'[t].op = "launch" /\ calls'[t].id = calls[t].id /\ lock' = t)
  <2>1. CASE UpsertChainProfile(calls[t].id, calls[t].node, "api") /\ Goto(t, "launch")
             /\ UNCHANGED <<lock, trouble>>
    BY <1>1, <1>2, <2>1, UpsertChainProfileFacts, GotoFacts DEF Ops
  <2>2. CASE UNCHANGED profiles /\ Return(t)
    BY <1>1, <2>2, NothingWritten, ReturnFacts DEF SameRows
  <2> QED BY <2>1, <2>2 DEF Persist, Lost
<1>4. SupervisorType' /\ OrderInv'
  BY <1>1, <1>3 DEF SupervisorInv, SupervisorType, TodoType, SameRows, OrderInv
<1>5. LockInv'
  BY <1>1, <1>3, StarterKeepsLock DEF SupervisorInv, LockInv
<1>6. GoneInv'
  BY <1>1, <1>3, StarterKeepsGone
<1> QED BY <1>4, <1>5, <1>6 DEF SupervisorInv

LEMMA ClearAndLaunchKeeps ==
  ASSUME SupervisorInv, NEW t \in Threads, ClearAndLaunch(t) PROVE SupervisorInv'
<1>1. /\ calls[t].op = "launch" /\ UNCHANGED <<phase, launches, todo, set, asked>>
      /\ calls \in [Threads -> Call] /\ calls[t] \in Call /\ calls[t].op \in Starting
      /\ Table(profiles) /\ Attempt(SetChainError(calls[t].id, FALSE)) /\ Return(t)
  BY DEF ClearAndLaunch, SupervisorInv, SupervisorType, Starting, process
<1>2. PICK e : e = [id |-> calls[t].id, node |-> calls[t].node, launch |-> calls[t].launch,
                    config |-> FALSE]
  OBVIOUS
<1>3. e \in Entry /\ Launch(e)
  BY <1>1, <1>2 DEF Entry, Call, ClearAndLaunch
<1>4. indexers' \subseteq Indexer
  BY <1>3 DEF Launch, Indexer, SupervisorInv, SupervisorType
<1>5. /\ calls' \in [Threads -> Call] /\ calls'[t] = Idle
      /\ \A u \in Threads : u # t => calls'[u] = calls[u]
  BY <1>1, ReturnFacts
<1>6. Table(profiles') /\ SameRows(profiles, profiles', {})
  BY <1>1, AttemptErrorFacts
<1>7. SupervisorType' /\ OrderInv'
  BY <1>1, <1>4, <1>5, <1>6 DEF SupervisorInv, SupervisorType, TodoType, SameRows, OrderInv
<1>8. LockInv'
  BY <1>1, <1>5, StarterKeepsLock DEF SupervisorInv, LockInv
<1>9. SameRows(profiles, profiles', {calls[t].id})
  BY <1>6 DEF SameRows
<1>10. GoneInv'
  BY <1>1, <1>5, <1>9, StarterKeepsGone
<1> QED BY <1>7, <1>8, <1>10 DEF SupervisorInv

-----------------------------------------------------------------------------
(* The requests.                                                           *)

\* A chain other than the one a request is about.
LEMMA RequestKeepsOther ==
  ASSUME SupervisorInv, NEW t \in Operators, NEW c \in Chains, NEW d \in Chains, d # c,
         asked'[d] = "stop", asked'[d] = asked[d],
         UNCHANGED <<phase, todo>>, SameRows(profiles, profiles', {c}),
         RunsIn(set', d) => RunsIn(set, d),
         \A u \in Threads : u # t => calls'[u] = calls[u],
         calls'[t] = calls[t] \/ (Elsewhere(calls[t], d) /\ Elsewhere(calls'[t], d))
  PROVE  Going(d, calls', set', profiles', phase', todo')
<1>1. Going(d, calls, set, profiles, phase, todo)
  BY DEF SupervisorInv, GoneInv
<1>2. \A u \in Threads : calls'[u] = calls[u] \/ (Elsewhere(calls[u], d) /\ Elsewhere(calls'[u], d))
  OBVIOUS
<1>3. d \notin {c}
  OBVIOUS
<1> QED BY <1>1, <1>2, <1>3, GoingKept DEF SupervisorInv

\* What Ask says of the chain and of the others.
LEMMA AskFacts ==
  ASSUME SupervisorType, NEW t, NEW c \in Chains, NEW what \in {"run", "stop"}, Ask(t, c, what)
  PROVE  /\ asked' \in [Chains -> {"run", "stop", "both"}]
         /\ \A d \in Chains : d # c => asked'[d] = asked[d]
         /\ asked'[c] = "stop" =>
              what = "stop" /\ \A u \in Operators : u # t => Elsewhere(calls[u], c)
BY DEF Ask, SupervisorType, Elsewhere

LEMMA AddChainKeeps ==
  ASSUME SupervisorInv, NEW t \in Operators, NEW c \in Chains, NEW n \in Nodes, AddChain(t, c, n)
  PROVE  SupervisorInv'
<1>1. PICK x : x = [op |-> "start", id |-> c, node |-> n, launch |-> 0]
  OBVIOUS
<1>2. x \in Call /\ x.op = "start" /\ x.id = c
  BY <1>1 DEF Call, Ops
<1>3. /\ phase = "serving" /\ calls[t] = Idle /\ calls' = [calls EXCEPT ![t] = x]
      /\ UNCHANGED <<phase, launches, todo, set, indexers, lock, profiles>>
      /\ Ask(t, c, "run") /\ t \in Threads
  BY <1>1 DEF AddChain, Request, process, Threads
<1>4. /\ calls' \in [Threads -> Call] /\ calls'[t] = x
      /\ \A u \in Threads : u # t => calls'[u] = calls[u]
  BY <1>2, <1>3, SetCallFacts DEF SupervisorInv, SupervisorType
<1>5. /\ asked' \in [Chains -> {"run", "stop", "both"}] /\ asked'[c] # "stop"
      /\ \A d \in Chains : d # c => asked'[d] = asked[d]
  BY <1>3, AskFacts DEF SupervisorInv
<1>6. SupervisorType' /\ OrderInv'
  BY <1>3, <1>4, <1>5 DEF SupervisorInv, SupervisorType, TodoType, OrderInv
<1>7. LockInv'
  <2>1. \A u \in Threads : \/ calls'[u] = calls[u]
                           \/ u \in Operators /\ phase = "serving" /\ calls'[u].op \notin Starting
    BY <1>2, <1>3, <1>4 DEF Starting
  <2> QED BY <1>3, <2>1, LockKept DEF SupervisorInv, LockInv
<1>8. GoneInv'
  <2> SUFFICES ASSUME NEW d \in Chains, asked'[d] = "stop"
               PROVE  Going(d, calls', set', profiles', phase', todo')
    BY DEF GoneInv
  <2>1. d # c /\ asked'[d] = asked[d]
    BY <1>5
  <2>2. Elsewhere(calls[t], d) /\ Elsewhere(calls'[t], d)
    BY <1>2, <1>3, <1>4, <2>1, IdleFacts DEF Elsewhere
  <2>3. SameRows(profiles, profiles', {c})
    BY <1>3 DEF SameRows
  <2> QED BY <1>3, <1>4, <2>1, <2>2, <2>3, RequestKeepsOther
<1> QED BY <1>6, <1>7, <1>8 DEF SupervisorInv

LEMMA DeleteChainKeeps ==
  ASSUME SupervisorInv, NEW t \in Operators, NEW c \in Chains, DeleteChain(t, c)
  PROVE  SupervisorInv'
<1>1. PICK x : x = [op |-> "stop", id |-> c, node |-> NoOne, launch |-> 0]
  OBVIOUS
<1>2. x \in Call /\ x.op = "stop" /\ x.id = c
  BY <1>1 DEF Call, Ops
<1>3. /\ phase = "serving" /\ calls[t] = Idle /\ calls' = [calls EXCEPT ![t] = x]
      /\ UNCHANGED <<phase, launches, todo, set, indexers, lock, profiles>>
      /\ Ask(t, c, "stop") /\ t \in Threads
  BY <1>1 DEF DeleteChain, Request, process, Threads
<1>4. /\ calls' \in [Threads -> Call] /\ calls'[t] = x
      /\ \A u \in Threads : u # t => calls'[u] = calls[u]
  BY <1>2, <1>3, SetCallFacts DEF SupervisorInv, SupervisorType
<1>5. /\ asked' \in [Chains -> {"run", "stop", "both"}]
      /\ \A d \in Chains : d # c => asked'[d] = asked[d]
      /\ asked'[c] = "stop" => \A u \in Operators : u # t => Elsewhere(calls[u], c)
  BY <1>3, AskFacts DEF SupervisorInv
<1>6. SupervisorType' /\ OrderInv'
  BY <1>3, <1>4, <1>5 DEF SupervisorInv, SupervisorType, TodoType, OrderInv
<1>7. LockInv'
  <2>1. \A u \in Threads : \/ calls'[u] = calls[u]
                           \/ u \in Operators /\ phase = "serving" /\ calls'[u].op \notin Starting
    BY <1>2, <1>3, <1>4 DEF Starting
  <2> QED BY <1>3, <2>1, LockKept DEF SupervisorInv, LockInv
<1>8. GoneInv'
  <2> SUFFICES ASSUME NEW d \in Chains, asked'[d] = "stop"
               PROVE  Going(d, calls', set', profiles', phase', todo')
    BY DEF GoneInv
  <2>1. CASE d # c
    <3>1. Elsewhere(calls[t], d) /\ Elsewhere(calls'[t], d) /\ asked'[d] = asked[d]
      BY <1>2, <1>3, <1>4, <1>5, <2>1, IdleFacts DEF Elsewhere
    <3>2. SameRows(profiles, profiles', {c})
      BY <1>3 DEF SameRows
    <3> QED BY <1>3, <1>4, <2>1, <3>1, <3>2, RequestKeepsOther
  <2>2. CASE d = c
    <3>1. \A u \in Threads : u # t => Elsewhere(calls'[u], c)
      <4>1. Elsewhere(calls[Main], c)
        BY <1>3, IdleFacts DEF SupervisorInv, LockInv, Elsewhere
      <4> QED BY <1>4, <1>5, <2>2, <4>1 DEF Threads
    <3> QED BY <1>2, <1>3, <1>4, <2>2, <3>1 DEF Going, Elsewhere
  <2> QED BY <2>1, <2>2
<1> QED BY <1>6, <1>7, <1>8 DEF SupervisorInv

LEMMA StopKeeps ==
  ASSUME SupervisorInv, NEW t \in Operators, Stop(t) PROVE SupervisorInv'
<1>1. PICK c : c = calls[t].id
  OBVIOUS
<1>2. /\ calls[t].op \in {"stop", "stopDisabled"} /\ RemoveEntry(c) /\ t \in Threads
      /\ UNCHANGED <<phase, launches, todo, indexers, lock, profiles, asked>>
      /\ calls \in [Threads -> Call] /\ calls[t] \in Call /\ c \in Chains
  BY <1>1 DEF Stop, process, Threads, SupervisorInv, SupervisorType, Call
<1>3. /\ set' \in Seq(Entry) /\ Unique(set') /\ (Ordered(set) => Ordered(set'))
      /\ \A d : RunsIn(set', d) <=> RunsIn(set, d) /\ d # c
      /\ (\A i \in DOMAIN set : set[i].config) => \A i \in DOMAIN set' : set'[i].config
  BY <1>2, RemoveFacts DEF SupervisorInv, SupervisorType, LockInv
<1>4. /\ calls' \in [Threads -> Call]
      /\ \A u \in Threads : u # t => calls'[u] = calls[u]
      /\ \/ calls[t].op = "stop" /\ calls'[t].op = "disable" /\ calls'[t].id = c
         \/ calls[t].op = "stopDisabled" /\ calls'[t].op = "idle"
  <2>1. CASE calls[t].op = "stop"
    BY <1>1, <1>2, <2>1, GotoFacts DEF Stop, Ops
  <2>2. CASE calls[t].op = "stopDisabled"
    BY <1>1, <1>2, <2>2, ReturnFacts DEF Stop
  <2> QED BY <1>2, <2>1, <2>2
<1>5. phase = "serving"
  BY <1>2, IdleFacts DEF SupervisorInv, LockInv
<1>6. SupervisorType' /\ OrderInv'
  BY <1>2, <1>3, <1>4 DEF SupervisorInv, SupervisorType, TodoType, OrderInv
<1>7. LockInv'
  <2>1. \A u \in Threads : \/ calls'[u] = calls[u]
                           \/ u \in Operators /\ phase = "serving" /\ calls'[u].op \notin Starting
    BY <1>4, <1>5 DEF Starting
  <2> QED BY <1>2, <1>3, <2>1, LockKept DEF SupervisorInv
<1>8. GoneInv'
  <2> SUFFICES ASSUME NEW d \in Chains, asked[d] = "stop"
               PROVE  Going(d, calls', set', profiles', phase', todo')
    BY <1>2 DEF GoneInv
  <2>1. CASE d # c
    <3>1. Elsewhere(calls[t], d) /\ Elsewhere(calls'[t], d)
      BY <1>1, <1>4, <2>1 DEF Elsewhere
    <3>2. SameRows(profiles, profiles', {c})
      BY <1>2 DEF SameRows
    <3> QED BY <1>2, <1>3, <1>4, <2>1, <3>1, <3>2, RequestKeepsOther
  <2>2. CASE d = c
    <3>1. Going(c, calls, set, profiles, phase, todo)
      BY <2>2 DEF SupervisorInv, GoneInv
    <3>2. ~RunsIn(set', c)
      BY <1>3
    <3>3. \A u \in Threads : calls'[u].op # "idle" /\ calls'[u].id = c =>
            calls'[u].op \in {"stop", "disable", "stopDisabled"}
      BY <1>4, <3>1 DEF Going
    <3>4. ~OffIn(profiles, c) => \E u \in Operators :
            calls'[u].id = c /\ calls'[u].op \in {"stop", "disable"}
      <4>1. ASSUME NEW u \in Operators, calls[u].id = c, calls[u].op \in {"stop", "disable"}
            PROVE  calls'[u].id = c /\ calls'[u].op \in {"stop", "disable"}
        BY <1>1, <1>4, <4>1 DEF Threads
      <4> QED BY <3>1, <4>1 DEF Going
    <3> QED BY <1>2, <1>5, <2>2, <3>2, <3>3, <3>4 DEF Going
  <2> QED BY <2>1, <2>2
<1> QED BY <1>6, <1>7, <1>8 DEF SupervisorInv

LEMMA DisableKeeps ==
  ASSUME SupervisorInv, NEW t \in Operators, Disable(t) PROVE SupervisorInv'
<1>1. PICK c : c = calls[t].id
  OBVIOUS
<1>2. /\ calls[t].op = "disable" /\ t \in Threads /\ Return(t)
      /\ UNCHANGED <<phase, launches, todo, set, indexers, lock>>
      /\ calls \in [Threads -> Call] /\ calls[t] \in Call /\ c \in Chains /\ Table(profiles)
  BY <1>1 DEF Disable, process, Threads, SupervisorInv, SupervisorType, Call
<1>3. /\ calls' \in [Threads -> Call] /\ calls'[t].op = "idle"
      /\ \A u \in Threads : u # t => calls'[u] = calls[u]
  BY <1>2, ReturnFacts
<1>4. /\ Table(profiles') /\ SameRows(profiles, profiles', {c})
      /\ asked' \in [Chains -> {"run", "stop", "both"}]
      /\ \A d \in Chains : d # c => asked'[d] = asked[d]
      /\ asked'[c] = "stop" => OffIn(profiles', c) /\ asked[c] = "stop"
  <2>1. CASE SetChainEnabled(c, FALSE) /\ UNCHANGED asked
    BY <1>2, <2>1, SetChainEnabledFacts DEF SupervisorInv, SupervisorType
  <2>2. CASE UNCHANGED profiles /\ asked' = [asked EXCEPT ![c] = "both"]
    BY <1>2, <2>2, NothingWritten DEF SupervisorInv, SupervisorType, SameRows
  <2> QED BY <1>1, <2>1, <2>2 DEF Disable, Lost
<1>5. phase = "serving"
  BY <1>2, IdleFacts DEF SupervisorInv, LockInv
<1>6. SupervisorType' /\ OrderInv'
  BY <1>2, <1>3, <1>4 DEF SupervisorInv, SupervisorType, TodoType, SameRows, OrderInv
<1>7. LockInv'
  <2>1. \A u \in Threads : \/ calls'[u] = calls[u]
                           \/ u \in Operators /\ phase = "serving" /\ calls'[u].op \notin Starting
    BY <1>3, <1>5 DEF Starting
  <2> QED BY <1>2, <2>1, LockKept DEF SupervisorInv, LockInv
<1>8. GoneInv'
  <2> SUFFICES ASSUME NEW d \in Chains, asked'[d] = "stop"
               PROVE  Going(d, calls', set', profiles', phase', todo')
    BY DEF GoneInv
  <2>1. CASE d # c
    <3>1. Elsewhere(calls[t], d) /\ Elsewhere(calls'[t], d) /\ asked'[d] = asked[d]
      BY <1>1, <1>3, <1>4, <2>1 DEF Elsewhere
    <3> QED BY <1>2, <1>3, <1>4, <2>1, <3>1, RequestKeepsOther
  <2>2. CASE d = c
    <3>1. Going(c, calls, set, profiles, phase, todo) /\ OffIn(profiles', c)
      BY <1>4, <2>2 DEF SupervisorInv, GoneInv
    <3>2. \A u \in Threads : calls'[u].op # "idle" /\ calls'[u].id = c =>
            calls'[u].op \in {"stop", "disable", "stopDisabled"}
      BY <1>3, <3>1 DEF Going
    <3>3. RunsIn(set', c) => \E u \in Operators :
            calls'[u].id = c /\ calls'[u].op \in {"stop", "stopDisabled"}
      <4>1. ASSUME NEW u \in Operators, calls[u].id = c, calls[u].op \in {"stop", "stopDisabled"}
            PROVE  calls'[u] = calls[u]
        BY <1>2, <1>3, <4>1 DEF Threads
      <4> QED BY <1>2, <3>1, <4>1 DEF Going
    <3> QED BY <1>2, <1>5, <2>2, <3>1, <3>2, <3>3 DEF Going
  <2> QED BY <2>1, <2>2
<1> QED BY <1>6, <1>7, <1>8 DEF SupervisorInv

LEMMA PatchEnabledKeeps ==
  ASSUME SupervisorInv, NEW t \in Operators, NEW c \in Chains, NEW b \in BOOLEAN,
         PatchEnabled(t, c, b)
  PROVE  SupervisorInv'
<1>1. PICK x : x = [op |-> "stopDisabled", id |-> c, node |-> NoOne, launch |-> 0]
  OBVIOUS
<1>2. x \in Call /\ x.op = "stopDisabled" /\ x.id = c
  BY <1>1 DEF Call, Ops
<1>3. /\ phase = "serving" /\ calls[t] = Idle /\ SetChainEnabled(c, b)
      /\ calls' = IF b THEN calls ELSE [calls EXCEPT ![t] = x]
      /\ UNCHANGED <<phase, launches, todo, set, indexers, lock>>
      /\ Ask(t, c, IF b THEN "run" ELSE "stop") /\ t \in Threads
      /\ calls \in [Threads -> Call] /\ Table(profiles)
  BY <1>1 DEF PatchEnabled, process, Threads, SupervisorInv, SupervisorType
<1>4. /\ calls' \in [Threads -> Call]
      /\ \A u \in Threads : u # t => calls'[u] = calls[u]
      /\ calls'[t] = IF b THEN Idle ELSE x
  BY <1>2, <1>3
<1>5. /\ asked' \in [Chains -> {"run", "stop", "both"}]
      /\ \A d \in Chains : d # c => asked'[d] = asked[d]
      /\ asked'[c] = "stop" => ~b /\ \A u \in Operators : u # t => Elsewhere(calls[u], c)
  <2>1. CASE b
    BY <1>3, <2>1, AskFacts DEF SupervisorInv
  <2>2. CASE ~b
    BY <1>3, <2>2, AskFacts DEF SupervisorInv
  <2> QED BY <2>1, <2>2
<1>6. Table(profiles') /\ SameRows(profiles, profiles', {c}) /\ (~b => OffIn(profiles', c))
  BY <1>3, SetChainEnabledFacts
<1>7. SupervisorType' /\ OrderInv'
  BY <1>3, <1>4, <1>5, <1>6 DEF SupervisorInv, SupervisorType, TodoType, SameRows, OrderInv
<1>8. LockInv'
  <2>1. \A u \in Threads : \/ calls'[u] = calls[u]
                           \/ u \in Operators /\ phase = "serving" /\ calls'[u].op \notin Starting
    BY <1>2, <1>3, <1>4, IdleFacts DEF Starting
  <2> QED BY <1>3, <2>1, LockKept DEF SupervisorInv, LockInv
<1>9. GoneInv'
  <2> SUFFICES ASSUME NEW d \in Chains, asked'[d] = "stop"
               PROVE  Going(d, calls', set', profiles', phase', todo')
    BY DEF GoneInv
  <2>1. CASE d # c
    <3>1. Elsewhere(calls[t], d) /\ Elsewhere(calls'[t], d) /\ asked'[d] = asked[d]
      BY <1>2, <1>3, <1>4, <1>5, <2>1, IdleFacts DEF Elsewhere
    <3> QED BY <1>3, <1>4, <1>6, <2>1, <3>1, RequestKeepsOther
  <2>2. CASE d = c
    <3>1. ~b /\ OffIn(profiles', c) /\ calls'[t] = x
      BY <1>4, <1>5, <1>6, <2>2
    <3>2. \A u \in Threads : u # t => Elsewhere(calls'[u], c)
      <4>1. Elsewhere(calls[Main], c)
        BY <1>3, IdleFacts DEF SupervisorInv, LockInv, Elsewhere
      <4> QED BY <1>4, <1>5, <2>2, <4>1 DEF Threads
    <3> QED BY <1>2, <1>3, <2>2, <3>1, <3>2 DEF Going, Elsewhere
  <2> QED BY <2>1, <2>2
<1> QED BY <1>7, <1>8, <1>9 DEF SupervisorInv

-----------------------------------------------------------------------------
(* The indexers.                                                           *)

\* The steps that at most end an indexer or write what startup does not read.
LEMMA IndexerKeeps ==
  ASSUME SupervisorInv, NEW x \in indexers,
         IndexerBegins(x) \/ FatalFailure(x) \/ RecordError(x) \/ RecordQuarantine(x)
  PROVE  SupervisorInv'
<1>1. x \in Indexer /\ x.entry.id \in Chains /\ indexers \subseteq Indexer /\ Table(profiles)
  BY DEF SupervisorInv, SupervisorType, Indexer, Entry
<1>2. ASSUME NEW s \in {"running", "reported"}, Becomes(x, s) PROVE indexers' \subseteq Indexer
  <2>1. [x EXCEPT !.state = s] \in Indexer
    BY <1>1 DEF Indexer
  <2> QED BY <1>1, <1>2, <2>1 DEF Becomes
<1>3. CASE IndexerBegins(x)
  BY <1>1, <1>2, <1>3, UpsertChainFacts, PlainStep DEF IndexerBegins, process
<1>4. CASE FatalFailure(x)
  BY <1>1, <1>4, NothingWritten, PlainStep DEF FatalFailure
<1>5. CASE RecordError(x)
  BY <1>1, <1>2, <1>5, AttemptErrorFacts, PlainStep DEF RecordError, process
<1>6. CASE RecordQuarantine(x)
  BY <1>1, <1>6, AttemptQuarantineFacts, PlainStep DEF RecordQuarantine, process
<1> QED BY <1>3, <1>4, <1>5, <1>6

LEMMA QuarantineKeeps ==
  ASSUME SupervisorInv, NEW x \in indexers, Quarantine(x) PROVE SupervisorInv'
<1>1. /\ RemoveEntry(x.entry.id) /\ Becomes(x, "failed")
      /\ UNCHANGED <<phase, launches, todo, lock, calls, profiles, asked>>
      /\ x \in Indexer /\ indexers \subseteq Indexer
  BY DEF Quarantine, process, SupervisorInv, SupervisorType
<1>2. /\ set' \in Seq(Entry) /\ Unique(set') /\ (Ordered(set) => Ordered(set'))
      /\ \A d : RunsIn(set', d) => RunsIn(set, d)
      /\ (\A i \in DOMAIN set : set[i].config) => \A i \in DOMAIN set' : set'[i].config
  BY <1>1, RemoveFacts DEF SupervisorInv, SupervisorType, LockInv
<1>3. indexers' \subseteq Indexer
  <2>1. [x EXCEPT !.state = "failed"] \in Indexer
    BY <1>1 DEF Indexer
  <2> QED BY <1>1, <2>1 DEF Becomes
<1>4. SupervisorType' /\ OrderInv'
  BY <1>1, <1>2, <1>3 DEF SupervisorInv, SupervisorType, TodoType, OrderInv
<1>5. LockInv'
  BY <1>1, <1>2, LockKept DEF SupervisorInv
<1>6. GoneInv'
  <2> SUFFICES ASSUME NEW c \in Chains, asked[c] = "stop"
               PROVE  Going(c, calls', set', profiles', phase', todo')
    BY <1>1 DEF GoneInv
  <2>1. Going(c, calls, set, profiles, phase, todo) /\ SameRows(profiles, profiles', {})
    BY <1>1 DEF SupervisorInv, GoneInv, SameRows
  <2> QED BY <1>1, <1>2, <2>1, GoingKept DEF SupervisorInv
<1> QED BY <1>4, <1>5, <1>6 DEF SupervisorInv

-----------------------------------------------------------------------------

LEMMA SupervisorStep == SupervisorInv /\ [Next]_vars => SupervisorInv'
<1> SUFFICES ASSUME SupervisorInv, [Next]_vars PROVE SupervisorInv'
  OBVIOUS
<1>1. CASE MainStep
  <2>1. Main \in Threads
    BY DEF Threads
  <2>2. CASE StartStored(Main)
    BY <2>1, <2>2, BeginStartKeeps, DialAndAddKeeps, PersistKeeps, ClearAndLaunchKeeps DEF StartStored
  <2>3. CASE ConfigChainFails \/ Shutdown
    BY <2>3, EndedKeeps DEF ConfigChainFails, Shutdown
  <2> QED BY <1>1, <2>2, <2>3, StartConfigKeeps, ListStoredKeeps, RestartStoredKeeps, PhaseKeeps
          DEF MainStep
<1>2. CASE Signal
  BY <1>2, PlainStep, NothingWritten DEF Signal, SupervisorInv, SupervisorType
<1>3. CASE Crash
  BY <1>3, EndedKeeps DEF Crash
<1>4. CASE Restart
  BY <1>4, PhaseKeeps
<1>5. ASSUME NEW t \in Operators, StartStored(t) \/ Stop(t) \/ Disable(t) PROVE SupervisorInv'
  <2>1. t \in Threads
    BY DEF Threads
  <2> QED BY <1>5, <2>1, BeginStartKeeps, DialAndAddKeeps, PersistKeeps, ClearAndLaunchKeeps,
             StopKeeps, DisableKeeps DEF StartStored
<1>6. ASSUME NEW t \in Operators, NEW c \in Chains, NEW trust \in Trust, PatchTrust(t, c, trust)
      PROVE  SupervisorInv'
  BY <1>6, SetChainTrustFacts, PlainStep DEF PatchTrust, process, SupervisorInv, SupervisorType
<1>7. ASSUME NEW t \in Operators, NEW c \in Chains,
             \/ \E n \in Nodes : AddChain(t, c, n)
             \/ DeleteChain(t, c)
             \/ \E b \in BOOLEAN : PatchEnabled(t, c, b)
      PROVE  SupervisorInv'
  BY <1>7, AddChainKeeps, DeleteChainKeeps, PatchEnabledKeeps
<1>8. ASSUME NEW x \in indexers,
             IndexerBegins(x) \/ FatalFailure(x) \/ Quarantine(x) \/ RecordError(x) \/ RecordQuarantine(x)
      PROVE  SupervisorInv'
  BY <1>8, IndexerKeeps, QuarantineKeeps
<1>9. CASE UNCHANGED vars
  BY <1>9, PlainStep, NothingWritten DEF vars, process, SupervisorInv, SupervisorType
<1> QED BY <1>1, <1>2, <1>3, <1>4, <1>5, <1>6, <1>7, <1>8, <1>9 DEF Next

LEMMA SupervisorInvariant == Spec => []SupervisorInv
BY SupervisorInitially, SupervisorStep, PTL DEF Spec

\* What is asked of a chain is the set's state as soon as nobody works on it.
LEMMA SupervisorImplies == SupervisorInv => SetAsAsked
<1> SUFFICES ASSUME SupervisorInv PROVE SetAsAsked
  OBVIOUS
<1>1. ConfigComesFirst
  BY DEF SupervisorInv, OrderInv, Ordered, ConfigComesFirst
<1>2. ASSUME NEW c \in Chains, asked[c] = "stop", Settled(c)
      PROVE  /\ ~Running(c)
             /\ c \in DOMAIN ListChains /\ ListChains[c].source # "config" => ~ListChains[c].enabled
  <2>1. Going(c, calls, set, profiles, phase, todo)
    BY <1>2 DEF SupervisorInv, GoneInv
  <2>2. \A t \in Operators : calls[t].op # "idle" => calls[t].id # c
    BY <1>2 DEF Settled, Threads
  <2>3. ~RunsIn(set, c) /\ OffIn(profiles, c)
    BY <2>1, <2>2 DEF Going
  <2>4. ~Running(c)
    BY <2>3 DEF RunsIn, Running
  <2>5. ASSUME c \in DOMAIN ListChains, ListChains[c].source # "config"
        PROVE  ~ListChains[c].enabled
    <3>1. c \in DOMAIN profiles \cup {set[i].id : i \in DOMAIN set}
      BY <2>5 DEF ListChains
    <3>2. Known(c)
      BY <2>4, <3>1 DEF Running, Known
    <3>3. PICK row : row = ListChains[c]
      OBVIOUS
    <3>4. row = [running |-> Running(c), enabled |-> Known(c) => profiles[c].enabled,
                 source |-> IF Known(c) THEN profiles[c].source ELSE "config",
                 trust |-> IF Known(c) THEN profiles[c].trust ELSE "unverified"]
      BY <3>1, <3>3 DEF ListChains
    <3>5. row.source = profiles[c].source
      BY <3>2, <3>4
    <3>6. row.enabled = (Known(c) => profiles[c].enabled)
      BY <3>4
    <3>7. ~profiles[c].enabled
      BY <2>3, <2>5, <3>2, <3>3, <3>5 DEF OffIn, Known
    <3> QED BY <3>2, <3>3, <3>6, <3>7
  <2> QED BY <2>4, <2>5
<1>3. StaysGone
  BY <1>2 DEF StaysGone
<1> QED BY <1>1, <1>3 DEF SetAsAsked

\* The chain set is what was asked for (chainset.go, supervisor.go, chains.go): a chain
\* whose removal was answered runs again, in this process or a later one, only when it is
\* asked for, and no added chain stands before a configured one, for any number of chains,
\* operators, crashes, lost statements and failing indexers.
THEOREM SetAlwaysAsAsked == FairSpec => []SetAsAsked
BY SupervisorInvariant, SupervisorImplies, PTL DEF FairSpec

\* Every statement of every step, against the trust of the rows that were there.
LEMMA TrustStep == SupervisorInv /\ [Next]_vars => Deliberate(profiles, profiles')
<1> SUFFICES ASSUME SupervisorInv, [Next]_vars PROVE Deliberate(profiles, profiles')
  OBVIOUS
<1>1. Table(profiles) /\ calls \in [Threads -> Call] /\ indexers \subseteq Indexer
      /\ Operators \subseteq Threads /\ Main \in Threads
  BY DEF SupervisorInv, SupervisorType, Threads
<1>2. CASE UNCHANGED profiles
  BY <1>1, <1>2, NothingWritten
<1>3. CASE StartConfigChain
  <2>1. PICK c : c = Head(todo)
    OBVIOUS
  <2>2. todo \in Seq(ConfigRow) /\ todo # <<>>
    BY <1>3 DEF SupervisorInv, SupervisorType, TodoType, StartConfigChain
  <2>3. c \in ConfigRow
    BY <2>1, <2>2
  <2>4. c.id \in Chains /\ c.node \in Nodes \cup {NoOne}
    BY <2>3 DEF ConfigRow
  <2>5. Attempt(UpsertChainProfile(c.id, c.node, "config"))
    BY <1>3, <2>1 DEF StartConfigChain
  <2> QED BY <1>1, <2>4, <2>5, AttemptProfileFacts
<1>4. ASSUME NEW t \in Threads, StartStored(t) PROVE Deliberate(profiles, profiles')
  <2>1. calls[t].id \in Chains /\ calls[t].node \in Nodes \cup {NoOne}
    BY <1>1 DEF Call
  <2>2. CASE BeginStart(t)
    BY <1>2, <2>2 DEF BeginStart
  <2>3. CASE DialAndAdd(t)
    <3>1. \/ UNCHANGED profiles
          \/ Attempt(SetChainError(calls[t].id, TRUE))
          \/ SetChainError(calls[t].id, TRUE)
      BY <2>3 DEF DialAndAdd
    <3> QED BY <1>1, <1>2, <3>1, AttemptErrorFacts, SetChainErrorFacts
  <2>4. CASE Persist(t)
    <3>1. UpsertChainProfile(calls[t].id, calls[t].node, "api") \/ UNCHANGED profiles
      BY <2>4 DEF Persist, Lost
    <3> QED BY <1>1, <1>2, <2>1, <3>1, UpsertChainProfileFacts
  <2>5. CASE ClearAndLaunch(t)
    BY <1>1, <2>5, AttemptErrorFacts DEF ClearAndLaunch
  <2> QED BY <1>4, <2>2, <2>3, <2>4, <2>5 DEF StartStored
<1>5. CASE MainStep
  BY <1>1, <1>2, <1>3, <1>4, <1>5
     DEF MainStep, ConfigChainFails, ListStored, RestartStored, Serve, Shutdown, Ended
<1>6. CASE Signal \/ Crash \/ Restart
  BY <1>2, <1>6 DEF Signal, Crash, Restart, Ended
<1>7. ASSUME NEW t \in Operators, Stop(t) \/ Disable(t) PROVE Deliberate(profiles, profiles')
  <2>1. UNCHANGED profiles \/ SetChainEnabled(calls[t].id, FALSE)
    BY <1>7 DEF Stop, Disable, Lost
  <2> QED BY <1>1, <1>2, <2>1, SetChainEnabledFacts
<1>8. ASSUME NEW t \in Operators, NEW c \in Chains,
             \/ \E n \in Nodes : AddChain(t, c, n)
             \/ DeleteChain(t, c)
             \/ \E b \in BOOLEAN : PatchEnabled(t, c, b)
      PROVE  Deliberate(profiles, profiles')
  <2>1. UNCHANGED profiles \/ \E b \in BOOLEAN : SetChainEnabled(c, b)
    BY <1>8 DEF AddChain, DeleteChain, Request, PatchEnabled
  <2> QED BY <1>1, <1>2, <2>1, SetChainEnabledFacts
<1>9. ASSUME NEW t \in Operators, NEW c \in Chains, NEW trust \in Trust, PatchTrust(t, c, trust)
      PROVE  Deliberate(profiles, profiles')
  BY <1>1, <1>9, SetChainTrustFacts DEF PatchTrust
<1>10. ASSUME NEW x \in indexers,
              IndexerBegins(x) \/ FatalFailure(x) \/ Quarantine(x) \/ RecordError(x) \/ RecordQuarantine(x)
       PROVE  Deliberate(profiles, profiles')
  <2>1. x.entry.id \in Chains
    BY <1>1 DEF Indexer, Entry
  <2>2. \/ UNCHANGED profiles
        \/ UpsertChain(x.entry.id)
        \/ Attempt(SetChainError(x.entry.id, TRUE))
        \/ Attempt(SetChainTrust(x.entry.id, "quarantined", "daemon"))
    BY <1>10 DEF IndexerBegins, FatalFailure, Quarantine, RecordError, RecordQuarantine
  <2> QED BY <1>1, <1>2, <2>1, <2>2, UpsertChainFacts, AttemptErrorFacts, AttemptQuarantineFacts
<1>11. CASE UNCHANGED vars
  BY <1>2, <1>11 DEF vars
<1> QED BY <1>1, <1>4, <1>5, <1>6, <1>7, <1>8, <1>9, <1>10, <1>11 DEF Next

\* The trust of a chain is the operator's or the daemon's last word (SetChainTrust,
\* UpsertChainProfile): no restart, no chain stopped and added again and no indexer that
\* begins late lifts a quarantine or undoes a promotion.
THEOREM TrustStaysDeliberate == FairSpec => TrustIsDeliberate
<1>1. SupervisorInv /\ [Next]_vars =>
        [\A c \in DOMAIN profiles : profiles'[c].trust # profiles[c].trust =>
           profiles'[c].by = IF profiles'[c].trust = "quarantined" THEN "daemon" ELSE "operator"]_vars
  BY TrustStep DEF Deliberate
<1> QED BY <1>1, SupervisorInvariant, PTL DEF FairSpec, Spec, TrustIsDeliberate

\* "Two entries for one chain would mean two indexers writing the same cursors"
\* (chainset.go, Add): the set has one entry for each chain, and what a start finds absent
\* under the lock is absent when it is added, so that Add refuses nothing StartStored dialled.
THEOREM OneEntryForEachChain ==
  FairSpec => [](Unique(set) /\ \A t \in Threads : calls[t].op = "dial" => ~RunsIn(set, calls[t].id))
<1>1. SupervisorInv =>
        Unique(set) /\ \A t \in Threads : calls[t].op = "dial" => ~RunsIn(set, calls[t].id)
  BY DEF SupervisorInv, LockInv
<1> QED BY <1>1, SupervisorInvariant, PTL DEF FairSpec
=============================================================================
