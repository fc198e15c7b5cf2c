-------------------------- MODULE DiscoveryProofs ---------------------------
(***************************************************************************)
(* What Discovery promises of its sweep and of the candidates table, for   *)
(* any chain, windows, thresholds, budget and history floor.  The sweep    *)
(* leaves nothing out because what lies below its next height is read or   *)
(* excused at every point a tick may die at; the table's readers agree     *)
(* because no row carries both marks.                                      *)
(***************************************************************************)
EXTENDS Discovery, FiniteSetTheorems, WellFoundedInduction, TLAPS

Tick == [pc : {"idle", "sweep", "cursor", "query", "next", "mark"}, next : Nat, to : Nat,
         known : SUBSET Contracts, queue : Seq(Contracts), budget : Int, unseen : BOOLEAN,
         promoted : Nat]

ChainType == chain \in Seq(SUBSET Contracts) /\ Len(chain) \in 1 .. MaxHead /\ floor \in Nat

\* Rows are rows, and none is both promoted and spam.
Rows(cs) ==
  /\ DOMAIN cs \subseteq Contracts
  /\ \A c \in DOMAIN cs : cs[c] \in Candidate /\ ~(cs[c].promoted /\ cs[c].spam)

TablesType ==
  /\ Rows(candidates)
  /\ cursor \in 0 .. MaxHead /\ assets \in [Contracts -> {"none", "indexed", "revoked"}]
  /\ cooldown \in [Contracts -> 0 .. CooldownTicks]

\* What is read or need not be, below the height the tick has got to.
ReadBelow(n) == \A h \in Nat : 1 <= h /\ h < n /\ h \notin unread => h \in passed

SweepInv ==
  /\ ReadBelow(cursor + 1)
  /\ tick.pc = "sweep" => ReadBelow(tick.next) /\ tick.next <= tick.to /\ tick.to <= MaxHead
  /\ tick.pc = "cursor" => ReadBelow(tick.to + 1) /\ tick.to <= MaxHead

\* A promotion that is counted and not yet off the queue.
Underway(t) == IF t.pc = "mark" THEN 1 ELSE 0

\* What the queue in hand may still cost fits in what is left of the budget.
BudgetInv(t) ==
  /\ t.pc \notin {"next", "mark"} => t.promoted = 0
  /\ t.pc = "mark" => t.queue # <<>>
  /\ t.pc \in {"next", "mark"} =>
       IF t.unseen THEN t.promoted + Len(t.queue) <= MaxPromotionsPerTick + Underway(t)
       ELSE /\ Len(t.queue) <= t.budget
            /\ t.promoted + t.budget <= MaxPromotionsPerTick + Underway(t)

DiscoveryInv == ChainType /\ TablesType /\ tick \in Tick /\ SweepInv /\ BudgetInv(tick)

-----------------------------------------------------------------------------
(* The least and the greatest of a set of numbers.                         *)

LEMMA MaxOfTwo ==
  ASSUME NEW a \in Int, NEW b \in Int
  PROVE  Max({a, b}) = IF a >= b THEN a ELSE b
<1>1. \E x \in {a, b} : \A y \in {a, b} : x >= y
  OBVIOUS
<1>2. Max({a, b}) \in {a, b} /\ \A y \in {a, b} : Max({a, b}) >= y
  BY <1>1 DEF Max
<1> QED BY <1>2

LEMMA MinOfTwo ==
  ASSUME NEW a \in Int, NEW b \in Int
  PROVE  Min({a, b}) = IF a <= b THEN a ELSE b
<1>1. \E x \in {a, b} : \A y \in {a, b} : x <= y
  OBVIOUS
<1>2. Min({a, b}) \in {a, b} /\ \A y \in {a, b} : Min({a, b}) <= y
  BY <1>1 DEF Min
<1> QED BY <1>2

LEMMA LeastOf ==
  ASSUME NEW B \in SUBSET Nat, B # {}
  PROVE  Min(B) \in B
<1>0. B \subseteq Nat /\ B # {}
  OBVIOUS
<1>1. PICK b \in B : \A e \in B : ~(<<e, b>> \in OpToRel(<, Nat))
  BY <1>0, NatLessThanWellFounded, WFMin
<1>2. ASSUME NEW e \in B PROVE b <= e
  <2>1. e \in Nat /\ b \in Nat /\ ~(<<e, b>> \in OpToRel(<, Nat))
    BY <1>0, <1>1
  <2>2. ~(e < b)
    BY <2>1 DEF OpToRel
  <2>3. \A i, j \in Nat : ~(i < j) => j <= i
    OBVIOUS
  <2> QED BY <2>1, <2>2, <2>3
<1>3. \E x \in B : \A e \in B : x <= e
  BY <1>2
<1> QED BY <1>3 DEF Min

LEMMA GreatestOf ==
  ASSUME NEW n \in Nat, NEW B, B \subseteq 1 .. n, B # {}
  PROVE  Max(B) \in B
<1> DEFINE D == {n - b : b \in B}
<1>1. D \subseteq Nat /\ D # {}
  OBVIOUS
<1>2. PICK d \in D : \A e \in D : ~(<<e, d>> \in OpToRel(<, Nat))
  BY <1>1, NatLessThanWellFounded, WFMin
<1>3. PICK b \in B : d = n - b
  OBVIOUS
<1>4. ASSUME NEW e \in B PROVE b >= e
  <2>1. n - e \in D /\ n - e \in Nat
    OBVIOUS
  <2>2. ~(n - e < d)
    BY <1>1, <1>2, <2>1 DEF OpToRel
  <2> QED BY <1>3, <2>2
<1>5. \E x \in B : \A e \in B : x >= e
  BY <1>4
<1> QED BY <1>5 DEF Max

-----------------------------------------------------------------------------
(* The candidates table.                                                   *)

\* The heights of a chunk a contract emits at.
HeightsOf(c, from, to) == {h \in from .. to : h \in DOMAIN chain /\ c \in chain[h]}

LEMMA FoldedRows ==
  ASSUME ChainType, NEW from \in Nat, NEW to \in Nat, NEW known
  PROVE  Rows(CandidatesFrom(from, to, known))
<1>1. PICK rows : rows = CandidatesFrom(from, to, known)
  OBVIOUS
<1>2. DOMAIN rows = {c \in Contracts \ known : HeightsOf(c, from, to) # {}}
  BY <1>1 DEF CandidatesFrom, HeightsOf
<1>3. ASSUME NEW c \in DOMAIN rows PROVE rows[c] \in Candidate /\ ~(rows[c].promoted /\ rows[c].spam)
  <2>1. PICK H : H = HeightsOf(c, from, to)
    OBVIOUS
  <2>2. rows[c] = [first |-> Min(H), last |-> Max(H), events |-> Cardinality(H),
                   blocks |-> Cardinality(H), promoted |-> FALSE, spam |-> FALSE]
    BY <1>1, <1>2, <2>1 DEF CandidatesFrom, HeightsOf
  <2>3. H # {} /\ H \subseteq 1 .. Len(chain) /\ H \subseteq Nat /\ Len(chain) \in Nat
        /\ 1 .. Len(chain) \subseteq Height
    BY <1>2, <2>1, DiscoveryAssumption DEF HeightsOf, ChainType, Height
  <2>4. Min(H) \in Height
    BY <2>3, LeastOf
  <2>5. Max(H) \in Height
    BY <2>3, GreatestOf
  <2>6. IsFiniteSet(1 .. Len(chain))
    BY <2>3, FS_Interval
  <2>7. Cardinality(H) \in Nat
    BY <2>3, <2>6, FS_Subset, FS_CardinalityType
  <2> QED BY <2>2, <2>4, <2>5, <2>7 DEF Candidate
<1>4. DOMAIN rows \subseteq Contracts
  BY <1>2
<1> QED BY <1>1, <1>3, <1>4 DEF Rows

LEMMA MergedRow ==
  ASSUME NEW old \in Candidate, NEW new \in Candidate
  PROVE  /\ Merged(old, new) \in Candidate
         /\ Merged(old, new).promoted = old.promoted /\ Merged(old, new).spam = old.spam
<1>1. old.first \in Int /\ new.first \in Int /\ old.last \in Int /\ new.last \in Int
      /\ old.first \in Height /\ new.first \in Height /\ old.last \in Height /\ new.last \in Height
  BY DEF Candidate, Height
<1>2. Min({old.first, new.first}) \in Height /\ Max({old.last, new.last}) \in Height
  BY <1>1, MinOfTwo, MaxOfTwo
<1>3. old.events + new.events \in Nat /\ old.blocks + new.blocks \in Nat
  BY DEF Candidate
<1> QED BY <1>2, <1>3 DEF Merged, Candidate

LEMMA UpsertKeepsRows ==
  ASSUME Rows(candidates), NEW rows, Rows(rows), UpsertCandidates(rows)
  PROVE  Rows(candidates')
<1>1. DOMAIN candidates' = DOMAIN candidates \cup DOMAIN rows
  BY DEF UpsertCandidates
<1>2. ASSUME NEW c \in DOMAIN candidates'
      PROVE  candidates'[c] \in Candidate /\ ~(candidates'[c].promoted /\ candidates'[c].spam)
  <2>1. CASE c \notin DOMAIN rows
    BY <1>1, <2>1 DEF UpsertCandidates, Rows
  <2>2. CASE c \in DOMAIN rows /\ ~Seen(c)
    BY <1>1, <2>2 DEF UpsertCandidates, Rows
  <2>3. CASE c \in DOMAIN rows /\ Seen(c)
    <3>1. candidates'[c] = Merged(candidates[c], rows[c])
      BY <1>1, <2>3 DEF UpsertCandidates
    <3>2. candidates[c] \in Candidate /\ rows[c] \in Candidate
          /\ ~(candidates[c].promoted /\ candidates[c].spam)
      BY <2>3 DEF Rows, Seen
    <3> QED BY <3>1, <3>2, MergedRow
  <2> QED BY <2>1, <2>2, <2>3
<1> QED BY <1>1, <1>2 DEF Rows

LEMMA PromotedRows ==
  ASSUME Rows(candidates), NEW c
  PROVE  Rows(MarkPromoted(c))
<1>1. CASE Seen(c) /\ ~candidates[c].promoted
  <2>1. PICK row : row = [candidates[c] EXCEPT !.promoted = TRUE, !.spam = FALSE]
    OBVIOUS
  <2>2. MarkPromoted(c) = [candidates EXCEPT ![c] = row]
    BY <1>1, <2>1 DEF MarkPromoted
  <2>3. candidates[c] \in Candidate
    BY <1>1 DEF Rows, Seen
  <2>4. row \in Candidate /\ ~row.spam
    BY <2>1, <2>3 DEF Candidate
  <2> QED BY <1>1, <2>2, <2>4 DEF Rows, Seen
<1>2. CASE ~(Seen(c) /\ ~candidates[c].promoted)
  BY <1>2 DEF MarkPromoted
<1> QED BY <1>1, <1>2

LEMMA VerdictKeepsRows ==
  ASSUME Rows(candidates), NEW c, CandidateVerdict(c)
  PROVE  Rows(candidates')
<1>1. CASE MarkCandidateSpam(c)
  <2>1. PICK row : row = [candidates[c] EXCEPT !.spam = TRUE]
    OBVIOUS
  <2>2. candidates' = [candidates EXCEPT ![c] = row] /\ Seen(c) /\ ~candidates[c].promoted
    BY <1>1, <2>1 DEF MarkCandidateSpam
  <2>3. candidates[c] \in Candidate
    BY <2>2 DEF Rows, Seen
  <2>4. row \in Candidate /\ ~row.promoted
    BY <2>1, <2>2, <2>3 DEF Candidate
  <2> QED BY <2>2, <2>4 DEF Rows, Seen
<1>2. CASE ClearCandidateSpam(c)
  <2>1. PICK row : row = [candidates[c] EXCEPT !.spam = FALSE]
    OBVIOUS
  <2>2. candidates' = [candidates EXCEPT ![c] = row] /\ Seen(c)
    BY <1>2, <2>1 DEF ClearCandidateSpam
  <2>3. candidates[c] \in Candidate
    BY <2>2 DEF Rows, Seen
  <2>4. row \in Candidate /\ ~row.spam
    BY <2>1, <2>2, <2>3 DEF Candidate
  <2> QED BY <2>2, <2>4 DEF Rows, Seen
<1> QED BY <1>1, <1>2 DEF CandidateVerdict

-----------------------------------------------------------------------------
(* The tick.                                                               *)

LEMMA IdleTick == Idle \in Tick /\ Idle.pc = "idle" /\ BudgetInv(Idle)
<1>1. Idle \in Tick /\ Idle.pc = "idle" /\ Idle.promoted = 0
  BY DEF Idle, Tick
<1> QED BY <1>1 DEF BudgetInv

LEMMA QueuedTick ==
  ASSUME NEW q \in Seq(Contracts), NEW b \in Int
  PROVE  [Idle EXCEPT !.pc = "next", !.queue = q, !.budget = b] \in Tick
BY IdleTick DEF Tick

LEMMA DequeueFacts ==
  ASSUME NEW t \in Tick, BudgetInv(t), t.pc \in {"next", "mark"}, t.queue # <<>>
  PROVE  Dequeue(t) \in Tick /\ Dequeue(t).pc = "next" /\ BudgetInv(Dequeue(t))
<1>1. PICK d : d = Dequeue(t)
  OBVIOUS
<1>2. t.queue \in Seq(Contracts) /\ t.budget \in Int /\ t.promoted \in Nat /\ t.unseen \in BOOLEAN
  BY DEF Tick
<1>3. Tail(t.queue) \in Seq(Contracts) /\ Len(Tail(t.queue)) = Len(t.queue) - 1
      /\ Len(t.queue) \in Nat /\ Len(t.queue) > 0
  BY <1>2
<1>4. /\ d.pc = "next" /\ d.queue = Tail(t.queue) /\ d.unseen = t.unseen /\ d.promoted = t.promoted
      /\ d.budget = IF t.unseen THEN t.budget ELSE t.budget - 1
  BY <1>1 DEF Dequeue, Tick
<1>5. d \in Tick
  <2>1. (IF t.unseen THEN t.budget ELSE t.budget - 1) \in Int
    BY <1>2
  <2> QED BY <1>1, <1>3, <2>1 DEF Dequeue, Tick
<1>6. CASE t.unseen
  <2>1. t.promoted + Len(t.queue) <= MaxPromotionsPerTick + 1
    BY <1>2, <1>3, <1>6, DiscoveryAssumption DEF BudgetInv, Underway
  <2>2. d.promoted + Len(d.queue) <= MaxPromotionsPerTick
    BY <1>2, <1>3, <1>4, <2>1, DiscoveryAssumption
  <2> QED BY <1>1, <1>4, <1>5, <1>6, <2>2, DiscoveryAssumption DEF BudgetInv, Underway
<1>7. CASE ~t.unseen
  <2>1. t.promoted + t.budget <= MaxPromotionsPerTick + 1 /\ Len(t.queue) <= t.budget
    BY <1>2, <1>3, <1>7, DiscoveryAssumption DEF BudgetInv, Underway
  <2>2. d.promoted + d.budget <= MaxPromotionsPerTick /\ Len(d.queue) <= d.budget
    BY <1>2, <1>3, <1>4, <1>7, <2>1, DiscoveryAssumption
  <2> QED BY <1>1, <1>4, <1>5, <1>7, <2>2, DiscoveryAssumption DEF BudgetInv, Underway
<1> QED BY <1>2, <1>6, <1>7

\* A queue within a limit.
LEMMA QueueFacts ==
  ASSUME NEW pool \in SUBSET Contracts, NEW limit \in Nat, NEW q \in Queues(pool, limit)
  PROVE  q \in Seq(Contracts) /\ Len(q) <= limit
<1>1. Cardinality(pool) \in Nat
  BY DiscoveryAssumption, FS_Subset, FS_CardinalityType
<1>2. PICK n : n = Min({limit, Cardinality(pool)})
  OBVIOUS
<1>3. n \in Nat /\ n <= limit
  BY <1>1, <1>2, MinOfTwo
<1>4. q \in [1 .. n -> pool]
  BY <1>2 DEF Queues
<1>5. q \in Seq(pool) /\ Len(q) = n
  BY <1>3, <1>4
<1> QED BY <1>3, <1>5

\* Steps that neither sweep nor move what the sweep goes by.
LEMMA SweepQuiet ==
  ASSUME SweepInv, UNCHANGED <<cursor, passed, unread>>, tick'.pc \notin {"sweep", "cursor"}
  PROVE  SweepInv'
BY DEF SweepInv, ReadBelow

LEMMA Untouched ==
  ASSUME DiscoveryInv, ChainType', Rows(candidates'),
         UNCHANGED <<cursor, tick, passed, unread>>,
         assets' \in [Contracts -> {"none", "indexed", "revoked"}],
         cooldown' \in [Contracts -> 0 .. CooldownTicks]
  PROVE  DiscoveryInv'
BY DEF DiscoveryInv, TablesType, SweepInv, ReadBelow

LEMMA StartTickKeeps == ASSUME DiscoveryInv, StartTick PROVE DiscoveryInv'
<1>1. PICK head : head = Len(chain)
  OBVIOUS
<1>2. PICK from : from = SweepFrom(head)
  OBVIOUS
<1>3. head \in 1 .. MaxHead /\ cursor \in 0 .. MaxHead /\ floor \in Nat /\ MaxHead \in Nat
      /\ MaxBlocksPerTick \in Nat /\ MaxBlocksPerTick > 0 /\ Lookback \in Nat
  BY <1>1, DiscoveryAssumption DEF DiscoveryInv, ChainType, TablesType
<1>4. PICK start \in Nat : /\ start = IF cursor # 0 THEN cursor + 1
                                      ELSE IF head > Lookback THEN head - Lookback ELSE 0
                           /\ from = IF start >= floor THEN start ELSE floor
  BY <1>2, <1>3, MaxOfTwo DEF SweepFrom
<1>5. from \in Nat /\ (cursor # 0 => cursor < from)
      /\ (cursor # 0 => \A h \in Nat : cursor < h /\ h < from => h < floor)
  BY <1>3, <1>4
<1>6. cooldown' \in [Contracts -> 0 .. CooldownTicks]
  BY DiscoveryAssumption DEF StartTick, Cooled, DiscoveryInv, TablesType
<1>7. ChainType' /\ TablesType' /\ UNCHANGED <<cursor, passed>>
  BY <1>6 DEF StartTick, DiscoveryInv, ChainType, TablesType, nodeVars
<1>8. unread' = IF cursor = 0 THEN {h \in Height : h < from}
                ELSE unread \cup {h \in Height : h > cursor /\ h < floor}
  BY <1>1, <1>2 DEF StartTick
<1>9. ReadBelow(cursor + 1)'
  <2> SUFFICES ASSUME NEW h \in Nat, 1 <= h, h < cursor + 1, h \notin unread' PROVE h \in passed
    BY <1>7 DEF ReadBelow
  <2>1. cursor # 0 /\ h \notin unread
    BY <1>3, <1>8
  <2> QED BY <1>3, <2>1 DEF DiscoveryInv, SweepInv, ReadBelow
<1>10. CASE from > head
  <2>1. tick' = [Idle EXCEPT !.pc = "query"]
    BY <1>1, <1>2, <1>10 DEF StartTick
  <2>2. tick' \in Tick /\ tick'.pc = "query" /\ tick'.promoted = 0
    <3>1. tick'.pc = "query" /\ tick'.promoted = 0
      BY <2>1 DEF Idle
    <3>2. tick' \in Tick
      BY <2>1, IdleTick DEF Tick
    <3> QED BY <3>1, <3>2
  <2>3. BudgetInv(tick')
    BY <2>2 DEF BudgetInv
  <2> QED BY <1>7, <1>9, <2>2, <2>3 DEF DiscoveryInv, SweepInv
<1>11. CASE ~(from > head)
  <2>1. PICK to : to = SweepTo(from, head)
    OBVIOUS
  <2>2. to \in Nat /\ from <= to /\ to <= MaxHead
    <3>1. from + MaxBlocksPerTick - 1 \in Int /\ from <= from + MaxBlocksPerTick - 1
      BY <1>3, <1>5
    <3>2. to = IF head <= from + MaxBlocksPerTick - 1 THEN head ELSE from + MaxBlocksPerTick - 1
      BY <1>3, <2>1, <3>1, MinOfTwo DEF SweepTo
    <3> QED BY <1>3, <1>5, <1>11, <3>1, <3>2
  <2>3. tick' = [Idle EXCEPT !.pc = "sweep", !.next = from, !.to = to, !.known = IndexedAddresses]
    BY <1>1, <1>2, <1>11, <2>1 DEF StartTick
  <2>4. /\ tick' \in Tick /\ tick'.pc = "sweep" /\ tick'.promoted = 0
        /\ tick'.next = from /\ tick'.to = to
    <3>1. /\ tick'.pc = "sweep" /\ tick'.promoted = 0
          /\ tick'.next = from /\ tick'.to = to
      BY <2>3 DEF Idle
    <3>2. IndexedAddresses \in SUBSET Contracts
      BY DEF IndexedAddresses
    <3>3. tick' \in Tick
      BY <1>5, <2>2, <2>3, <3>2, IdleTick DEF Tick
    <3> QED BY <3>1, <3>3
  <2>5. BudgetInv(tick')
    BY <2>4 DEF BudgetInv
  <2>6. ReadBelow(tick.next)'
    <3> SUFFICES ASSUME NEW h \in Nat, 1 <= h, h < from, h \notin unread' PROVE h \in passed
      BY <1>7, <2>4 DEF ReadBelow
    <3>1. h \in Height
      BY <1>3, <1>5, <1>11 DEF Height
    <3>2. cursor # 0
      BY <1>8, <3>1
    <3>3. h \notin unread /\ ~(h > cursor /\ h < floor)
      BY <1>8, <3>1, <3>2
    <3>4. h < cursor + 1
      BY <1>3, <1>5, <3>2, <3>3
    <3> QED BY <3>3, <3>4 DEF DiscoveryInv, SweepInv, ReadBelow
  <2> QED BY <1>7, <1>9, <2>2, <2>4, <2>5, <2>6 DEF DiscoveryInv, SweepInv
<1> QED BY <1>10, <1>11

LEMMA SweepChunkKeeps == ASSUME DiscoveryInv, SweepChunk PROVE DiscoveryInv'
<1>1. PICK cto : cto = Min({tick.next + TailWindow - 1, tick.to})
  OBVIOUS
<1>2. /\ tick.pc = "sweep" /\ tick \in Tick /\ tick.next \in Nat /\ tick.to \in Nat
      /\ tick.next <= tick.to /\ tick.to <= MaxHead /\ ReadBelow(tick.next)
      /\ TailWindow \in Nat /\ TailWindow > 0 /\ MaxHead \in Nat
  BY DiscoveryAssumption DEF SweepChunk, DiscoveryInv, SweepInv, Tick
<1>3. cto \in Nat /\ tick.next <= cto /\ cto <= tick.to
  BY <1>1, <1>2, MinOfTwo
<1>4. /\ UpsertCandidates(CandidatesFrom(tick.next, cto, tick.known))
      /\ passed' = passed \cup (tick.next .. cto)
      /\ tick' = IF cto = tick.to THEN [tick EXCEPT !.pc = "cursor"]
                 ELSE [tick EXCEPT !.next = cto + 1]
      /\ UNCHANGED <<chain, floor, cursor, assets, cooldown, unread>>
  BY <1>1 DEF SweepChunk, nodeVars
<1>5. Rows(CandidatesFrom(tick.next, cto, tick.known))
  BY <1>2, <1>3, FoldedRows DEF DiscoveryInv
<1>6. Rows(candidates')
  BY <1>4, <1>5, UpsertKeepsRows DEF DiscoveryInv, TablesType
<1>7. ChainType' /\ TablesType'
  BY <1>4, <1>6 DEF DiscoveryInv, ChainType, TablesType
<1>8. \A h \in Nat : 1 <= h /\ h <= cto /\ h \notin unread => h \in passed'
  BY <1>2, <1>3, <1>4 DEF ReadBelow
<1>9. ReadBelow(cursor + 1)'
  BY <1>4 DEF DiscoveryInv, SweepInv, ReadBelow
<1>10. CASE cto = tick.to
  <2>1. tick' \in Tick /\ tick'.pc = "cursor" /\ tick'.to = tick.to /\ tick'.promoted = tick.promoted
    BY <1>2, <1>4, <1>10 DEF Tick
  <2>2. BudgetInv(tick')
    BY <1>2, <2>1 DEF DiscoveryInv, BudgetInv
  <2>3. ReadBelow(tick.to + 1)'
    BY <1>2, <1>4, <1>8, <1>10, <2>1 DEF ReadBelow
  <2> QED BY <1>2, <1>7, <1>9, <2>1, <2>2, <2>3 DEF DiscoveryInv, SweepInv
<1>11. CASE cto # tick.to
  <2>1. /\ tick' \in Tick /\ tick'.pc = "sweep" /\ tick'.to = tick.to /\ tick'.next = cto + 1
        /\ tick'.promoted = tick.promoted
    BY <1>2, <1>3, <1>4, <1>11 DEF Tick
  <2>2. BudgetInv(tick')
    BY <1>2, <2>1 DEF DiscoveryInv, BudgetInv
  <2>3. ReadBelow(tick.next)'
    BY <1>3, <1>4, <1>8, <2>1 DEF ReadBelow
  <2>4. tick'.next <= tick'.to
    BY <1>2, <1>3, <1>11, <2>1
  <2> QED BY <1>2, <1>7, <1>9, <2>1, <2>2, <2>3, <2>4 DEF DiscoveryInv, SweepInv
<1> QED BY <1>10, <1>11

LEMMA CursorKeeps == ASSUME DiscoveryInv, SetDiscoveryCursor PROVE DiscoveryInv'
<1>1. /\ tick.pc = "cursor" /\ cursor' = tick.to /\ tick' = [tick EXCEPT !.pc = "query"]
      /\ UNCHANGED <<chain, floor, candidates, assets, cooldown, passed, unread>>
      /\ tick \in Tick /\ tick.to \in Nat /\ tick.to <= MaxHead /\ ReadBelow(tick.to + 1)
      /\ MaxHead \in Nat
  BY DiscoveryAssumption
     DEF SetDiscoveryCursor, nodeVars, ghostVars, DiscoveryInv, SweepInv, Tick
<1>2. tick' \in Tick /\ tick'.pc = "query" /\ tick'.promoted = tick.promoted
  BY <1>1 DEF Tick
<1>3. BudgetInv(tick')
  BY <1>1, <1>2 DEF DiscoveryInv, BudgetInv
<1>4. ReadBelow(cursor + 1)'
  BY <1>1 DEF ReadBelow
<1>5. ChainType' /\ TablesType'
  BY <1>1 DEF DiscoveryInv, ChainType, TablesType
<1> QED BY <1>2, <1>3, <1>4, <1>5 DEF DiscoveryInv, SweepInv

\* The steps of promotion, over what they do to the tables and to the queue.
LEMMA PromotionKeeps ==
  ASSUME DiscoveryInv, UNCHANGED <<chain, floor, cursor, passed, unread>>, Rows(candidates'),
         assets' \in [Contracts -> {"none", "indexed", "revoked"}],
         cooldown' \in [Contracts -> 0 .. CooldownTicks],
         tick' \in Tick, tick'.pc \notin {"sweep", "cursor"}, BudgetInv(tick')
  PROVE  DiscoveryInv'
<1>1. SweepInv'
  BY SweepQuiet DEF DiscoveryInv
<1> QED BY <1>1 DEF DiscoveryInv, ChainType, TablesType

LEMMA QueryKeeps ==
  ASSUME DiscoveryInv, QueryPromotable \/ QueryUnseen \/ EndTick \/ AbortTick
  PROVE  DiscoveryInv'
<1>1. /\ UNCHANGED <<chain, floor, cursor, candidates, assets, cooldown, passed, unread>>
      /\ tick \in Tick /\ BudgetInv(tick)
  BY DEF QueryPromotable, QueryUnseen, EndTick, AbortTick, nodeVars, tableVars, ghostVars, DiscoveryInv
<1>2. CASE tick' = Idle
  BY <1>1, <1>2, IdleTick, PromotionKeeps DEF DiscoveryInv, TablesType
<1>3. ASSUME NEW q \in Queues(Promotable, MaxPromotionsPerTick),
             tick' = [Idle EXCEPT !.pc = "next", !.queue = q, !.budget = MaxPromotionsPerTick]
      PROVE  DiscoveryInv'
  <2>1. Promotable \in SUBSET Contracts /\ MaxPromotionsPerTick \in Nat
    BY DiscoveryAssumption DEF Promotable, DiscoveryInv, TablesType, Rows
  <2>2. q \in Seq(Contracts) /\ Len(q) <= MaxPromotionsPerTick
    BY <2>1, QueueFacts
  <2>3. /\ tick' \in Tick /\ tick'.pc = "next" /\ tick'.queue = q /\ ~tick'.unseen
        /\ tick'.budget = MaxPromotionsPerTick /\ tick'.promoted = 0
    <3>1. tick' \in Tick
      <4>1. MaxPromotionsPerTick \in Int
        BY <2>1
      <4> QED BY <1>3, <2>2, <4>1, QueuedTick
    <3>2. /\ tick'.pc = "next" /\ tick'.queue = q
          /\ tick'.budget = MaxPromotionsPerTick /\ tick'.promoted = 0
      BY <1>3, SMT DEF Idle
    <3>3. tick'.unseen = FALSE
      BY <1>3, SMT DEF Idle
    <3> QED BY <3>1, <3>2, <3>3
  <2>4. BudgetInv(tick')
    BY <2>1, <2>2, <2>3 DEF BudgetInv, Underway
  <2> QED BY <1>1, <2>3, <2>4, PromotionKeeps DEF DiscoveryInv, TablesType
<1>4. ASSUME tick.pc = "next", tick.queue = <<>>, ~tick.unseen, ~(Leftover <= 0),
             NEW q \in Queues(DemandedUnseen, Leftover),
             tick' = [tick EXCEPT !.queue = q, !.unseen = TRUE]
      PROVE  DiscoveryInv'
  <2>1. DemandedUnseen \in SUBSET Contracts /\ Leftover \in Nat /\ Leftover = tick.budget
        /\ MaxPromotionsPerTick \in Nat /\ tick.promoted \in Nat
    BY <1>1, <1>4, DiscoveryAssumption DEF DemandedUnseen, Leftover, Tick
  <2>2. q \in Seq(Contracts) /\ Len(q) <= Leftover
    BY <1>4, <2>1, QueueFacts
  <2>3. /\ tick' \in Tick /\ tick'.pc = "next" /\ tick'.queue = q /\ tick'.unseen
        /\ tick'.promoted = tick.promoted
    BY <1>1, <1>4, <2>2 DEF Tick
  <2>4. tick.promoted + tick.budget <= MaxPromotionsPerTick
    BY <1>1, <1>4, <2>1 DEF BudgetInv, Underway
  <2>5. tick'.promoted + Len(tick'.queue) <= MaxPromotionsPerTick
    BY <2>1, <2>2, <2>3, <2>4
  <2>6. BudgetInv(tick')
    BY <2>1, <2>3, <2>5 DEF BudgetInv, Underway
  <2> QED BY <1>1, <2>3, <2>6, PromotionKeeps DEF DiscoveryInv, TablesType
<1> QED BY <1>2, <1>3, <1>4 DEF QueryPromotable, QueryUnseen, EndTick, AbortTick

LEMMA DequeueKeeps ==
  ASSUME DiscoveryInv, PromoteDeferred \/ PromoteMark \/ PromoteFail
  PROVE  DiscoveryInv'
<1>1. /\ tick' = Dequeue(tick) /\ tick \in Tick /\ BudgetInv(tick)
      /\ tick.pc \in {"next", "mark"} /\ tick.queue # <<>>
      /\ UNCHANGED <<chain, floor, cursor, assets, passed, unread>>
  BY DEF PromoteDeferred, PromoteMark, PromoteFail, nodeVars, tableVars, ghostVars, DiscoveryInv, BudgetInv
<1>2. tick' \in Tick /\ tick'.pc = "next" /\ BudgetInv(tick')
  BY <1>1, DequeueFacts
<1>3. Rows(candidates')
  <2>1. candidates' = candidates \/ candidates' = MarkPromoted(Head(tick.queue))
    BY DEF PromoteDeferred, PromoteMark, PromoteFail, tableVars
  <2> QED BY <2>1, PromotedRows DEF DiscoveryInv, TablesType
<1>4. cooldown' \in [Contracts -> 0 .. CooldownTicks]
  <2>1. cooldown' = cooldown \/ cooldown' = [cooldown EXCEPT ![Head(tick.queue)] = CooldownTicks]
    BY DEF PromoteDeferred, PromoteMark, PromoteFail, tableVars, DeferPromotion
  <2> QED BY <2>1, DiscoveryAssumption DEF DiscoveryInv, TablesType
<1> QED BY <1>1, <1>2, <1>3, <1>4, PromotionKeeps DEF DiscoveryInv, TablesType

LEMMA RegisterKeeps == ASSUME DiscoveryInv, PromoteRegister PROVE DiscoveryInv'
<1>1. /\ tick.pc = "next" /\ tick.queue # <<>> /\ tick \in Tick /\ BudgetInv(tick)
      /\ tick' = [tick EXCEPT !.pc = "mark", !.promoted = @ + 1]
      /\ UNCHANGED <<chain, floor, cursor, candidates, cooldown, passed, unread>>
      /\ assets' = [assets EXCEPT ![Head(tick.queue)] = "indexed"]
  BY DEF PromoteRegister, RegisterAsset, nodeVars, ghostVars, DiscoveryInv
<1>2. tick.promoted \in Nat /\ tick.queue \in Seq(Contracts) /\ Len(tick.queue) \in Nat
      /\ tick.budget \in Int /\ MaxPromotionsPerTick \in Nat
  BY <1>1, DiscoveryAssumption DEF Tick
<1>3. /\ tick' \in Tick /\ tick'.pc = "mark" /\ tick'.queue = tick.queue
      /\ tick'.unseen = tick.unseen /\ tick'.budget = tick.budget
      /\ tick'.promoted = tick.promoted + 1
  <2>1. PICK p \in Nat : p = tick.promoted + 1
    BY <1>2
  <2>2. tick' = [tick EXCEPT !.pc = "mark", !.promoted = p]
    BY <1>1, <2>1
  <2>3. tick' \in Tick
    BY <1>1, <2>1, <2>2 DEF Tick
  <2>4. /\ tick'.pc = "mark" /\ tick'.queue = tick.queue
        /\ tick'.unseen = tick.unseen /\ tick'.budget = tick.budget /\ tick'.promoted = p
    BY <1>1, <2>2 DEF Tick
  <2> QED BY <2>1, <2>3, <2>4
<1>4. BudgetInv(tick')
  <2>1. CASE tick.unseen
    <3>1. tick.promoted + Len(tick.queue) <= MaxPromotionsPerTick
      BY <1>1, <1>2, <2>1 DEF BudgetInv, Underway
    <3>2. tick'.promoted + Len(tick'.queue) <= MaxPromotionsPerTick + 1
      BY <1>2, <1>3, <3>1
    <3> QED BY <1>1, <1>3, <2>1, <3>2 DEF BudgetInv, Underway
  <2>2. CASE ~tick.unseen
    <3>1. tick.promoted + tick.budget <= MaxPromotionsPerTick /\ Len(tick.queue) <= tick.budget
      BY <1>1, <1>2, <2>2 DEF BudgetInv, Underway
    <3>2. tick'.promoted + tick'.budget <= MaxPromotionsPerTick + 1 /\ Len(tick'.queue) <= tick'.budget
      BY <1>2, <1>3, <3>1
    <3> QED BY <1>1, <1>3, <2>2, <3>2 DEF BudgetInv, Underway
  <2> QED BY <2>1, <2>2
<1>5. assets' \in [Contracts -> {"none", "indexed", "revoked"}]
  BY <1>1 DEF DiscoveryInv, TablesType
<1> QED BY <1>1, <1>3, <1>4, <1>5, PromotionKeeps DEF DiscoveryInv, TablesType

-----------------------------------------------------------------------------
(* The environment and the operators.                                      *)

LEMMA EnvironmentKeeps == ASSUME DiscoveryInv, Environment PROVE DiscoveryInv'
<1>1. Rows(candidates) /\ ChainType /\ assets \in [Contracts -> {"none", "indexed", "revoked"}]
      /\ cooldown \in [Contracts -> 0 .. CooldownTicks]
  BY DEF DiscoveryInv, TablesType
<1>2. UNCHANGED <<candidates, cursor, cooldown, tick, passed, unread>>
  BY DEF Environment, Mine, Reorg, Deploy, Vote, Revoke, ResolveHistoryFloor, nodeVars, tableVars, ghostVars
<1>3. assets' \in [Contracts -> {"none", "indexed", "revoked"}]
  <2>1. assets' = assets \/ \E c \in Contracts : assets' = [assets EXCEPT ![c] = "revoked"]
    BY DEF Environment, Mine, Reorg, Deploy, Vote, Revoke, ResolveHistoryFloor, tableVars
  <2> QED BY <1>1, <2>1
<1>4. ChainType'
  <2>1. CASE UNCHANGED <<chain, floor>>
    BY <1>1, <2>1 DEF ChainType
  <2>2. ASSUME NEW emitters \in Blocks \cap SUBSET code, Mine(emitters) PROVE ChainType'
    <3>1. emitters \in SUBSET Contracts /\ MaxHead \in Nat
      BY DiscoveryAssumption
    <3>2. chain \in Seq(SUBSET Contracts) /\ Len(chain) \in 1 .. MaxHead /\ Len(chain) < MaxHead
          /\ chain' = Append(chain, emitters) /\ floor' = floor /\ floor \in Nat
      BY <1>1, <2>2 DEF Mine, ChainType
    <3>3. chain' \in Seq(SUBSET Contracts) /\ Len(chain') = Len(chain) + 1
      BY <3>1, <3>2
    <3> QED BY <3>1, <3>2, <3>3 DEF ChainType
  <2>3. ASSUME NEW emitters \in Blocks \cap SUBSET code, Reorg(emitters) PROVE ChainType'
    <3>1. emitters \in SUBSET Contracts /\ MaxHead \in Nat
      BY DiscoveryAssumption
    <3>2. chain \in Seq(SUBSET Contracts) /\ Len(chain) \in 1 .. MaxHead
          /\ chain' = [chain EXCEPT ![Len(chain)] = emitters] /\ floor' = floor /\ floor \in Nat
      BY <1>1, <2>3 DEF Reorg, ChainType
    <3>3. chain' \in Seq(SUBSET Contracts) /\ Len(chain') = Len(chain)
      BY <3>1, <3>2
    <3> QED BY <3>1, <3>2, <3>3 DEF ChainType
  <2>4. ASSUME NEW f \in DOMAIN chain, ResolveHistoryFloor(f) PROVE ChainType'
    <3>1. floor' \in Nat /\ chain' = chain
      BY <1>1, <2>4 DEF ResolveHistoryFloor, ChainType, nodeVars
    <3> QED BY <1>1, <3>1 DEF ChainType
  <2> QED BY <2>1, <2>2, <2>3, <2>4 DEF Environment, Deploy, Vote, Revoke, nodeVars
<1> QED BY <1>1, <1>2, <1>3, <1>4, Untouched

LEMMA OperatorKeeps == ASSUME DiscoveryInv, Operator PROVE DiscoveryInv'
<1>1. Rows(candidates) /\ ChainType /\ assets \in [Contracts -> {"none", "indexed", "revoked"}]
      /\ cooldown \in [Contracts -> 0 .. CooldownTicks]
  BY DEF DiscoveryInv, TablesType
<1>2. UNCHANGED <<chain, floor, cursor, cooldown, tick, passed, unread>>
  BY DEF Operator, RequestPromotion, RegisterLocally, CandidateVerdict, MarkCandidateSpam,
         ClearCandidateSpam, FinishPromotion, AbortRequest, nodeVars, tableVars, ghostVars
<1>3. assets' \in [Contracts -> {"none", "indexed", "revoked"}]
  <2>1. assets' = assets \/ \E c \in Contracts : assets' = [assets EXCEPT ![c] = "indexed"]
    BY DEF Operator, RequestPromotion, RegisterLocally, CandidateVerdict, MarkCandidateSpam,
           ClearCandidateSpam, FinishPromotion, AbortRequest, RegisterAsset, tableVars
  <2> QED BY <1>1, <2>1
<1>4. Rows(candidates')
  <2>1. CASE candidates' = candidates
    BY <1>1, <2>1
  <2>2. ASSUME NEW c \in Contracts, CandidateVerdict(c) PROVE Rows(candidates')
    BY <1>1, <2>2, VerdictKeepsRows
  <2>3. CASE FinishPromotion
    BY <1>1, <2>3, PromotedRows DEF FinishPromotion
  <2> QED BY <2>1, <2>2, <2>3 DEF Operator, RequestPromotion, RegisterLocally, AbortRequest, tableVars
<1>5. ChainType'
  BY <1>1, <1>2 DEF ChainType
<1> QED BY <1>1, <1>2, <1>3, <1>4, <1>5, Untouched

LEMMA DiscoveryInit == Init => DiscoveryInv
<1> SUFFICES ASSUME Init PROVE DiscoveryInv
  OBVIOUS
<1>1. ChainType
  <2>1. chain \in [1 .. InitHead -> Blocks] /\ InitHead \in 1 .. MaxHead /\ MaxHead \in Nat
        /\ Blocks \subseteq SUBSET Contracts
    BY DiscoveryAssumption DEF Init
  <2>2. chain \in Seq(SUBSET Contracts) /\ Len(chain) = InitHead
    BY <2>1
  <2> QED BY <2>1, <2>2 DEF Init, ChainType
<1>2. TablesType
  <2>1. candidates = <<>> /\ DOMAIN candidates = {}
    BY DEF Init
  <2>2. Rows(candidates)
    BY <2>1 DEF Rows
  <2> QED BY <2>2, DiscoveryAssumption DEF Init, TablesType
<1>3. tick \in Tick /\ tick.pc = "idle" /\ BudgetInv(tick)
  BY IdleTick DEF Init
<1>4. SweepInv
  BY <1>3 DEF Init, SweepInv, ReadBelow
<1> QED BY <1>1, <1>2, <1>3, <1>4 DEF DiscoveryInv

LEMMA DiscoveryStep == DiscoveryInv /\ [Next]_vars => DiscoveryInv'
<1> SUFFICES ASSUME DiscoveryInv, [Next]_vars PROVE DiscoveryInv'
  OBVIOUS
<1>1. CASE UNCHANGED vars
  BY <1>1 DEF vars, nodeVars, tableVars, ghostVars, DiscoveryInv, ChainType, TablesType, SweepInv, ReadBelow
<1>2. CASE Environment
  BY <1>2, EnvironmentKeeps
<1>3. CASE TickStep
  BY <1>3, StartTickKeeps, SweepChunkKeeps, CursorKeeps, QueryKeeps, DequeueKeeps, RegisterKeeps DEF TickStep
<1>4. CASE PromoteFail \/ AbortTick
  BY <1>4, DequeueKeeps, QueryKeeps
<1>5. CASE Operator
  BY <1>5, OperatorKeeps
<1> QED BY <1>1, <1>2, <1>3, <1>4, <1>5 DEF Next

LEMMA DiscoveryAlways == FairSpec => []DiscoveryInv
BY DiscoveryInit, DiscoveryStep, PTL DEF FairSpec, Spec

-----------------------------------------------------------------------------
(* Sweeps of any budget and chunk size, over any chain, floor and order of *)
(* failures, leave no height below the cursor unread that the node serves. *)
THEOREM SweepMissesNothing == FairSpec => []NothingMissed
<1>1. DiscoveryInv => NothingMissed
  <2> SUFFICES ASSUME DiscoveryInv, NEW h \in 1 .. cursor, h \notin unread PROVE h \in passed
    BY DEF NothingMissed
  <2>1. cursor \in Nat /\ ReadBelow(cursor + 1)
    BY DiscoveryAssumption DEF DiscoveryInv, TablesType, SweepInv
  <2>2. h \in Nat /\ 1 <= h /\ h < cursor + 1
    BY <2>1
  <2> QED BY <2>1, <2>2 DEF ReadBelow
<1> QED BY <1>1, DiscoveryAlways, PTL

LEMMA DisjointUnion ==
  ASSUME NEW A, NEW B, IsFiniteSet(A), IsFiniteSet(B), A \cap B = {}
  PROVE  Cardinality(A \cup B) = Cardinality(A) + Cardinality(B)
<1>1. Cardinality(A) \in Nat /\ Cardinality(B) \in Nat
  BY FS_CardinalityType
<1>2. Cardinality(A \cap B) = 0
  BY FS_EmptySet
<1>3. Cardinality(A \cup B) = Cardinality(A) + Cardinality(B) - Cardinality(A \cap B)
  BY FS_Union
<1> QED BY <1>1, <1>2, <1>3

LEMMA PilesMakeUpTheTable ==
  ASSUME DiscoveryInv
  PROVE  CandidateStats.observed =
           CandidateStats.promoted + CandidateStats.spam + Cardinality(WorkingView)
<1>1. PICK D, P, S, W : /\ D = DOMAIN candidates
                        /\ P = {c \in D : candidates[c].promoted}
                        /\ S = {c \in D : candidates[c].spam}
                        /\ W = {c \in D : ~candidates[c].promoted /\ ~candidates[c].spam}
  OBVIOUS
<1>2. IsFiniteSet(D) /\ P \subseteq D /\ S \subseteq D /\ W \subseteq D
  <2>1. D \subseteq Contracts
    BY <1>1 DEF DiscoveryInv, TablesType, Rows
  <2>2. IsFiniteSet(D)
    BY <2>1, DiscoveryAssumption, FS_Subset
  <2> QED BY <1>1, <2>2
<1>3. P \cap S = {} /\ (P \cup S) \cap W = {} /\ D = (P \cup S) \cup W
  BY <1>1 DEF DiscoveryInv, TablesType, Rows
<1>4. IsFiniteSet(P) /\ IsFiniteSet(S) /\ IsFiniteSet(W) /\ IsFiniteSet(P \cup S)
  BY <1>2, FS_Subset, FS_Union
<1>5. Cardinality(P \cup S) = Cardinality(P) + Cardinality(S)
  BY <1>3, <1>4, DisjointUnion
<1>6. Cardinality(D) = Cardinality(P \cup S) + Cardinality(W)
  BY <1>3, <1>4, DisjointUnion
<1>7. CandidateStats.observed = Cardinality(D) /\ CandidateStats.promoted = Cardinality(P)
      /\ CandidateStats.spam = Cardinality(S) /\ WorkingView = W
  BY <1>1 DEF CandidateStats, WorkingView
<1> QED BY <1>5, <1>6, <1>7

(* For any thresholds, budget and order of ticks, verdicts and promotions  *)
(* dying halfway: the badge, the ledger, the stats, the working list and   *)
(* the tick's own queue read the candidates table alike, and a tick        *)
(* promotes no more than its budget over both its queues.                  *)
THEOREM CandidatesAlwaysAgree == FairSpec => []CandidatesAgree
<1>1. DiscoveryInv => CandidatesAgree
  <2> SUFFICES ASSUME DiscoveryInv PROVE CandidatesAgree
    OBVIOUS
  <2>1. TypeOK
    BY DEF DiscoveryInv, TablesType, Rows, TypeOK
  <2>2. \A c \in DOMAIN Ledger : CandidateView(c).verdict = Ledger[c]
    <3> SUFFICES ASSUME NEW c \in DOMAIN Ledger PROVE CandidateView(c).verdict = Ledger[c]
      OBVIOUS
    <3>1. c \in DOMAIN candidates /\ Ledger[c] = Decision(c)
      BY DEF Ledger
    <3>2. ~(candidates[c].promoted /\ candidates[c].spam)
      BY <3>1 DEF DiscoveryInv, TablesType, Rows
    <3>3. CandidateView(c).verdict =
            IF candidates[c].spam THEN "spam" ELSE IF candidates[c].promoted THEN "approved" ELSE "none"
      BY DEF CandidateView
    <3> QED BY <3>1, <3>2, <3>3 DEF Decision
  <2>3. QueueShown
    <3> SUFFICES ASSUME NEW c \in Promotable PROVE c \in Offered
      BY DEF QueueShown
    <3>1. c \in DOMAIN candidates /\ ~candidates[c].promoted /\ ~candidates[c].spam
          /\ (Busy(c) \/ Wanted(c))
      BY DEF Promotable
    <3>2. CandidateView(c).promotable =
            (~candidates[c].spam /\ ~candidates[c].promoted /\ (Busy(c) \/ Wanted(c)))
      BY DEF CandidateView
    <3> QED BY <3>1, <3>2 DEF Offered, WorkingView
  <2>4. BudgetHolds
    <3>1. tick \in Tick /\ BudgetInv(tick) /\ MaxPromotionsPerTick \in Nat
      BY DiscoveryAssumption DEF DiscoveryInv
    <3>2. tick.promoted \in Nat /\ Len(tick.queue) \in Nat /\ tick.budget \in Int
          /\ (tick.queue # <<>> => Len(tick.queue) > 0)
      BY <3>1 DEF Tick
    <3>3. CASE tick.pc \notin {"next", "mark"}
      BY <3>1, <3>3 DEF BudgetInv, BudgetHolds
    <3>4. CASE tick.pc = "next"
      BY <3>1, <3>2, <3>4 DEF BudgetInv, Underway, BudgetHolds
    <3>5. CASE tick.pc = "mark"
      <4>1. Len(tick.queue) > 0
        BY <3>1, <3>2, <3>5 DEF BudgetInv
      <4> QED BY <3>1, <3>2, <3>5, <4>1 DEF BudgetInv, Underway, BudgetHolds
    <3> QED BY <3>3, <3>4, <3>5
  <2> QED BY <2>1, <2>2, <2>3, <2>4, PilesMakeUpTheTable DEF CandidatesAgree, LedgersAgree
<1> QED BY <1>1, DiscoveryAlways, PTL
=============================================================================
