--------------------------- MODULE IndexerProofs ----------------------------
(***************************************************************************)
(* What Indexer promises of its two workers for any assets, windows,       *)
(* depth of confirmation and scenario: with the exceptions each property   *)
(* names, every event is recorded at least once, none is counted twice,    *)
(* and what the follower folds is settled.                                 *)
(*                                                                         *)
(* Where the rows lie is said for every point between two transactions:    *)
(* below the tails and what the tick has swept (ReachInv), one a height    *)
(* (UniqueInv), compared with the node before they are deep enough to be   *)
(* promoted (SettledInv), and behind them what was promoted (BehindInv).   *)
(***************************************************************************)
EXTENDS Indexer, FiniteSetTheorems, WellFoundedInduction, TLAPS

Quiet(kind) == Seen(kind) = 0

\* The row's hash is the one the node has at its height.
Canonical(r) == r.block \in 1 .. Len(chain) /\ r.hash = chain[r.block]

AllRows == pending \cup rollup \cup follower.logs \cup backfiller.logs

\* Heads, anchors and tails against the chain, which no shorter fork has cut.
NodeInv ==
  /\ final <= Len(chain) /\ Len(chain) <= final + Confirmations
  /\ follower.pc # "idle" => follower.head <= final + Confirmations
  /\ Quiet("shrunk") => /\ follower.head <= Len(chain)
                        /\ \A a \in Assets : /\ cursors[a].anchor <= Len(chain)
                                             /\ cursors[a].tail <= Len(chain)

\* Rows are of blocks that exist and of assets that were registered, and so is what the
\* workers hold.
RowsInv ==
  /\ \A r \in AllRows : r.block >= 1 /\ status[r.asset] # "none"
  /\ \A a \in follower.todo : status[a] # "none"
  /\ backfiller.pc # "idle" => status[backfiller.asset] # "none"
  /\ Reorgs = 0 => \A r \in AllRows : Canonical(r)
  /\ Quiet("resyncs") => resyncing = {}

Sweeping == follower.pc \in {"sweep", "insert", "chunk", "advance"}

\* What the tick holds of the buffer and of the cursors.
TickInv ==
  /\ \A r \in follower.logs : /\ follower.pc = "insert" /\ r.asset \in follower.todo
                              /\ follower.from <= r.block /\ r.block <= follower.to
                              /\ follower.tails[r.asset] < r.block
  /\ \A r, s \in follower.logs : r.block = s.block => r.hash = s.hash
  /\ follower.pc \in {"insert", "chunk"} => follower.from <= follower.to /\ follower.to <= follower.head
  /\ follower.pc = "sweep" => follower.from <= follower.head
  /\ Quiet("resyncs") /\ Sweeping => \A a \in follower.todo : follower.tails[a] = cursors[a].tail
  /\ \A p \in follower.hashes : /\ follower.pc = "reorg"
                                /\ \E r \in pending : p = <<r.block, r.hash>>
  /\ \A p, q \in follower.hashes : p[1] = q[1] => p = q
  /\ follower.pc = "rewind" => \A r \in pending : r.block < follower.at

\* Heights the sweep is past, and those of an asset the follower has read.
Scanned(b) ==
  \/ follower.pc \in {"sweep", "insert"} /\ b < follower.from
  \/ follower.pc = "chunk" /\ b <= follower.to
  \/ follower.pc = "advance" /\ b <= follower.head

Reached(a, b) == b <= cursors[a].tail \/ (a \in follower.todo /\ Scanned(b))

Above(r) == r.block > cursors[r.asset].anchor

\* A failed tick apart, the buffer lies below what was read.
ReachInv == Quiet("aborts") /\ Quiet("resyncs") => \A r \in pending : Reached(r.asset, r.block)

OneAsset == \A a, b \in Assets : status[a] # "none" /\ status[b] # "none" => a = b

\* ... and has one row a height.
UniqueInv ==
  Quiet("aborts") /\ Quiet("resyncs") /\ OneAsset =>
    \A r, s \in pending : r.block = s.block => r = s

\* What is deep enough to promote is canonical, still to be compared, or about to be dropped.
SettledInv ==
  OneHash =>
    /\ follower.pc # "idle" =>
         \A r \in pending : r.block + Confirmations <= follower.head =>
           \/ Canonical(r)
           \/ follower.pc = "reorg" /\ <<r.block, r.hash>> \in follower.hashes
           \/ follower.pc = "drop" /\ follower.at <= r.block
    /\ \A r \in follower.logs : r.block + Confirmations <= follower.head => Canonical(r)
    /\ \A r \in rollup : Above(r) => r.block <= final /\ Canonical(r)

Walking == {"asset", "floor", "scan", "logs", "probe", "fold", "advance"}
Ending  == {"done", "keep", "live"}

\* The walk below the anchor: what the tick read of the cursor still holds.
WalkInv ==
  Quiet("resyncs") =>
    /\ \A a \in Assets : status[a] # "none" => cursors[a].next < cursors[a].anchor
    /\ backfiller.pc \in Walking =>
         backfiller.next = cursors[backfiller.asset].next /\ ~cursors[backfiller.asset].done
    /\ backfiller.pc \in {"keep", "live"} => cursors[backfiller.asset].done
    /\ backfiller.pc = "asset" => backfiller.stored = cursors[backfiller.asset].floor
    /\ backfiller.pc \in {"floor", "scan", "logs"} => backfiller.floor <= backfiller.next
    /\ backfiller.pc \in {"scan", "logs", "fold", "advance"} =>
         cursors[backfiller.asset].floor = backfiller.floor
    /\ backfiller.pc \in {"fold", "advance"} =>
         backfiller.floor <= backfiller.from /\ backfiller.from <= backfiller.next
    /\ \A r \in backfiller.logs : /\ backfiller.pc = "fold" /\ r.asset = backfiller.asset
                                  /\ backfiller.from <= r.block /\ r.block <= backfiller.next

HasRow(a, b) == \E r \in pending \cup rollup : r.asset = a /\ r.block = b

\* Every emitting block the follower has been past has a row, under whatever hash.
RowedInv ==
  Noticed /\ Quiet("resyncs") =>
    /\ \A a \in Assets, b \in Nat :
         /\ status[a] # "none" /\ Emits(a, b)
         /\ cursors[a].anchor < b /\ b <= cursors[a].tail
         => HasRow(a, b) \/ (follower.pc = "rewind" /\ follower.at <= b)
    /\ \A a \in follower.todo, b \in Nat :
         Scanned(b) /\ follower.tails[a] < b /\ Emits(a, b) => HasRow(a, b)
    /\ follower.pc = "insert" =>
         \A a \in follower.todo, b \in follower.from .. follower.to :
           follower.tails[a] < b /\ Emits(a, b) => \E r \in follower.logs : r.asset = a /\ r.block = b

\* What the walk has been past is in the rollup, down to the floor the tick has found where
\* the cursor is done before that floor is stored.
WalkedInv ==
  Reorgs = 0 /\ Quiet("resyncs") /\ Quiet("unfloored") =>
    /\ \A a \in Assets, b \in Nat :
         /\ status[a] # "none" /\ Emits(a, b) /\ b < cursors[a].anchor
         /\ IF cursors[a].done THEN cursors[a].floor <= b ELSE cursors[a].next < b
         /\ FloorBehind(a) => backfiller.floor <= b
         => RowAt(a, b) \in rollup
    /\ \A b \in Nat :
         Emits(backfiller.asset, b) =>
           /\ backfiller.pc = "fold" /\ backfiller.from <= b /\ b <= backfiller.next
                => RowAt(backfiller.asset, b) \in backfiller.logs
           /\ backfiller.pc = "advance" /\ backfiller.from <= b /\ b <= backfiller.next
                => RowAt(backfiller.asset, b) \in rollup
           /\ backfiller.pc \in Ending /\ backfiller.floor <= b /\ b < cursors[backfiller.asset].anchor
                => RowAt(backfiller.asset, b) \in rollup

Orderly == Quiet("aborts") /\ Quiet("resyncs") /\ Quiet("shrunk")

\* The follower's part of the rollup lies behind the buffer and what is rewound.
BehindInv ==
  Orderly =>
    \A s \in rollup : Above(s) =>
      /\ Reached(s.asset, s.block) /\ s \notin pending
      /\ s.block + Confirmations <= Len(chain)
      /\ follower.pc # "idle" => s.block + Confirmations <= follower.head
      /\ follower.pc \in {"idle", "reorg", "drop", "rewind", "cursors"} =>
           \A r \in pending : s.block < r.block
      /\ follower.pc \in {"drop", "rewind"} => s.block < follower.at

\* Undisturbed, the two workers share no height.
ApartInv ==
  Orderly /\ Reorgs = 0 /\ Quiet("lost") =>
    /\ follower.pc \notin {"drop", "rewind"}
    /\ \A a \in Assets : cursors[a].anchor <= cursors[a].tail
    /\ \A r \in pending \cup follower.logs : Above(r)
    /\ \A r \in rollup : ~Above(r) =>
         \/ cursors[r.asset].next < r.block
         \/ backfiller.pc = "advance" /\ r.asset = backfiller.asset /\ backfiller.from <= r.block

CountedInv ==
  Orderly => \A r \in recounted : ~Above(r) /\ ~(Reorgs = 0 /\ Quiet("lost"))

-----------------------------------------------------------------------------
(* The least and the greatest of a set of numbers.                         *)

LEMMA MaxOfTwo ==
  ASSUME NEW a \in Int, NEW b \in Int
  PROVE  Max({a, b}) = IF a >= b THEN a ELSE b
<1>1. \E x \in {a, b} : \A y \in {a, b} : x >= y
  OBVIOUS
<1>2. Max({a, b}) \in {a, b} /\ \A y \in {a, b} : Max({a, b}) >= y
  BY <1>1 DEF Max
<1> QED BY <1>2

LEMMA MinOfTwo ==
  ASSUME NEW a \in Int, NEW b \in Int
  PROVE  Min({a, b}) = IF a <= b THEN a ELSE b
<1>1. \E x \in {a, b} : \A y \in {a, b} : x <= y
  OBVIOUS
<1>2. Min({a, b}) \in {a, b} /\ \A y \in {a, b} : Min({a, b}) <= y
  BY <1>1 DEF Min
<1> QED BY <1>2

LEMMA LeastOf ==
  ASSUME NEW B \in SUBSET Nat, B # {}
  PROVE  Min(B) \in B
<1>0. B \subseteq Nat /\ B # {}
  OBVIOUS
<1>1. PICK b \in B : \A e \in B : ~(<<e, b>> \in OpToRel(<, Nat))
  BY <1>0, NatLessThanWellFounded, WFMin
<1>2. ASSUME NEW e \in B PROVE b <= e
  <2>1. e \in Nat /\ b \in Nat /\ ~(<<e, b>> \in OpToRel(<, Nat))
    BY <1>0, <1>1
  <2>2. ~(e < b)
    BY <2>1 DEF OpToRel
  <2>3. \A i, j \in Nat : ~(i < j) => j <= i
    OBVIOUS
  <2> QED BY <2>1, <2>2, <2>3
<1>3. \E x \in B : \A e \in B : x <= e
  BY <1>2
<1> QED BY <1>3 DEF Min

LEMMA LeastBelow ==
  ASSUME NEW B \in SUBSET Nat, B # {}
  PROVE  \A e \in B : Min(B) <= e
<1>0. B \subseteq Nat /\ B # {}
  OBVIOUS
<1>1. PICK b \in B : \A e \in B : ~(<<e, b>> \in OpToRel(<, Nat))
  BY <1>0, NatLessThanWellFounded, WFMin
<1>2. ASSUME NEW e \in B PROVE b <= e
  <2>1. e \in Nat /\ b \in Nat /\ ~(<<e, b>> \in OpToRel(<, Nat))
    BY <1>0, <1>1
  <2>2. ~(e < b)
    BY <2>1 DEF OpToRel
  <2>3. \A i, j \in Nat : ~(i < j) => j <= i
    OBVIOUS
  <2> QED BY <2>1, <2>2, <2>3
<1>3. \E x \in B : \A e \in B : x <= e
  BY <1>2
<1> QED BY <1>3 DEF Min

-----------------------------------------------------------------------------
(* Types, and what disturbs.                                               *)

LEMMA FollowerFields ==
  ASSUME TypeOK
  PROVE  /\ follower.head \in Nat /\ follower.at \in Nat /\ follower.from \in Nat /\ follower.to \in Nat
         /\ follower.tails \in [Assets -> Nat] /\ follower.todo \in SUBSET Assets
         /\ follower.logs \subseteq Row /\ follower.hashes \subseteq Nat \X Hashes
BY DEF TypeOK, Follower, Height

LEMMA BackfillerFields ==
  ASSUME TypeOK
  PROVE  /\ backfiller.asset \in Assets /\ backfiller.next \in Nat /\ backfiller.stored \in Nat
         /\ backfiller.floor \in Nat /\ backfiller.from \in Nat /\ backfiller.logs \subseteq Row
BY DEF TypeOK, Backfiller, Height

LEMMA CursorFields ==
  ASSUME TypeOK, NEW a \in Assets
  PROVE  /\ cursors[a] \in Cursor /\ cursors[a].anchor \in Nat /\ cursors[a].next \in Nat
         /\ cursors[a].floor \in Nat /\ cursors[a].tail \in Nat /\ cursors[a].done \in BOOLEAN
BY DEF TypeOK, Cursor, Height

LEMMA IdleTypes == IdleFollower \in Follower /\ IdleBackfiller \in Backfiller
<1>1. IdleFollower \in Follower
  BY DEF IdleFollower, Follower, Height
<1>2. (CHOOSE a \in Assets : TRUE) \in Assets
  BY IndexerAssumption
<1>4. IdleBackfiller \in Backfiller
  BY <1>2 DEF IdleBackfiller, Backfiller, Height
<1> QED BY <1>1, <1>4

LEMMA Disturbs ==
  ASSUME TypeOK, NEW kind \in Disturbance, Disturb(kind)
  PROVE  /\ Seen(kind)' # 0
         /\ \A k \in Disturbance : Seen(k)' = 0 => Seen(k) = 0
         /\ trouble' \in [assets : SUBSET Assets, allowed : [Disturbance -> Nat], seen : [Disturbance -> Nat]]
<1>1. trouble.seen \in [Disturbance -> Nat] /\ trouble.seen[kind] \in Nat
      /\ trouble \in [assets : SUBSET Assets, allowed : [Disturbance -> Nat], seen : [Disturbance -> Nat]]
  BY DEF TypeOK
<1>2. PICK f : f = [trouble.seen EXCEPT ![kind] = @ + 1]
  OBVIOUS
<1>3. trouble' = [trouble EXCEPT !.seen = f]
  BY <1>2 DEF Disturb
<1>4. f \in [Disturbance -> Nat] /\ f[kind] = trouble.seen[kind] + 1
      /\ \A k \in Disturbance : k # kind => f[k] = trouble.seen[k]
  BY <1>1, <1>2
<1>5. trouble'.seen = f
  BY <1>1, <1>3
<1>6. trouble' \in [assets : SUBSET Assets, allowed : [Disturbance -> Nat], seen : [Disturbance -> Nat]]
  BY <1>1, <1>3, <1>4
<1> QED BY <1>1, <1>4, <1>5, <1>6 DEF Seen

\* Every step leaves the trouble as it is or adds one.
LEMMA TroubleStep ==
  ASSUME TypeOK, [Next]_vars
  PROVE  /\ \A k \in Disturbance : Seen(k)' = 0 => Seen(k) = 0
         /\ trouble' \in [assets : SUBSET Assets, allowed : [Disturbance -> Nat], seen : [Disturbance -> Nat]]
<1>1. CASE trouble' = trouble
  BY <1>1 DEF Seen, TypeOK
<1>2. ASSUME NEW kind \in Disturbance, Disturb(kind)
      PROVE  /\ \A k \in Disturbance : Seen(k)' = 0 => Seen(k) = 0
             /\ trouble' \in [assets : SUBSET Assets, allowed : [Disturbance -> Nat],
                              seen : [Disturbance -> Nat]]
  BY <1>2, Disturbs
<1>3. {"blocks", "revokes", "resyncs", "reorgs", "shrunk", "blind", "prunes", "lost", "aborts", "torn",
       "unfloored"} = Disturbance
  BY DEF Disturbance
<1>4. CASE UNCHANGED vars
  BY <1>1, <1>4 DEF vars
<1>5. CASE NodeNext
  BY <1>2, <1>3, <1>5 DEF NodeNext, Mine, Reorg, Prune
<1>6. CASE AssetNext
  BY <1>1, <1>2, <1>3, <1>6 DEF AssetNext, Revoke, Register, ResyncRead, Resync, AbortSync
<1>7. CASE FollowStep
  BY <1>1, <1>7 DEF FollowStep, FollowHead, CheckHeader, ReorgChecked, DropPendingFrom, RewindTail,
     ListCursors, SweepRead, InsertPending, PromoteChunk, AdvanceTail, PromoteTick
<1>8. CASE BackfillStep
  BY <1>1, <1>8 DEF BackfillStep, BackfillOn, BackfillPick, BackfillAsset, BackfillFloor, BackfillScanning, BackfillLogs,
     BackfillReprobe, BackfillFold, BackfillAdvance, FinishDone, FinishFloor, FinishLive
<1>9. CASE FaultNext
  BY <1>2, <1>3, <1>9 DEF FaultNext, CheckHeader, AbortFollow, AbortBackfill, BackfillPick,
     BackfillLogs, BackfillReprobe
<1> QED BY <1>4, <1>5, <1>6, <1>7, <1>8, <1>9 DEF Next

-----------------------------------------------------------------------------
(* What the node's steps do.                                               *)

LEMMA MineDoes ==
  ASSUME TypeOK, NEW h \in MinedHashes, Mine(h)
  PROVE  /\ chain' \in Seq(Hashes) /\ Len(chain') = Len(chain) + 1
         /\ \A i \in 1 .. Len(chain) : chain'[i] = chain[i]
         /\ final' = IF final >= Len(chain) + 1 - Confirmations THEN final
                     ELSE Len(chain) + 1 - Confirmations
         /\ final' \in Nat
<1>1. chain \in Seq(Hashes) /\ h \in Hashes /\ chain' = Append(chain, h) /\ final \in Nat
      /\ Len(chain) + 1 - Confirmations \in Int /\ final \in Int
      /\ final' = Max({final, Len(chain) + 1 - Confirmations})
  BY IndexerAssumption DEF TypeOK, Mine
<1>2. final' = IF final >= Len(chain) + 1 - Confirmations THEN final
               ELSE Len(chain) + 1 - Confirmations
  BY <1>1, MaxOfTwo
<1> QED BY <1>1, <1>2

LEMMA ForkFacts ==
  ASSUME NEW c \in Seq(Hashes), NEW k \in 1 .. Len(c), NEW n \in 1 .. Len(c) - k + 1,
         NEW fork \in [1 .. n -> Hashes]
  PROVE  /\ SubSeq(c, 1, k - 1) \o fork \in Seq(Hashes)
         /\ Len(SubSeq(c, 1, k - 1) \o fork) = k - 1 + n
         /\ \A i \in 1 .. k - 1 : (SubSeq(c, 1, k - 1) \o fork)[i] = c[i]
<1>1. fork \in Seq(Hashes) /\ Len(fork) = n
  OBVIOUS
<1>2. PICK s : s = SubSeq(c, 1, k - 1)
  OBVIOUS
<1>3. s \in Seq(Hashes) /\ Len(s) = k - 1 /\ \A i \in 1 .. k - 1 : s[i] = c[i]
  BY <1>2
<1>4. s \o fork \in Seq(Hashes) /\ Len(s \o fork) = Len(s) + Len(fork)
      /\ \A i \in 1 .. Len(s) : (s \o fork)[i] = s[i]
  <2>1. s \in Seq(Hashes) /\ fork \in Seq(Hashes)
    BY <1>1, <1>3
  <2> QED BY ONLY <2>1
<1>5. Len(s \o fork) = k - 1 + n
  BY <1>1, <1>3, <1>4
<1>6. \A i \in 1 .. k - 1 : (s \o fork)[i] = c[i]
  BY <1>3, <1>4
<1> QED BY <1>2, <1>4, <1>5, <1>6

LEMMA ReorgDoes ==
  ASSUME TypeOK, NEW k \in DOMAIN chain, NEW fork \in Forks(k), Reorg(k, fork)
  PROVE  /\ chain' \in Seq(Hashes) /\ Len(chain') \in Nat /\ k <= Len(chain') /\ Len(chain') <= Len(chain)
         /\ k \in Nat /\ k >= 1 /\ k > final
         /\ \A i \in 1 .. k - 1 : chain'[i] = chain[i]
         /\ Reorgs' # 0
         /\ Seen("shrunk")' = 0 => Len(chain') = Len(chain)
         /\ Seen("shrunk")' = 0 /\ Seen("blind")' = 0 =>
              \A b \in k .. Len(chain) : LogsOf[chain[b]] = Assets
<1>1. chain \in Seq(Hashes) /\ Len(chain) \in Nat /\ k \in 1 .. Len(chain)
  BY DEF TypeOK
<1>2. PICK n \in 1 .. Len(chain) - k + 1 : fork \in [1 .. n -> Hashes]
  BY DEF Forks
<1>3. /\ chain' \in Seq(Hashes) /\ Len(chain') = k - 1 + n
      /\ \A i \in 1 .. k - 1 : chain'[i] = chain[i]
  BY <1>1, <1>2, ForkFacts DEF Reorg
<1>4. Len(fork) = n /\ n \in Nat
  BY <1>1, <1>2
<1>5. PICK kind : kind = IF k + Len(fork) <= Len(chain) THEN "shrunk"
                         ELSE IF \E b \in k .. Len(chain) : LogsOf[chain[b]] # Assets THEN "blind"
                         ELSE "reorgs"
  OBVIOUS
<1>6. Disturb(kind) /\ kind \in Disturbance
  BY <1>5 DEF Reorg, Disturbance
<1>7. Seen(kind)' # 0 /\ kind \in {"shrunk", "blind", "reorgs"}
      /\ trouble' \in [assets : SUBSET Assets, allowed : [Disturbance -> Nat], seen : [Disturbance -> Nat]]
  BY <1>5, <1>6, Disturbs
<1>8. Reorgs' # 0
  <2>1. Seen("shrunk")' \in Nat /\ Seen("blind")' \in Nat /\ Seen("reorgs")' \in Nat
    BY <1>7 DEF Seen, Disturbance
  <2> QED BY <1>7, <2>1 DEF Reorgs
<1>9. Seen("shrunk")' = 0 => k + n > Len(chain)
  BY <1>1, <1>4, <1>5, <1>7
<1>10. Seen("shrunk")' = 0 /\ Seen("blind")' = 0 => \A b \in k .. Len(chain) : LogsOf[chain[b]] = Assets
  BY <1>5, <1>7
<1>11. k > final
  BY DEF Reorg
<1>12. k \in Nat /\ n \in Nat /\ n <= Len(chain) - k + 1 /\ k <= Len(chain)
  BY <1>1, <1>4
<1>13. Len(chain') <= Len(chain) /\ Len(chain') \in Nat /\ Len(chain') = k + n - 1
  BY <1>1, <1>3, <1>12
<1>14. Seen("shrunk")' = 0 => Len(chain') = Len(chain)
  BY <1>1, <1>9, <1>12, <1>13
<1> QED BY <1>1, <1>3, <1>8, <1>10, <1>11, <1>13, <1>14

-----------------------------------------------------------------------------
(* What the follower's steps do to its tick.                               *)

LEMMA FollowHeadDoes ==
  ASSUME TypeOK, NEW H \in BufferedHashes, FollowHead(H)
  PROVE  /\ follower' \in Follower /\ follower'.pc = "reorg" /\ follower'.head = Len(chain)
         /\ follower'.hashes = H /\ follower'.logs = {} /\ follower'.todo = {}
<1>1. H \subseteq Height \X Hashes
  BY DEF BufferedHashes, TypeOK, Row
<1>2. Len(chain) \in Height
  BY DEF TypeOK, Height
<1>3. follower' = [IdleFollower EXCEPT !.pc = "reorg", !.head = Len(chain), !.hashes = H]
  BY DEF FollowHead
<1>4. follower' \in Follower
  BY <1>1, <1>2, <1>3, IdleTypes DEF Follower
<1>5. /\ follower'.pc = "reorg" /\ follower'.head = Len(chain)
      /\ follower'.hashes = H /\ follower'.logs = {} /\ follower'.todo = {}
  BY <1>3 DEF IdleFollower
<1> QED BY <1>4, <1>5

LEMMA CheckHeaderDoes ==
  ASSUME TypeOK, NEW lost \in BOOLEAN, CheckHeader(lost)
  PROVE  \E b \in Nat :
           /\ \E p \in follower.hashes : p[1] = b
           /\ \A p \in follower.hashes : b <= p[1]
           /\ follower' \in Follower /\ follower'.head = follower.head
           /\ follower'.logs = follower.logs /\ follower'.todo = follower.todo
           /\ \/ /\ follower'.pc = "reorg" /\ b <= Len(chain) /\ <<b, chain[b]>> \in follower.hashes
                 /\ follower'.hashes = {p \in follower.hashes : p[1] # b}
              \/ /\ follower'.pc = "drop" /\ follower'.hashes = {} /\ follower'.at = b
                 /\ lost \/ ~(b <= Len(chain) /\ <<b, chain[b]>> \in follower.hashes)
<1> DEFINE B == {p[1] : p \in follower.hashes}
<1>1. B \in SUBSET Nat /\ B # {} /\ follower.pc = "reorg" /\ follower \in Follower
  BY FollowerFields DEF CheckHeader, TypeOK
<1>2. PICK b : b = Min(B)
  OBVIOUS
<1>3. b \in B /\ \A e \in B : b <= e
  BY <1>1, <1>2, LeastOf, LeastBelow
<1>4. PICK same \in BOOLEAN : same = (~lost /\ b <= Len(chain) /\ <<b, chain[b]>> \in follower.hashes)
  OBVIOUS
<1>5. follower' = IF same THEN [follower EXCEPT !.hashes = {p \in follower.hashes : p[1] # b}]
                  ELSE [follower EXCEPT !.pc = "drop", !.hashes = {}, !.at = b]
  BY <1>2, <1>4 DEF CheckHeader
<1>6. CASE same
  <2>1. {p \in follower.hashes : p[1] # b} \subseteq Height \X Hashes
    BY <1>1 DEF Follower
  <2>2. follower' \in Follower /\ follower'.head = follower.head
        /\ follower'.logs = follower.logs /\ follower'.todo = follower.todo
        /\ follower'.pc = "reorg" /\ follower'.hashes = {p \in follower.hashes : p[1] # b}
    BY <1>1, <1>5, <1>6, <2>1 DEF Follower
  <2> QED BY <1>1, <1>3, <1>4, <1>6, <2>2
<1>7. CASE ~same
  <2>1. b \in Height
    BY <1>1, <1>3 DEF Height
  <2>2. follower' \in Follower /\ follower'.head = follower.head
        /\ follower'.logs = follower.logs /\ follower'.todo = follower.todo
        /\ follower'.pc = "drop" /\ follower'.hashes = {} /\ follower'.at = b
    BY <1>1, <1>5, <1>7, <2>1 DEF Follower
  <2> QED BY <1>1, <1>3, <1>4, <1>7, <2>2
<1> QED BY <1>6, <1>7

LEMMA ReorgCheckedDoes ==
  ASSUME TypeOK, ReorgChecked
  PROVE  /\ follower' \in Follower /\ follower'.pc = "cursors" /\ follower'.head = follower.head
         /\ follower'.hashes = {} /\ follower'.logs = follower.logs /\ follower'.todo = follower.todo
BY DEF TypeOK, ReorgChecked, Follower

LEMMA DropDoes ==
  ASSUME TypeOK, DropPendingFrom
  PROVE  /\ follower' \in Follower /\ follower'.pc = "rewind" /\ follower'.head = follower.head
         /\ follower'.hashes = follower.hashes /\ follower'.logs = follower.logs
         /\ follower'.todo = follower.todo /\ follower'.at = follower.at
BY DEF TypeOK, DropPendingFrom, Follower

LEMMA RewindDoes ==
  ASSUME TypeOK, RewindTail
  PROVE  /\ follower' \in Follower /\ follower'.pc = "cursors" /\ follower'.head = follower.head
         /\ follower'.hashes = follower.hashes /\ follower'.logs = follower.logs
         /\ follower'.todo = follower.todo
         /\ cursors' \in [Assets -> Cursor]
         /\ \A a \in Assets :
              /\ cursors'[a].anchor = cursors[a].anchor /\ cursors'[a].next = cursors[a].next
              /\ cursors'[a].done = cursors[a].done /\ cursors'[a].floor = cursors[a].floor
              /\ cursors'[a].tail <= cursors[a].tail
              /\ follower.at >= 1 => cursors'[a].tail = cursors[a].tail \/ cursors'[a].tail = follower.at - 1
              /\ follower.at >= 1 => cursors'[a].tail < follower.at
              /\ follower.at = 0 => cursors'[a].tail = 0
<1>1. /\ follower' \in Follower /\ follower'.pc = "cursors" /\ follower'.head = follower.head
      /\ follower'.hashes = follower.hashes /\ follower'.logs = follower.logs
      /\ follower'.todo = follower.todo
  BY DEF TypeOK, RewindTail, Follower, Height
<1>2. PICK n \in Nat : n = IF follower.at > 0 THEN follower.at - 1 ELSE 0
  BY FollowerFields
<1>3. cursors' = [a \in Assets |-> [cursors[a] EXCEPT !.tail = Min({cursors[a].tail, n})]]
  BY <1>2 DEF RewindTail
<1>4. ASSUME NEW a \in Assets
      PROVE  /\ cursors'[a] \in Cursor
             /\ cursors'[a].anchor = cursors[a].anchor /\ cursors'[a].next = cursors[a].next
             /\ cursors'[a].done = cursors[a].done /\ cursors'[a].floor = cursors[a].floor
             /\ cursors'[a].tail = IF cursors[a].tail <= n THEN cursors[a].tail ELSE n
  <2>1. PICK m : m = Min({cursors[a].tail, n})
    OBVIOUS
  <2>2. m = (IF cursors[a].tail <= n THEN cursors[a].tail ELSE n) /\ m \in Nat
    <3>1. cursors[a].tail \in Nat
      BY CursorFields
    <3>2. cursors[a].tail \in Int /\ n \in Int
      BY <3>1
    <3>3. m = IF cursors[a].tail <= n THEN cursors[a].tail ELSE n
      BY <2>1, <3>2, MinOfTwo
    <3> QED BY <3>1, <3>3
  <2>3. cursors'[a] = [cursors[a] EXCEPT !.tail = m]
    BY <1>3, <2>1
  <2> QED BY <2>2, <2>3, CursorFields DEF Cursor, Height
<1>5. ASSUME NEW a \in Assets
      PROVE  /\ cursors'[a].tail <= cursors[a].tail
             /\ follower.at >= 1 => cursors'[a].tail = cursors[a].tail \/ cursors'[a].tail = follower.at - 1
             /\ follower.at >= 1 => cursors'[a].tail < follower.at
             /\ follower.at = 0 => cursors'[a].tail = 0
  BY <1>2, <1>4, CursorFields, FollowerFields
<1>6. cursors' \in [Assets -> Cursor]
  BY <1>3, <1>4
<1> QED BY <1>1, <1>4, <1>5, <1>6

LEMMA IdleFacts ==
  /\ IdleFollower \in Follower /\ IdleFollower.pc = "idle" /\ IdleFollower.logs = {}
  /\ IdleFollower.todo = {} /\ IdleFollower.hashes = {} /\ IdleFollower.head = 0
  /\ IdleBackfiller \in Backfiller /\ IdleBackfiller.pc = "idle" /\ IdleBackfiller.logs = {}
BY IdleTypes DEF IdleFollower, IdleBackfiller

LEMMA ListCursorsDoes ==
  ASSUME TypeOK, ListCursors
  PROVE  \/ follower' = IdleFollower
         \/ /\ follower' \in Follower /\ follower'.pc = "promote" /\ follower'.head = follower.head
            /\ follower'.hashes = follower.hashes /\ follower'.logs = follower.logs
            /\ follower'.todo = follower.todo
         \/ /\ follower' \in Follower /\ follower'.pc = "sweep" /\ follower'.head = follower.head
            /\ follower'.hashes = follower.hashes /\ follower'.logs = follower.logs
            /\ follower'.todo = Listed /\ follower'.from <= follower.head
            /\ \A a \in Listed : follower'.from <= cursors[a].tail + 1 /\ follower'.tails[a] = cursors[a].tail
<1> DEFINE B == {cursors[a].tail + 1 : a \in Listed}
<1>1. PICK from : from = Min(B)
  OBVIOUS
<1>2. PICK tails : tails = [a \in Assets |-> IF a \in Listed THEN cursors[a].tail ELSE 0]
  OBVIOUS
<1>3. follower' = IF Listed = {} THEN IdleFollower
                  ELSE IF from > follower.head THEN [follower EXCEPT !.pc = "promote"]
                  ELSE [follower EXCEPT !.pc = "sweep", !.from = from, !.todo = Listed, !.tails = tails]
  BY <1>1, <1>2 DEF ListCursors
<1>4. CASE Listed = {}
  BY <1>3, <1>4
<1>5. CASE Listed # {} /\ from > follower.head
  BY <1>3, <1>5 DEF TypeOK, Follower
<1>6. CASE Listed # {} /\ ~(from > follower.head)
  <2>1. \A a \in Assets : cursors[a].tail \in Nat
    BY CursorFields
  <2>2. Listed \in SUBSET Assets
    BY DEF Listed
  <2>3. B \in SUBSET Nat /\ B # {}
    BY <1>6, <2>1, <2>2
  <2>4. from \in B /\ \A e \in B : from <= e
    BY <1>1, <2>3, LeastOf, LeastBelow
  <2>5. from \in Height /\ tails \in [Assets -> Height]
    BY <1>2, <2>1, <2>3, <2>4 DEF Height
  <2>6. follower' = [follower EXCEPT !.pc = "sweep", !.from = from, !.todo = Listed, !.tails = tails]
    BY <1>3, <1>6
  <2>7. /\ follower' \in Follower /\ follower'.pc = "sweep" /\ follower'.head = follower.head
        /\ follower'.hashes = follower.hashes /\ follower'.logs = follower.logs
        /\ follower'.todo = Listed /\ follower'.from = from /\ follower'.tails = tails
    BY <2>2, <2>5, <2>6 DEF TypeOK, Follower
  <2>8. from <= follower.head
    BY <1>6, <2>5, FollowerFields DEF Height
  <2>9. \A a \in Listed : from <= cursors[a].tail + 1 /\ tails[a] = cursors[a].tail
    BY <1>2, <2>2, <2>4
  <2> QED BY <2>7, <2>8, <2>9
<1> QED BY <1>4, <1>5, <1>6

\* What eth_getLogs returns.
LEMMA LogsFacts ==
  ASSUME TypeOK, NEW from \in Nat, NEW to \in Nat, NEW as \in SUBSET Assets
  PROVE  /\ Logs(from, to, as) \subseteq Row
         /\ \A r \in Logs(from, to, as) :
              /\ from <= r.block /\ r.block <= to /\ Canonical(r) /\ r.block >= 1 /\ r.asset \in as
         /\ \A a \in as, b \in Nat : from <= b /\ b <= to /\ Emits(a, b) => RowAt(a, b) \in Logs(from, to, as)
<1>1. chain \in Seq(Hashes) /\ Len(chain) \in Nat
  BY DEF TypeOK
<1>2. Within(from, to) \subseteq Nat /\ \A b \in Within(from, to) : from <= b /\ b <= to /\ 1 <= b /\ b <= Len(chain)
  BY DEF Within
<1>3. ASSUME NEW r \in Logs(from, to, as)
      PROVE  /\ r \in Row /\ from <= r.block /\ r.block <= to /\ Canonical(r) /\ r.block >= 1 /\ r.asset \in as
  <2>1. /\ r \in [block : Within(from, to), hash : Hashes, asset : as] /\ chain[r.block] = r.hash
    BY DEF Logs
  <2>2. r.block \in Within(from, to) /\ r.asset \in as
    BY <2>1
  <2>3. r \in Row
    BY <1>2, <2>1 DEF Row, Height
  <2>4. r.block \in Nat /\ from <= r.block /\ r.block <= to /\ 1 <= r.block /\ r.block <= Len(chain)
    BY <1>2, <2>2
  <2>5. r.block \in 1 .. Len(chain)
    BY <1>1, <2>4
  <2> QED BY <2>1, <2>2, <2>3, <2>4, <2>5 DEF Canonical
<1>4. ASSUME NEW a \in as, NEW b \in Nat, from <= b, b <= to, Emits(a, b)
      PROVE  RowAt(a, b) \in Logs(from, to, as)
  <2>1. b \in 1 .. Len(chain) /\ chain[b] \in Hashes /\ a \in LogsOf[chain[b]]
    BY <1>1, <1>4 DEF Emits
  <2>2. b \in Within(from, to)
    BY <1>1, <1>4, <2>1 DEF Within
  <2>3. PICK r : r = RowAt(a, b)
    OBVIOUS
  <2>4. r \in [block : Within(from, to), hash : Hashes, asset : as] /\ r.block = b /\ r.hash = chain[b]
        /\ r.asset = a
    BY <2>1, <2>2, <2>3 DEF RowAt
  <2> QED BY <2>1, <2>3, <2>4 DEF Logs
<1> QED BY <1>3, <1>4

LEMMA SweepReadDoes ==
  ASSUME TypeOK, NEW to \in follower.from .. follower.head, SweepRead(to)
  PROVE  /\ follower' \in Follower /\ follower'.pc = "insert" /\ follower'.head = follower.head
         /\ follower'.hashes = follower.hashes /\ follower'.from = follower.from
         /\ follower'.todo = follower.todo /\ follower'.tails = follower.tails
         /\ follower'.to = to /\ follower'.logs = Kept(follower.from, to)
         /\ to \in Nat /\ follower.from <= to /\ to <= follower.head
<1>1. to \in Nat /\ follower.from <= to /\ to <= follower.head /\ follower.from \in Nat
      /\ follower.todo \in SUBSET Assets
  BY FollowerFields
<1>2. PICK logs : logs = Kept(follower.from, to)
  OBVIOUS
<1>3. logs \in SUBSET Row
  <2>1. Logs(follower.from, to, follower.todo) \subseteq Row
    BY <1>1, LogsFacts
  <2> QED BY <1>2, <2>1 DEF Kept
<1>4. follower' = [follower EXCEPT !.pc = "insert", !.to = to, !.logs = logs]
  BY <1>2 DEF SweepRead
<1>5. /\ follower' \in Follower /\ follower'.pc = "insert" /\ follower'.head = follower.head
      /\ follower'.hashes = follower.hashes /\ follower'.from = follower.from
      /\ follower'.todo = follower.todo /\ follower'.tails = follower.tails
      /\ follower'.to = to /\ follower'.logs = logs
  BY <1>1, <1>3, <1>4 DEF TypeOK, Follower, Height
<1> QED BY <1>1, <1>2, <1>5

LEMMA InsertDoes ==
  ASSUME TypeOK, InsertPending
  PROVE  /\ follower' \in Follower /\ follower'.pc = "chunk" /\ follower'.head = follower.head
         /\ follower'.hashes = follower.hashes /\ follower'.from = follower.from
         /\ follower'.todo = follower.todo /\ follower'.tails = follower.tails
         /\ follower'.to = follower.to /\ follower'.logs = {}
BY DEF TypeOK, InsertPending, Follower

LEMMA PromoteChunkDoes ==
  ASSUME TypeOK, PromoteChunk
  PROVE  /\ follower' \in Follower /\ follower'.head = follower.head
         /\ follower'.hashes = follower.hashes /\ follower'.logs = follower.logs
         /\ follower'.todo = follower.todo /\ follower'.tails = follower.tails
         /\ \/ follower.to = follower.head /\ follower'.pc = "advance"
            \/ follower.to # follower.head /\ follower'.pc = "sweep" /\ follower'.from = follower.to + 1
<1>1. follower.to + 1 \in Height
  BY FollowerFields DEF Height
<1>2. CASE follower.to = follower.head
  BY <1>2 DEF TypeOK, PromoteChunk, Follower
<1>3. CASE follower.to # follower.head
  <2>1. follower' = [follower EXCEPT !.pc = "sweep", !.from = follower.to + 1]
    BY <1>3 DEF PromoteChunk
  <2> QED BY <1>1, <1>3, <2>1 DEF TypeOK, Follower
<1> QED BY <1>2, <1>3

LEMMA AdvanceTailDoes ==
  ASSUME TypeOK, NEW a \in follower.todo, AdvanceTail(a)
  PROVE  /\ a \in Assets
         /\ follower' \in Follower /\ follower'.head = follower.head
         /\ follower'.hashes = follower.hashes /\ follower'.logs = follower.logs
         /\ follower'.todo = follower.todo \ {a} /\ follower'.tails = follower.tails
         /\ \/ follower'.pc = "advance"
            \/ follower'.pc = "promote" /\ follower'.todo = {}
         /\ cursors' \in [Assets -> Cursor]
         /\ cursors'[a].tail = IF cursors[a].tail >= follower.head THEN cursors[a].tail ELSE follower.head
         /\ \A c \in Assets : c # a => cursors'[c] = cursors[c]
         /\ \A c \in Assets :
              /\ cursors'[c].anchor = cursors[c].anchor /\ cursors'[c].next = cursors[c].next
              /\ cursors'[c].done = cursors[c].done /\ cursors'[c].floor = cursors[c].floor
<1>1. a \in Assets /\ cursors[a] \in Cursor /\ cursors \in [Assets -> Cursor]
      /\ cursors[a].tail \in Int /\ follower.head \in Int
      /\ cursors[a].tail \in Nat /\ follower.head \in Nat
  BY FollowerFields, CursorFields DEF TypeOK
<1>2. PICK m : m = Max({cursors[a].tail, follower.head})
  OBVIOUS
<1>3. m = IF cursors[a].tail >= follower.head THEN cursors[a].tail ELSE follower.head
  BY <1>1, <1>2, MaxOfTwo
<1>4. m \in Nat
  BY <1>1, <1>3
<1>5. cursors' = [cursors EXCEPT ![a] = [cursors[a] EXCEPT !.tail = m]]
  BY <1>1, <1>2 DEF AdvanceTail
<1>6. PICK c1 : c1 = [cursors[a] EXCEPT !.tail = m]
  OBVIOUS
<1>7. c1 \in Cursor /\ c1.tail = m /\ c1.anchor = cursors[a].anchor /\ c1.next = cursors[a].next
      /\ c1.done = cursors[a].done /\ c1.floor = cursors[a].floor
  BY <1>1, <1>4, <1>6 DEF Cursor, Height
<1>8. cursors' \in [Assets -> Cursor] /\ cursors'[a] = c1 /\ \A c \in Assets : c # a => cursors'[c] = cursors[c]
  BY <1>1, <1>5, <1>6, <1>7
<1>9. PICK pc : pc = IF follower.todo = {a} THEN "promote" ELSE follower.pc
  OBVIOUS
<1>10. follower' = [follower EXCEPT !.todo = follower.todo \ {a}, !.pc = pc] /\ follower.pc = "advance"
  BY <1>9 DEF AdvanceTail
<1>11. /\ follower' \in Follower /\ follower'.head = follower.head
       /\ follower'.hashes = follower.hashes /\ follower'.logs = follower.logs
       /\ follower'.todo = follower.todo \ {a} /\ follower'.tails = follower.tails /\ follower'.pc = pc
  BY <1>9, <1>10 DEF TypeOK, Follower
<1>12. follower'.pc = "advance" \/ (follower'.pc = "promote" /\ follower'.todo = {})
  BY <1>9, <1>10, <1>11
<1>13. \A c \in Assets : /\ cursors'[c].anchor = cursors[c].anchor /\ cursors'[c].next = cursors[c].next
                         /\ cursors'[c].done = cursors[c].done /\ cursors'[c].floor = cursors[c].floor
  BY <1>7, <1>8
<1> QED BY <1>1, <1>3, <1>7, <1>8, <1>11, <1>12, <1>13

-----------------------------------------------------------------------------
(* What registration and the backfiller's steps do.                        *)

LEMMA AnchoredDoes ==
  ASSUME TypeOK, NEW a \in Assets, NEW n \in 1 .. Len(chain),
         cursors' = [cursors EXCEPT ![a] = Anchored(@, n)]
  PROVE  /\ cursors' \in [Assets -> Cursor]
         /\ cursors'[a].anchor = n /\ cursors'[a].tail = n /\ cursors'[a].next = n - 1
         /\ cursors'[a].done = FALSE
         /\ \A c \in Assets : c # a => cursors'[c] = cursors[c]
<1>1. n \in Nat /\ n - 1 \in Nat /\ BackfillStart(n) = n - 1
  BY DEF TypeOK, BackfillStart
<1>2. PICK c1 : c1 = Anchored(cursors[a], n)
  OBVIOUS
<1>3. cursors[a] \in Cursor /\ cursors \in [Assets -> Cursor]
  BY CursorFields DEF TypeOK
<1>4. c1 = [cursors[a] EXCEPT !.anchor = n, !.next = n - 1, !.done = FALSE, !.tail = n]
  BY <1>1, <1>2 DEF Anchored
<1>5. c1 \in Cursor /\ c1.anchor = n /\ c1.tail = n /\ c1.next = n - 1 /\ c1.done = FALSE
  BY <1>1, <1>3, <1>4 DEF Cursor, Height
<1>6. cursors' = [cursors EXCEPT ![a] = c1]
  BY <1>2, <1>3
<1> QED BY <1>3, <1>5, <1>6

LEMMA AnchorsFacts ==
  ASSUME TypeOK, NEW n \in Anchors
  PROVE  n \in 1 .. Len(chain)
BY DEF Anchors

\* The step that stores a floor is made of two actions, and so is the one that sets a status.
LEMMA PickDoes ==
  ASSUME TypeOK, NEW a \in Assets, NEW probed \in BOOLEAN, BackfillPick(a, probed)
  PROVE  /\ backfiller' \in Backfiller /\ backfiller'.pc = "asset" /\ backfiller'.asset = a
         /\ backfiller'.next = cursors[a].next /\ backfiller'.stored = cursors[a].floor
         /\ backfiller'.logs = {}
         /\ historyFloor' \in Nat \cup {-1} /\ status[a] # "none" /\ ~cursors[a].done
<1>1. backfiller' = [IdleBackfiller EXCEPT !.pc = "asset", !.asset = a,
                       !.next = cursors[a].next, !.stored = cursors[a].floor]
      /\ a \in Listed /\ ~cursors[a].done
      /\ historyFloor' = IF historyFloor = -1 /\ probed THEN horizon ELSE historyFloor
  BY DEF BackfillPick
<1>2. cursors[a].next \in Height /\ cursors[a].floor \in Height
  BY CursorFields DEF Height
<1>3. backfiller' \in Backfiller
  BY <1>1, <1>2, IdleTypes DEF Backfiller
<1>4. backfiller'.pc = "asset" /\ backfiller'.asset = a
         /\ backfiller'.next = cursors[a].next /\ backfiller'.stored = cursors[a].floor
         /\ backfiller'.logs = {}
  BY <1>1 DEF IdleBackfiller
<1>5. historyFloor' \in Nat \cup {-1}
  BY <1>1 DEF TypeOK
<1>6. status[a] # "none"
  BY <1>1 DEF Listed
<1> QED BY <1>1, <1>3, <1>4, <1>5, <1>6

LEMMA AssetDoes ==
  ASSUME TypeOK, BackfillAsset
  PROVE  /\ backfiller.pc = "asset" /\ UNCHANGED <<status, cursors, historyFloor, rollup>>
         /\ backfiller' \in Backfiller
         /\ backfiller'.asset = backfiller.asset /\ backfiller'.next = backfiller.next
         /\ backfiller'.logs = backfiller.logs /\ backfiller'.floor \in Nat
         /\ \/ backfiller'.pc = "done" /\ backfiller.next < backfiller'.floor
            \/ /\ backfiller'.pc \in {"floor", "scan", "logs"} /\ backfiller'.floor <= backfiller.next
               /\ backfiller'.pc # "floor" => backfiller'.floor = backfiller.stored
<1>1. PICK a, floor : a = backfiller.asset /\ floor = ResolveBackfillFloor(a)
  OBVIOUS
<1>2. a \in Assets /\ backfiller.next \in Nat /\ backfiller.stored \in Nat
      /\ historyFloor \in Nat \cup {-1} /\ HintFrom[a] \in Nat /\ backfiller \in Backfiller
  BY <1>1, BackfillerFields, IndexerAssumption DEF TypeOK
<1>3. floor \in Nat
  <2>1. HintFrom[a] \in Int /\ historyFloor \in Int
    BY <1>2
  <2>2. floor = IF HintFrom[a] >= historyFloor THEN HintFrom[a] ELSE historyFloor
    BY <1>1, <2>1, MaxOfTwo DEF ResolveBackfillFloor
  <2> QED BY <1>2, <2>2
<1>4. PICK pc, fresh :
        /\ pc = IF backfiller.next < floor THEN "done"
                ELSE IF backfiller.stored # floor THEN "floor"
                ELSE IF status[a] = "pending" THEN "scan" ELSE "logs"
        /\ fresh = (status[a] = "pending")
  OBVIOUS
<1>5. backfiller.pc = "asset" /\ UNCHANGED <<status, cursors, historyFloor, rollup>>
      /\ backfiller' = [backfiller EXCEPT !.floor = floor, !.fresh = fresh, !.pc = pc]
  BY <1>1, <1>4 DEF BackfillAsset, tableVars
<1>6. fresh \in BOOLEAN /\ pc \in {"done", "floor", "scan", "logs"}
  BY <1>4
<1>7. backfiller' \in Backfiller /\ backfiller'.pc = pc /\ backfiller'.floor = floor
      /\ backfiller'.asset = backfiller.asset /\ backfiller'.next = backfiller.next
      /\ backfiller'.logs = backfiller.logs
  BY <1>2, <1>3, <1>5, <1>6 DEF Backfiller, Height
<1> QED BY <1>2, <1>3, <1>4, <1>5, <1>7

LEMMA FloorDoes ==
  ASSUME TypeOK, BackfillFloor \/ FinishFloor
  PROVE  /\ UNCHANGED <<status, historyFloor, rollup>>
         /\ \/ backfiller.pc = "floor" /\ backfiller'.pc \in {"scan", "logs"}
            \/ backfiller.pc = "keep" /\ backfiller'.pc = "live"
         /\ backfiller' \in Backfiller
         /\ backfiller'.asset = backfiller.asset /\ backfiller'.next = backfiller.next
         /\ backfiller'.logs = backfiller.logs /\ backfiller'.floor = backfiller.floor
         /\ cursors' \in [Assets -> Cursor]
         /\ cursors'[backfiller.asset].floor = backfiller.floor
         /\ \A a \in Assets : a # backfiller.asset => cursors'[a] = cursors[a]
         /\ \A a \in Assets :
              /\ cursors'[a].anchor = cursors[a].anchor /\ cursors'[a].next = cursors[a].next
              /\ cursors'[a].done = cursors[a].done /\ cursors'[a].tail = cursors[a].tail
<1>1. PICK a, f : a = backfiller.asset /\ f = backfiller.floor
  OBVIOUS
<1>2. a \in Assets /\ f \in Nat /\ cursors[a] \in Cursor /\ cursors \in [Assets -> Cursor]
      /\ backfiller \in Backfiller
  BY <1>1, BackfillerFields, CursorFields DEF TypeOK
<1>3. PICK c1 : c1 = [cursors[a] EXCEPT !.floor = f]
  OBVIOUS
<1>4. c1 \in Cursor /\ c1.floor = f /\ c1.anchor = cursors[a].anchor /\ c1.next = cursors[a].next
      /\ c1.done = cursors[a].done /\ c1.tail = cursors[a].tail
  BY <1>2, <1>3 DEF Cursor, Height
<1>5. cursors' = [cursors EXCEPT ![a] = c1] /\ UNCHANGED <<status, historyFloor, rollup>>
  BY <1>1, <1>2, <1>3 DEF BackfillFloor, FinishFloor
<1>6. cursors' \in [Assets -> Cursor] /\ cursors'[a] = c1
      /\ \A b \in Assets : b # a => cursors'[b] = cursors[b]
  BY <1>2, <1>4, <1>5
<1>7. PICK pc : /\ backfiller' = [backfiller EXCEPT !.pc = pc]
                /\ \/ backfiller.pc = "floor" /\ pc \in {"scan", "logs"}
                   \/ backfiller.pc = "keep" /\ pc = "live"
  BY DEF BackfillFloor, FinishFloor
<1>8. /\ backfiller' \in Backfiller /\ backfiller'.pc = pc
      /\ backfiller'.asset = backfiller.asset /\ backfiller'.next = backfiller.next
      /\ backfiller'.logs = backfiller.logs /\ backfiller'.floor = backfiller.floor
  BY <1>2, <1>7 DEF Backfiller
<1> QED BY <1>1, <1>4, <1>5, <1>6, <1>7, <1>8

LEMMA StatusDoes ==
  ASSUME TypeOK, BackfillScanning \/ FinishLive
  PROVE  /\ UNCHANGED <<cursors, historyFloor, rollup>>
         /\ \/ /\ backfiller.pc = "scan" /\ backfiller'.pc = "logs" /\ backfiller' \in Backfiller
               /\ backfiller'.asset = backfiller.asset /\ backfiller'.next = backfiller.next
               /\ backfiller'.logs = backfiller.logs /\ backfiller'.floor = backfiller.floor
            \/ backfiller.pc = "live" /\ backfiller' = IdleBackfiller
         /\ status' \in [Assets -> Status]
         /\ \A a \in Assets : status[a] # "none" => status'[a] # "none"
         /\ \A a \in Assets : a # backfiller.asset => status'[a] = status[a]
<1>1. backfiller.asset \in Assets /\ status \in [Assets -> Status]
  BY BackfillerFields DEF TypeOK
<1>2. PICK v \in {"scanning", "live"} : status' = [status EXCEPT ![backfiller.asset] = v]
  BY DEF BackfillScanning, FinishLive
<1>3. /\ status' \in [Assets -> Status]
      /\ \A a \in Assets : status[a] # "none" => status'[a] # "none"
      /\ \A a \in Assets : a # backfiller.asset => status'[a] = status[a]
  BY <1>1, <1>2 DEF Status
<1>4. CASE BackfillScanning
  <2>1. backfiller' = [backfiller EXCEPT !.pc = "logs"] /\ backfiller.pc = "scan"
    BY <1>4 DEF BackfillScanning
  <2>2. /\ backfiller'.pc = "logs" /\ backfiller' \in Backfiller
        /\ backfiller'.asset = backfiller.asset /\ backfiller'.next = backfiller.next
        /\ backfiller'.logs = backfiller.logs /\ backfiller'.floor = backfiller.floor
    BY <2>1 DEF TypeOK, Backfiller
  <2> QED BY <1>3, <1>4, <2>1, <2>2 DEF BackfillScanning
<1>5. CASE FinishLive
  BY <1>3, <1>5 DEF FinishLive
<1> QED BY <1>4, <1>5

LEMMA BackfillLogsDoes ==
  ASSUME TypeOK, NEW failed \in BOOLEAN, BackfillLogs(failed)
  PROVE  /\ backfiller.pc = "logs" /\ UNCHANGED <<status, cursors, historyFloor, rollup>>
         /\ backfiller' \in Backfiller
         /\ backfiller'.asset = backfiller.asset /\ backfiller'.next = backfiller.next
         /\ backfiller'.floor = backfiller.floor
         /\ \/ backfiller'.pc = "probe" /\ backfiller'.logs = backfiller.logs
            \/ /\ backfiller'.pc = "fold"
               /\ backfiller.floor <= backfiller.next =>
                    backfiller.floor <= backfiller'.from /\ backfiller'.from <= backfiller.next
               /\ backfiller'.from \in Nat
               /\ backfiller'.logs = Logs(backfiller'.from, backfiller.next, {backfiller.asset})
<1>1. PICK to, from : to = backfiller.next /\ from = WindowStart(to, backfiller.floor)
  OBVIOUS
<1>2. backfiller.asset \in Assets /\ to \in Nat /\ backfiller.floor \in Nat /\ backfiller \in Backfiller
      /\ BackfillWindow \in Nat /\ BackfillWindow > 0
  BY <1>1, BackfillerFields, IndexerAssumption DEF TypeOK
<1>3. backfiller.pc = "logs" /\ UNCHANGED <<status, cursors, historyFloor, rollup>>
  BY DEF BackfillLogs, tableVars
<1>4. from \in Nat /\ (backfiller.floor <= to => backfiller.floor <= from /\ from <= to)
  BY <1>1, <1>2 DEF WindowStart
<1>5. PICK logs : logs = Logs(from, to, {backfiller.asset})
  OBVIOUS
<1>6. logs \in SUBSET Row
  BY <1>2, <1>4, <1>5, LogsFacts
<1>7. \/ backfiller' = [backfiller EXCEPT !.pc = "probe"]
      \/ backfiller' = [backfiller EXCEPT !.pc = "fold", !.from = from, !.logs = logs]
  BY <1>1, <1>5 DEF BackfillLogs
<1>8. CASE backfiller' = [backfiller EXCEPT !.pc = "probe"]
  <2>1. /\ backfiller' \in Backfiller /\ backfiller'.pc = "probe" /\ backfiller'.logs = backfiller.logs
        /\ backfiller'.asset = backfiller.asset /\ backfiller'.next = backfiller.next
        /\ backfiller'.floor = backfiller.floor
    BY <1>2, <1>8 DEF Backfiller
  <2> QED BY <1>3, <2>1
<1>9. CASE backfiller' = [backfiller EXCEPT !.pc = "fold", !.from = from, !.logs = logs]
  <2>1. /\ backfiller' \in Backfiller /\ backfiller'.pc = "fold" /\ backfiller'.logs = logs
        /\ backfiller'.asset = backfiller.asset /\ backfiller'.next = backfiller.next
        /\ backfiller'.floor = backfiller.floor /\ backfiller'.from = from
    BY <1>2, <1>4, <1>6, <1>9 DEF Backfiller, Height
  <2> QED BY <1>1, <1>3, <1>4, <1>5, <2>1
<1> QED BY <1>7, <1>8, <1>9

LEMMA ReprobeDoes ==
  ASSUME TypeOK, NEW probed \in BOOLEAN, BackfillReprobe(probed)
  PROVE  /\ backfiller.pc = "probe" /\ UNCHANGED <<status, cursors, rollup>>
         /\ backfiller' = IdleBackfiller /\ historyFloor' \in Nat \cup {-1}
BY DEF BackfillReprobe, TypeOK

LEMMA FoldDoes ==
  ASSUME TypeOK, BackfillFold
  PROVE  /\ backfiller' \in Backfiller /\ backfiller'.pc = "advance" /\ backfiller'.logs = {}
         /\ backfiller'.asset = backfiller.asset /\ backfiller'.next = backfiller.next
         /\ backfiller'.floor = backfiller.floor /\ backfiller'.from = backfiller.from
BY DEF TypeOK, BackfillFold, Backfiller

LEMMA AdvanceDoes ==
  ASSUME TypeOK, BackfillAdvance
  PROVE  /\ backfiller' \in Backfiller
         /\ \/ /\ backfiller.from <= backfiller.floor
               /\ cursors'[backfiller.asset].done = TRUE
               /\ backfiller'.pc = "done" /\ backfiller'.logs = backfiller.logs
               /\ backfiller'.asset = backfiller.asset /\ backfiller'.floor = backfiller.floor
            \/ /\ ~(backfiller.from <= backfiller.floor)
               /\ cursors'[backfiller.asset].done = FALSE /\ backfiller' = IdleBackfiller
         /\ cursors' \in [Assets -> Cursor]
         /\ cursors'[backfiller.asset].next = IF backfiller.from > 0 THEN backfiller.from - 1 ELSE 0
         /\ \A a \in Assets : a # backfiller.asset => cursors'[a] = cursors[a]
         /\ \A a \in Assets :
              /\ cursors'[a].anchor = cursors[a].anchor /\ cursors'[a].floor = cursors[a].floor
              /\ cursors'[a].tail = cursors[a].tail
<1>1. PICK a, n, d : a = backfiller.asset /\ n = NextBelow(backfiller.from)
                     /\ d = (backfiller.from <= backfiller.floor)
  OBVIOUS
<1>2. a \in Assets /\ n \in Nat /\ n = (IF backfiller.from > 0 THEN backfiller.from - 1 ELSE 0)
      /\ cursors[a] \in Cursor /\ cursors \in [Assets -> Cursor] /\ d \in BOOLEAN
      /\ backfiller \in Backfiller
  BY <1>1, BackfillerFields, CursorFields DEF NextBelow, TypeOK
<1>3. PICK c1 : c1 = [cursors[a] EXCEPT !.next = n, !.done = d]
  OBVIOUS
<1>4. c1 \in Cursor /\ c1.next = n /\ c1.done = d /\ c1.anchor = cursors[a].anchor
      /\ c1.floor = cursors[a].floor /\ c1.tail = cursors[a].tail
  BY <1>2, <1>3 DEF Cursor, Height
<1>5. cursors' = [cursors EXCEPT ![a] = c1]
  BY <1>1, <1>2, <1>3 DEF BackfillAdvance
<1>6. cursors' \in [Assets -> Cursor] /\ cursors'[a] = c1
      /\ \A b \in Assets : b # a => cursors'[b] = cursors[b]
  BY <1>2, <1>4, <1>5
<1>7. \A b \in Assets : /\ cursors'[b].anchor = cursors[b].anchor /\ cursors'[b].floor = cursors[b].floor
                        /\ cursors'[b].tail = cursors[b].tail
  BY <1>4, <1>6
<1>8. CASE d
  <2>1. backfiller' = [backfiller EXCEPT !.pc = "done"]
    BY <1>1, <1>8 DEF BackfillAdvance
  <2>2. backfiller' \in Backfiller /\ backfiller'.pc = "done" /\ backfiller'.logs = backfiller.logs
        /\ backfiller'.asset = backfiller.asset /\ backfiller'.floor = backfiller.floor
    BY <1>2, <2>1 DEF Backfiller
  <2> QED BY <1>1, <1>2, <1>4, <1>6, <1>7, <1>8, <2>2
<1>9. CASE ~d
  <2>1. backfiller' = IdleBackfiller
    BY <1>1, <1>9 DEF BackfillAdvance
  <2>2. cursors'[a].done = FALSE
    BY <1>2, <1>4, <1>6, <1>9
  <2> QED BY <1>1, <1>2, <1>4, <1>6, <1>7, <1>9, <2>1, <2>2, IdleTypes
<1> QED BY <1>2, <1>8, <1>9

LEMMA DoneDoes ==
  ASSUME TypeOK, FinishDone
  PROVE  /\ backfiller.pc = "done" /\ UNCHANGED <<status, historyFloor, rollup>>
         /\ backfiller' \in Backfiller /\ backfiller'.pc = "keep"
         /\ backfiller'.asset = backfiller.asset /\ backfiller'.floor = backfiller.floor
         /\ backfiller'.logs = backfiller.logs
         /\ cursors' \in [Assets -> Cursor]
         /\ cursors'[backfiller.asset].next = 0 /\ cursors'[backfiller.asset].done = TRUE
         /\ \A a \in Assets : a # backfiller.asset => cursors'[a] = cursors[a]
         /\ \A a \in Assets :
              /\ cursors'[a].anchor = cursors[a].anchor /\ cursors'[a].floor = cursors[a].floor
              /\ cursors'[a].tail = cursors[a].tail
<1>1. PICK a : a = backfiller.asset
  OBVIOUS
<1>2. a \in Assets /\ cursors[a] \in Cursor /\ cursors \in [Assets -> Cursor] /\ backfiller \in Backfiller
  BY <1>1, BackfillerFields, CursorFields DEF TypeOK
<1>3. PICK c1 : c1 = [cursors[a] EXCEPT !.next = 0, !.done = TRUE]
  OBVIOUS
<1>4. c1 \in Cursor /\ c1.next = 0 /\ c1.done = TRUE /\ c1.anchor = cursors[a].anchor
      /\ c1.floor = cursors[a].floor /\ c1.tail = cursors[a].tail
  BY <1>2, <1>3 DEF Cursor, Height
<1>5. cursors' = [cursors EXCEPT ![a] = c1] /\ backfiller.pc = "done"
      /\ UNCHANGED <<status, historyFloor, rollup>> /\ backfiller' = [backfiller EXCEPT !.pc = "keep"]
  BY <1>1, <1>2, <1>3 DEF FinishDone
<1>6. cursors' \in [Assets -> Cursor] /\ cursors'[a] = c1
      /\ \A b \in Assets : b # a => cursors'[b] = cursors[b]
  BY <1>2, <1>4, <1>5
<1>7. /\ backfiller' \in Backfiller /\ backfiller'.pc = "keep" /\ backfiller'.logs = backfiller.logs
      /\ backfiller'.asset = backfiller.asset /\ backfiller'.floor = backfiller.floor
  BY <1>2, <1>5 DEF Backfiller
<1> QED BY <1>1, <1>4, <1>5, <1>6, <1>7

Following == FollowStep \/ CheckHeader(TRUE) \/ AbortFollow

Backfilling ==
  \/ BackfillStep \/ BackfillLogs(TRUE) \/ BackfillReprobe(FALSE) \/ AbortBackfill
  \/ \E a \in Assets : BackfillPick(a, FALSE)

LEMMA BackfillCases ==
  ASSUME Backfilling
  PROVE  \/ \E a \in Assets, probed \in BOOLEAN : BackfillPick(a, probed)
         \/ BackfillAsset \/ BackfillFloor \/ FinishFloor \/ BackfillScanning \/ FinishLive
         \/ \E failed \in BOOLEAN : BackfillLogs(failed)
         \/ \E probed \in BOOLEAN : BackfillReprobe(probed)
         \/ BackfillFold \/ BackfillAdvance \/ FinishDone \/ AbortBackfill
BY DEF Backfilling, BackfillStep, BackfillOn

\* But for the fold, the backfiller leaves the rollup alone.
LEMMA BackfillRollup ==
  ASSUME Backfilling
  PROVE  BackfillFold \/ UNCHANGED <<rollup, recounted>>
BY BackfillCases DEF BackfillPick, BackfillAsset, BackfillFloor, BackfillScanning, BackfillLogs,
   BackfillReprobe, BackfillAdvance, FinishDone, FinishFloor, FinishLive, AbortBackfill, tableVars

-----------------------------------------------------------------------------
(* Every variable stays in its type, and no asset is unregistered again.   *)

LEMMA FoldTypes ==
  ASSUME TypeOK, NEW rows \in SUBSET Row, Fold(rows)
  PROVE  rollup' \subseteq Row /\ recounted' \subseteq rollup'
BY DEF TypeOK, Fold

LEMMA PromoteTypes ==
  ASSUME TypeOK, NEW upto, PromotePending(upto)
  PROVE  pending' \subseteq Row /\ rollup' \subseteq Row /\ recounted' \subseteq rollup'
<1>1. {r \in pending : r.block <= upto} \in SUBSET Row /\ pending' \subseteq pending /\ pending \subseteq Row
  BY DEF TypeOK, PromotePending
<1>2. rollup' \subseteq Row /\ recounted' \subseteq rollup'
  BY <1>1, FoldTypes DEF PromotePending
<1> QED BY <1>1, <1>2

LEMMA NodeTypes == ASSUME TypeOK, [Next]_vars, NodeNext PROVE TypeOK'
<1>1. UNCHANGED <<status, cursors, historyFloor, pending, rollup, recounted, follower, backfiller, resyncing>>
  BY DEF NodeNext, Mine, Reorg, Prune, tableVars
<1>2. chain' \in Seq(Hashes) /\ Len(chain') >= 1 /\ final' \in Nat /\ horizon' \in Nat
  <2>1. ASSUME NEW h \in MinedHashes, Mine(h)
        PROVE  chain' \in Seq(Hashes) /\ Len(chain') >= 1 /\ final' \in Nat /\ horizon' \in Nat
    <3>1. chain' \in Seq(Hashes) /\ Len(chain') = Len(chain) + 1 /\ final' \in Nat
      BY <2>1, MineDoes
    <3> QED BY <2>1, <3>1 DEF TypeOK, Mine
  <2>2. ASSUME NEW k \in DOMAIN chain, NEW fork \in Forks(k), Reorg(k, fork)
        PROVE  chain' \in Seq(Hashes) /\ Len(chain') >= 1 /\ final' \in Nat /\ horizon' \in Nat
    <3>1. chain' \in Seq(Hashes) /\ Len(chain') \in Nat /\ k <= Len(chain') /\ k \in Nat /\ k >= 1
      BY <2>2, ReorgDoes
    <3> QED BY <2>2, <3>1 DEF TypeOK, Reorg
  <2>3. CASE Prune
    BY <2>3 DEF TypeOK, Prune
  <2> QED BY <2>1, <2>2, <2>3 DEF NodeNext
<1> QED BY <1>1, <1>2, TroubleStep DEF TypeOK

LEMMA AssetTypes ==
  ASSUME TypeOK, [Next]_vars, AssetNext
  PROVE  TypeOK' /\ \A a \in Assets : status[a] # "none" => status'[a] # "none"
<1>1. UNCHANGED <<chain, final, horizon, historyFloor, pending, rollup, recounted, follower, backfiller>>
  BY DEF AssetNext, Register, Revoke, ResyncRead, Resync, AbortSync, nodeVars, tableVars
<1>2. cursors' \in [Assets -> Cursor]
  <2>1. CASE cursors' = cursors
    BY <2>1 DEF TypeOK
  <2>2. ASSUME NEW a \in Assets, NEW n \in Anchors, Register(a, n) \/ Resync(a, n)
        PROVE  cursors' \in [Assets -> Cursor]
    <3>1. n \in 1 .. Len(chain)
          /\ (cursors' = cursors \/ cursors' = [cursors EXCEPT ![a] = Anchored(@, n)])
      BY <2>2, AnchorsFacts DEF Register, Resync
    <3> QED BY <2>1, <3>1, AnchoredDoes
  <2> QED BY <2>1, <2>2 DEF AssetNext, Revoke, ResyncRead, AbortSync, tableVars
<1>3. status' = status
      \/ \E a \in Assets : status' = [status EXCEPT ![a] = "pending"] \/ status' = [status EXCEPT ![a] = "revoked"]
  BY DEF AssetNext, Register, Revoke, ResyncRead, Resync, AbortSync, tableVars
<1>4. status' \in [Assets -> Status] /\ \A a \in Assets : status[a] # "none" => status'[a] # "none"
  BY <1>3 DEF TypeOK, Status
<1>5. resyncing' \subseteq Assets
  BY DEF AssetNext, Register, Revoke, ResyncRead, Resync, AbortSync, nodeVars, TypeOK
<1> QED BY <1>1, <1>2, <1>4, <1>5, TroubleStep DEF TypeOK

LEMMA FollowTypes ==
  ASSUME TypeOK, [Next]_vars, Following
  PROVE  TypeOK' /\ status' = status
<1>1. UNCHANGED <<chain, final, horizon, status, historyFloor, backfiller, resyncing>>
  BY DEF Following, FollowStep, FollowHead, CheckHeader, ReorgChecked, DropPendingFrom, RewindTail, ListCursors,
     SweepRead, InsertPending, PromoteChunk, AdvanceTail, PromoteTick, AbortFollow, nodeVars, tableVars
<1>2. follower' \in Follower
  BY FollowHeadDoes, CheckHeaderDoes, ReorgCheckedDoes, DropDoes, RewindDoes, ListCursorsDoes, SweepReadDoes,
     InsertDoes, PromoteChunkDoes, AdvanceTailDoes, IdleTypes DEF Following, FollowStep, PromoteTick, AbortFollow
<1>3. cursors' \in [Assets -> Cursor]
  <2>1. CASE cursors' = cursors
    BY <2>1 DEF TypeOK
  <2> QED BY <2>1, RewindDoes, AdvanceTailDoes
          DEF Following, FollowStep, FollowHead, CheckHeader, ReorgChecked, DropPendingFrom, ListCursors,
              SweepRead, InsertPending, PromoteChunk, PromoteTick, AbortFollow, tableVars
<1>4. pending' \subseteq Row /\ rollup' \subseteq Row /\ recounted' \subseteq rollup'
  <2>1. CASE UNCHANGED <<pending, rollup, recounted>>
    BY <2>1 DEF TypeOK
  <2>2. CASE DropPendingFrom
    BY <2>2 DEF DropPendingFrom, TypeOK
  <2>3. CASE InsertPending
    BY <2>3, FollowerFields DEF InsertPending, TypeOK
  <2>4. CASE PromoteChunk \/ PromoteTick
    BY <2>1, <2>4, PromoteTypes DEF PromoteChunk, PromoteTick
  <2> QED BY <2>1, <2>2, <2>3, <2>4
          DEF Following, FollowStep, FollowHead, CheckHeader, ReorgChecked, RewindTail, ListCursors,
              SweepRead, AdvanceTail, AbortFollow, tableVars
<1> QED BY <1>1, <1>2, <1>3, <1>4, TroubleStep DEF TypeOK

LEMMA BackfillTypes ==
  ASSUME TypeOK, [Next]_vars, Backfilling
  PROVE  TypeOK' /\ \A a \in Assets : status[a] # "none" => status'[a] # "none"
<1>1. UNCHANGED <<chain, final, horizon, pending, follower, resyncing>>
  BY BackfillCases DEF BackfillPick, BackfillAsset, BackfillFloor, BackfillScanning, BackfillLogs,
     BackfillReprobe, BackfillFold, BackfillAdvance, FinishDone, FinishFloor, FinishLive,
     AbortBackfill, nodeVars, tableVars
<1>2. CASE UNCHANGED <<rollup, recounted>> /\ historyFloor' \in Nat \cup {-1} /\ backfiller' \in Backfiller
           /\ cursors' \in [Assets -> Cursor] /\ status' \in [Assets -> Status]
           /\ \A a \in Assets : status[a] # "none" => status'[a] # "none"
  BY <1>1, <1>2, TroubleStep DEF TypeOK
<1>3. ASSUME NEW a \in Assets, NEW probed \in BOOLEAN, BackfillPick(a, probed)
      PROVE  TypeOK' /\ \A c \in Assets : status[c] # "none" => status'[c] # "none"
  BY <1>2, <1>3, PickDoes DEF BackfillPick, TypeOK
<1>4. CASE BackfillAsset
  BY <1>2, <1>4, AssetDoes DEF BackfillAsset, tableVars, TypeOK
<1>5. CASE BackfillFloor \/ FinishFloor
  BY <1>2, <1>5, FloorDoes DEF BackfillFloor, FinishFloor, TypeOK
<1>6. CASE BackfillScanning \/ FinishLive
  BY <1>2, <1>6, StatusDoes, IdleTypes DEF BackfillScanning, FinishLive, TypeOK
<1>7. ASSUME NEW failed \in BOOLEAN, BackfillLogs(failed)
      PROVE  TypeOK' /\ \A c \in Assets : status[c] # "none" => status'[c] # "none"
  BY <1>2, <1>7, BackfillLogsDoes DEF BackfillLogs, tableVars, TypeOK
<1>8. ASSUME NEW probed \in BOOLEAN, BackfillReprobe(probed)
      PROVE  TypeOK' /\ \A c \in Assets : status[c] # "none" => status'[c] # "none"
  BY <1>2, <1>8, ReprobeDoes, IdleTypes DEF BackfillReprobe, TypeOK
<1>9. CASE BackfillFold
  <2>1. rollup' \subseteq Row /\ recounted' \subseteq rollup'
    BY <1>9, BackfillerFields, FoldTypes DEF BackfillFold
  <2> QED BY <1>1, <1>9, <2>1, FoldDoes, TroubleStep DEF BackfillFold, TypeOK
<1>10. CASE BackfillAdvance
  BY <1>2, <1>10, AdvanceDoes DEF BackfillAdvance, TypeOK
<1>11. CASE FinishDone
  BY <1>2, <1>11, DoneDoes DEF FinishDone, TypeOK
<1>12. CASE AbortBackfill
  BY <1>2, <1>12, IdleTypes DEF AbortBackfill, tableVars, TypeOK
<1> QED BY <1>3, <1>4, <1>5, <1>6, <1>7, <1>8, <1>9, <1>10, <1>11, <1>12, BackfillCases

LEMMA TypeStep ==
  ASSUME TypeOK, [Next]_vars
  PROVE  TypeOK' /\ \A a \in Assets : status[a] # "none" => status'[a] # "none"
<1>1. CASE UNCHANGED vars
  BY <1>1 DEF vars, TypeOK
<1>2. CASE NodeNext
  <2>1. status' = status
    BY <1>2 DEF NodeNext, Mine, Reorg, Prune, tableVars
  <2> QED BY <1>2, <2>1, NodeTypes
<1>3. CASE AssetNext
  BY <1>3, AssetTypes
<1>4. CASE Following
  BY <1>4, FollowTypes
<1>5. CASE Backfilling
  BY <1>5, BackfillTypes
<1> QED BY <1>1, <1>2, <1>3, <1>4, <1>5 DEF Next, FaultNext, Following, Backfilling

\* What excuses a promise is never taken back.
LEMMA ExcusesStay ==
  ASSUME TypeOK, [Next]_vars
  PROVE  /\ Quiet("aborts")' => Quiet("aborts")
         /\ Quiet("resyncs")' => Quiet("resyncs")
         /\ Quiet("unfloored")' => Quiet("unfloored")
         /\ Quiet("shrunk")' => Quiet("shrunk")
         /\ Quiet("lost")' => Quiet("lost")
         /\ (Reorgs = 0)' => Reorgs = 0
         /\ (Reorgs = 0)' => Quiet("shrunk")' /\ Quiet("blind")' /\ Quiet("reorgs")'
         /\ Noticed' => Noticed
         /\ OneAsset' => OneAsset
         /\ OneHash' => OneHash
<1>1. TypeOK' /\ \A a \in Assets : status[a] # "none" => status'[a] # "none"
  BY TypeStep
<1>2. \A k \in Disturbance : Seen(k)' = 0 => Seen(k) = 0
  BY TroubleStep
<1>3. {"blocks", "revokes", "resyncs", "reorgs", "shrunk", "blind", "prunes", "lost", "aborts", "torn",
       "unfloored"} = Disturbance
  BY DEF Disturbance
<1>4. \A k \in Disturbance : Seen(k) \in Nat /\ Seen(k)' \in Nat
  BY <1>1 DEF TypeOK, Seen
<1>5. (Reorgs = 0) <=> Seen("reorgs") = 0 /\ Seen("shrunk") = 0 /\ Seen("blind") = 0
  <2>1. Seen("reorgs") \in Nat /\ Seen("shrunk") \in Nat /\ Seen("blind") \in Nat
    BY <1>4 DEF Disturbance
  <2> QED BY <2>1 DEF Reorgs
<1>6. (Reorgs = 0)' <=> Seen("reorgs")' = 0 /\ Seen("shrunk")' = 0 /\ Seen("blind")' = 0
  <2>1. Seen("reorgs")' \in Nat /\ Seen("shrunk")' \in Nat /\ Seen("blind")' \in Nat
    BY <1>4 DEF Disturbance
  <2> QED BY <2>1 DEF Reorgs
<1>7. OneAsset' => OneAsset
  BY <1>1 DEF OneAsset
<1>8. OneHash' => OneHash
  BY <1>2, <1>3, <1>5, <1>6, <1>7 DEF OneHash, OneAsset
<1> QED BY <1>2, <1>3, <1>5, <1>6, <1>7, <1>8 DEF Quiet, Noticed

-----------------------------------------------------------------------------
(* Heads, anchors and tails.                                               *)

LEMMA StepCases ==
  ASSUME [Next]_vars
  PROVE  UNCHANGED vars \/ NodeNext \/ AssetNext \/ Following \/ Backfilling
BY DEF Next, FaultNext, Following, Backfilling

LEMMA FollowingFrame ==
  ASSUME Following
  PROVE  UNCHANGED <<chain, final, status, backfiller>>
BY DEF Following, FollowStep, FollowHead, CheckHeader, ReorgChecked, DropPendingFrom, RewindTail, ListCursors,
   SweepRead, InsertPending, PromoteChunk, AdvanceTail, PromoteTick, AbortFollow, nodeVars, tableVars

LEMMA BackfillingFrame ==
  ASSUME Backfilling
  PROVE  UNCHANGED <<chain, final, pending, follower>>
BY BackfillCases DEF BackfillPick, BackfillAsset, BackfillFloor, BackfillScanning, BackfillLogs,
   BackfillReprobe, BackfillFold, BackfillAdvance, FinishDone, FinishFloor, FinishLive,
   AbortBackfill, nodeVars, tableVars

LEMMA AssetFrame ==
  ASSUME AssetNext
  PROVE  UNCHANGED <<chain, final, pending, rollup, recounted, follower, backfiller>>
BY DEF AssetNext, Register, Revoke, ResyncRead, Resync, AbortSync, nodeVars, tableVars

LEMMA NodeFrame ==
  ASSUME NodeNext
  PROVE  UNCHANGED <<status, cursors, pending, rollup, recounted, follower, backfiller>>
BY DEF NodeNext, Mine, Reorg, Prune, tableVars

LEMMA FollowingHead ==
  ASSUME TypeOK, Following
  PROVE  \/ follower' = IdleFollower
         \/ follower'.head = follower.head /\ follower.pc # "idle"
         \/ follower'.head = Len(chain) /\ follower.pc = "idle"
<1>1. ASSUME NEW H \in BufferedHashes, FollowHead(H)
      PROVE  follower'.head = Len(chain) /\ follower.pc = "idle"
  BY <1>1, FollowHeadDoes DEF FollowHead
<1>2. ASSUME NEW lost \in BOOLEAN, CheckHeader(lost)
      PROVE  follower'.head = follower.head /\ follower.pc # "idle"
  BY <1>2, CheckHeaderDoes DEF CheckHeader
<1>3. CASE ReorgChecked
  BY <1>3, ReorgCheckedDoes DEF ReorgChecked
<1>4. CASE DropPendingFrom
  BY <1>4, DropDoes DEF DropPendingFrom
<1>5. CASE RewindTail
  BY <1>5, RewindDoes DEF RewindTail
<1>6. CASE ListCursors
  BY <1>6, ListCursorsDoes DEF ListCursors
<1>7. ASSUME NEW to \in follower.from .. follower.head, SweepRead(to)
      PROVE  follower'.head = follower.head /\ follower.pc # "idle"
  BY <1>7, SweepReadDoes DEF SweepRead
<1>8. CASE InsertPending
  BY <1>8, InsertDoes DEF InsertPending
<1>9. CASE PromoteChunk
  BY <1>9, PromoteChunkDoes DEF PromoteChunk
<1>10. ASSUME NEW a \in follower.todo, AdvanceTail(a)
       PROVE  follower'.head = follower.head /\ follower.pc # "idle"
  BY <1>10, AdvanceTailDoes DEF AdvanceTail
<1>11. CASE PromoteTick \/ AbortFollow
  BY <1>11 DEF PromoteTick, AbortFollow
<1> QED BY <1>1, <1>2, <1>3, <1>4, <1>5, <1>6, <1>7, <1>8, <1>9, <1>10, <1>11 DEF Following, FollowStep

LEMMA FollowingCursors ==
  ASSUME TypeOK, Following, NEW a \in Assets
  PROVE  /\ cursors'[a].anchor = cursors[a].anchor /\ cursors'[a].next = cursors[a].next
         /\ cursors'[a].done = cursors[a].done /\ cursors'[a].floor = cursors[a].floor
         /\ cursors'[a].tail <= cursors[a].tail \/ cursors'[a].tail = follower.head
<1>1. CASE cursors' = cursors
  BY <1>1, CursorFields
<1>2. CASE RewindTail
  BY <1>2, RewindDoes
<1>3. ASSUME NEW c \in follower.todo, AdvanceTail(c)
      PROVE  /\ cursors'[a].anchor = cursors[a].anchor /\ cursors'[a].next = cursors[a].next
             /\ cursors'[a].done = cursors[a].done /\ cursors'[a].floor = cursors[a].floor
             /\ cursors'[a].tail <= cursors[a].tail \/ cursors'[a].tail = follower.head
  BY <1>3, AdvanceTailDoes, CursorFields
<1> QED BY <1>1, <1>2, <1>3 DEF Following, FollowStep, FollowHead, CheckHeader, ReorgChecked,
        DropPendingFrom, ListCursors, SweepRead, InsertPending, PromoteChunk, PromoteTick, AbortFollow, tableVars

LEMMA BackfillingCursors ==
  ASSUME TypeOK, Backfilling, NEW a \in Assets
  PROVE  cursors'[a].anchor = cursors[a].anchor /\ cursors'[a].tail = cursors[a].tail
<1>1. CASE cursors' = cursors
  BY <1>1
<1>2. CASE BackfillFloor \/ FinishFloor
  BY <1>2, FloorDoes
<1>3. CASE BackfillAdvance
  BY <1>3, AdvanceDoes
<1>4. CASE FinishDone
  BY <1>4, DoneDoes
<1> QED BY <1>1, <1>2, <1>3, <1>4, BackfillCases DEF BackfillPick, BackfillAsset, BackfillScanning, BackfillLogs,
        BackfillReprobe, BackfillFold, FinishLive, AbortBackfill, tableVars

\* An asset's cursor moves under registration only by being anchored anew.
LEMMA AssetCursors ==
  ASSUME TypeOK, RowsInv, AssetNext
  PROVE  \/ cursors' = cursors
         \/ \E a \in Assets, n \in 1 .. Len(chain) :
              /\ status[a] = "none" \/ Seen("resyncs")' # 0
              /\ cursors'[a].anchor = n /\ cursors'[a].tail = n /\ cursors'[a].next = n - 1
              /\ cursors'[a].done = FALSE
              /\ \A c \in Assets : c # a => cursors'[c] = cursors[c] /\ status'[c] = status[c]
<1>1. CASE cursors' = cursors
  BY <1>1
<1>2. ASSUME NEW a \in Assets, NEW n \in Anchors, cursors' # cursors, Register(a, n) \/ Resync(a, n)
      PROVE  /\ n \in 1 .. Len(chain)
             /\ status[a] = "none" \/ Seen("resyncs")' # 0
             /\ cursors'[a].anchor = n /\ cursors'[a].tail = n /\ cursors'[a].next = n - 1
             /\ cursors'[a].done = FALSE
             /\ \A c \in Assets : c # a => cursors'[c] = cursors[c] /\ status'[c] = status[c]
  <2>1. n \in 1 .. Len(chain) /\ cursors' = [cursors EXCEPT ![a] = Anchored(@, n)]
    BY <1>2, AnchorsFacts DEF Register, Resync
  <2>2. CASE Register(a, n)
    <3>1. status[a] = "none"
      BY <1>2, <2>2 DEF Register
    <3>2. \A c \in Assets : c # a => status'[c] = status[c]
      BY <2>2 DEF Register, TypeOK
    <3> QED BY <2>1, <3>1, <3>2, AnchoredDoes
  <2>3. CASE Resync(a, n)
    <3>1. Seen("resyncs") # 0
      BY <2>3 DEF Resync, RowsInv, Quiet
    <3>2. Seen("resyncs")' # 0 /\ status' = status
      BY <2>3, <3>1 DEF Resync, Seen
    <3> QED BY <2>1, <3>2, AnchoredDoes
  <2> QED BY <1>2, <2>2, <2>3
<1> QED BY <1>1, <1>2 DEF AssetNext, Revoke, ResyncRead, AbortSync, tableVars

LEMMA Numbers ==
  ASSUME TypeOK
  PROVE  /\ Len(chain) \in Nat /\ final \in Nat /\ Confirmations \in Nat /\ follower.head \in Nat
         /\ \A a \in Assets : cursors[a].anchor \in Nat /\ cursors[a].tail \in Nat
<1>1. \A a \in Assets : cursors[a].anchor \in Nat /\ cursors[a].tail \in Nat
  BY CursorFields
<1>2. Len(chain) \in Nat /\ final \in Nat
  BY DEF TypeOK
<1> QED BY <1>1, <1>2, FollowerFields, IndexerAssumption

LEMMA NodeStep == ASSUME TypeOK, NodeInv, RowsInv, [Next]_vars PROVE NodeInv'
<1>0. /\ Len(chain) \in Nat /\ final \in Nat /\ Confirmations \in Nat /\ follower.head \in Nat
      /\ \A a \in Assets : cursors[a].anchor \in Nat /\ cursors[a].tail \in Nat
  BY Numbers
<1>1. /\ Len(chain) \in Nat /\ final \in Nat /\ Confirmations \in Nat /\ follower.head \in Nat
      /\ \A a \in Assets : cursors[a].anchor \in Nat /\ cursors[a].tail \in Nat
      /\ Quiet("shrunk")' => Quiet("shrunk")
  BY <1>0, ExcusesStay
<1>2. CASE UNCHANGED vars
  <2>1. UNCHANGED <<chain, final, follower, cursors, trouble>>
    BY <1>2 DEF vars
  <2> QED BY <2>1 DEF NodeInv, Quiet, Seen
<1>3. CASE NodeNext
  <2>1. UNCHANGED <<cursors, follower>>
    BY <1>3, NodeFrame
  <2>2. ASSUME NEW h \in MinedHashes, Mine(h) PROVE NodeInv'
    <3>1. Len(chain') = Len(chain) + 1
          /\ final' = IF final >= Len(chain) + 1 - Confirmations THEN final
                      ELSE Len(chain) + 1 - Confirmations
      BY <2>2, MineDoes
    <3>2. final' <= Len(chain') /\ Len(chain') <= final' + Confirmations /\ final <= final' /\ final' \in Nat
      BY <1>1, <3>1 DEF NodeInv
    <3>3. follower'.pc # "idle" => follower'.head <= final' + Confirmations
      BY <1>1, <2>1, <3>2 DEF NodeInv
    <3>4. Quiet("shrunk")' => /\ follower'.head <= Len(chain')
                              /\ \A a \in Assets : cursors'[a].anchor <= Len(chain') /\ cursors'[a].tail <= Len(chain')
      BY <1>1, <2>1, <3>1 DEF NodeInv
    <3> QED BY <3>2, <3>3, <3>4 DEF NodeInv
  <2>3. ASSUME NEW k \in DOMAIN chain, NEW fork \in Forks(k), Reorg(k, fork) PROVE NodeInv'
    <3>1. Len(chain') \in Nat /\ k <= Len(chain') /\ Len(chain') <= Len(chain) /\ k \in Nat /\ k > final
          /\ (Seen("shrunk")' = 0 => Len(chain') = Len(chain)) /\ final' = final
      BY <2>3, ReorgDoes DEF Reorg
    <3> QED BY <1>1, <2>1, <3>1 DEF NodeInv, Quiet
  <2>4. CASE Prune
    BY <1>1, <2>1, <2>4 DEF Prune, NodeInv
  <2> QED BY <1>3, <2>2, <2>3, <2>4 DEF NodeNext
<1>4. CASE AssetNext
  <2>1. UNCHANGED <<chain, final, follower>>
    BY <1>4, AssetFrame
  <2>2. ASSUME NEW a \in Assets, Quiet("shrunk")
        PROVE  cursors'[a].anchor <= Len(chain) /\ cursors'[a].tail <= Len(chain)
    <3>1. cursors[a].anchor <= Len(chain) /\ cursors[a].tail <= Len(chain)
      BY <2>2 DEF NodeInv
    <3>2. CASE cursors' = cursors
      BY <3>1, <3>2
    <3>3. ASSUME NEW c \in Assets, NEW n \in 1 .. Len(chain), cursors'[c].anchor = n, cursors'[c].tail = n,
                 \A d \in Assets : d # c => cursors'[d] = cursors[d]
          PROVE  cursors'[a].anchor <= Len(chain) /\ cursors'[a].tail <= Len(chain)
      BY <1>1, <3>1, <3>3
    <3> QED BY <1>4, <3>2, <3>3, AssetCursors
  <2> QED BY <1>1, <2>1, <2>2 DEF NodeInv
<1>5. CASE Following
  <2>1. UNCHANGED <<chain, final>>
    BY <1>5, FollowingFrame
  <2>2. follower'.pc # "idle" => follower'.head <= final + Confirmations
    BY <1>1, <1>5, FollowingHead, IdleFacts DEF NodeInv
  <2>3. Quiet("shrunk")' => follower'.head <= Len(chain)
    BY <1>1, <1>5, FollowingHead, IdleFacts DEF NodeInv
  <2>4. ASSUME Quiet("shrunk")', NEW a \in Assets
        PROVE  cursors'[a].anchor <= Len(chain) /\ cursors'[a].tail <= Len(chain)
    <3>1. cursors'[a].anchor = cursors[a].anchor
          /\ (cursors'[a].tail <= cursors[a].tail \/ cursors'[a].tail = follower.head)
          /\ cursors'[a].tail \in Nat
      BY <1>5, FollowingCursors, TypeStep DEF TypeOK, Cursor, Height
    <3> QED BY <1>1, <2>4, <3>1 DEF NodeInv
  <2> QED BY <2>1, <2>2, <2>3, <2>4 DEF NodeInv
<1>6. CASE Backfilling
  BY <1>1, <1>6, BackfillingFrame, BackfillingCursors DEF NodeInv
<1> QED BY <1>2, <1>3, <1>4, <1>5, <1>6, StepCases

-----------------------------------------------------------------------------
(* Rows and what the workers hold.                                         *)

\* A row is one there was, or one the node has just returned.
LEMMA RowsGrow ==
  ASSUME TypeOK, RowsInv, [Next]_vars, NEW r \in AllRows'
  PROVE  \/ r \in AllRows
         \/ chain' = chain /\ Canonical(r) /\ r.block >= 1 /\ status[r.asset] # "none"
<1>1. CASE UNCHANGED <<pending, rollup, follower, backfiller>>
  BY <1>1 DEF AllRows
<1>2. CASE Following
  <2>1. UNCHANGED <<chain, backfiller>>
    BY <1>2, FollowingFrame
  <2>2. CASE follower'.logs \subseteq follower.logs /\ pending' \cup rollup' \subseteq pending \cup rollup \cup follower.logs
    BY <2>1, <2>2 DEF AllRows
  <2>3. ASSUME NEW to \in follower.from .. follower.head, SweepRead(to)
        PROVE  r \in AllRows \/ (Canonical(r) /\ r.block >= 1 /\ status[r.asset] # "none")
    <3>1. follower'.logs = Kept(follower.from, to) /\ to \in Nat /\ follower.from \in Nat
          /\ follower.todo \in SUBSET Assets
      BY <2>3, SweepReadDoes, FollowerFields
    <3>2. \A s \in follower'.logs : Canonical(s) /\ s.block >= 1 /\ s.asset \in follower.todo
      BY <3>1, LogsFacts DEF Kept
    <3>3. UNCHANGED <<pending, rollup>>
      BY <2>3 DEF SweepRead, tableVars
    <3> QED BY <2>1, <3>2, <3>3 DEF AllRows, RowsInv
  <2>4. ASSUME NEW H \in BufferedHashes, FollowHead(H)
        PROVE  follower'.logs = {} /\ UNCHANGED <<pending, rollup>>
    BY <2>4, FollowHeadDoes DEF FollowHead, tableVars
  <2>5. ASSUME NEW lost \in BOOLEAN, CheckHeader(lost)
        PROVE  follower'.logs = follower.logs /\ UNCHANGED <<pending, rollup>>
    BY <2>5, CheckHeaderDoes DEF CheckHeader, tableVars
  <2>6. CASE ReorgChecked \/ ListCursors
    <3>1. follower'.logs \subseteq follower.logs
      BY <2>6, ReorgCheckedDoes, ListCursorsDoes, IdleFacts
    <3>2. UNCHANGED <<pending, rollup>>
      BY <2>6 DEF ReorgChecked, ListCursors, tableVars
    <3> QED BY <2>2, <3>1, <3>2
  <2>7. CASE DropPendingFrom \/ RewindTail
    <3>1. follower'.logs = follower.logs
      BY <2>7, DropDoes, RewindDoes
    <3>2. pending' \subseteq pending /\ rollup' = rollup
      BY <2>7 DEF DropPendingFrom, RewindTail
    <3> QED BY <2>2, <3>1, <3>2
  <2>8. CASE InsertPending
    BY <2>2, <2>8, InsertDoes DEF InsertPending
  <2>9. CASE PromoteChunk \/ PromoteTick
    <3>1. follower'.logs \subseteq follower.logs
      BY <2>9, PromoteChunkDoes, IdleFacts DEF PromoteTick
    <3>2. pending' \cup rollup' \subseteq pending \cup rollup
      BY <2>9 DEF PromoteChunk, PromoteTick, PromotePending, Fold
    <3> QED BY <2>2, <3>1, <3>2
  <2>10. ASSUME NEW a \in follower.todo, AdvanceTail(a)
         PROVE  follower'.logs = follower.logs /\ UNCHANGED <<pending, rollup>>
    BY <2>10, AdvanceTailDoes DEF AdvanceTail
  <2>11. CASE AbortFollow
    BY <2>2, <2>11, IdleFacts DEF AbortFollow, tableVars
  <2> QED BY <1>2, <2>1, <2>2, <2>3, <2>4, <2>5, <2>6, <2>7, <2>8, <2>9, <2>10, <2>11 DEF Following, FollowStep
<1>3. CASE Backfilling
  <2>1. UNCHANGED <<chain, pending, follower>>
    BY <1>3, BackfillingFrame
  <2>2. CASE backfiller'.logs \subseteq backfiller.logs /\ rollup' \subseteq rollup \cup backfiller.logs
    BY <2>1, <2>2 DEF AllRows
  <2>3. ASSUME NEW failed \in BOOLEAN, BackfillLogs(failed)
        PROVE  r \in AllRows \/ (chain' = chain /\ Canonical(r) /\ r.block >= 1 /\ status[r.asset] # "none")
    <3>1. rollup' = rollup /\ backfiller.pc # "idle" /\ backfiller.asset \in Assets /\ backfiller.next \in Nat
      BY <2>3, BackfillerFields, BackfillLogsDoes
    <3>2. CASE backfiller'.logs \subseteq backfiller.logs
      BY <2>2, <3>1, <3>2
    <3>3. CASE backfiller'.from \in Nat
               /\ backfiller'.logs = Logs(backfiller'.from, backfiller.next, {backfiller.asset})
      <4>1. \A s \in backfiller'.logs : Canonical(s) /\ s.block >= 1 /\ s.asset = backfiller.asset
        BY <3>1, <3>3, LogsFacts
      <4> QED BY <2>1, <3>1, <4>1 DEF AllRows, RowsInv
    <3> QED BY <2>3, <3>2, <3>3, BackfillLogsDoes
  <2>4. ASSUME NEW a \in Assets, NEW probed \in BOOLEAN, BackfillPick(a, probed)
        PROVE  backfiller'.logs = {}
    BY <2>4, PickDoes
  <2>5. ASSUME NEW probed \in BOOLEAN, BackfillReprobe(probed) PROVE backfiller'.logs = {}
    BY <2>5, ReprobeDoes, IdleFacts
  <2>6. CASE BackfillFold
    BY <2>2, <2>6, FoldDoes DEF BackfillFold, Fold
  <2>7. CASE BackfillAsset \/ BackfillFloor \/ FinishFloor \/ BackfillScanning \/ FinishLive
             \/ BackfillAdvance \/ FinishDone \/ AbortBackfill
    <3>1. backfiller'.logs \subseteq backfiller.logs
      BY <2>7, AssetDoes, FloorDoes, StatusDoes, AdvanceDoes, DoneDoes, IdleFacts DEF AbortBackfill
    <3>2. rollup' = rollup
      BY <1>3, <2>6, BackfillRollup, <2>7 DEF BackfillAsset, BackfillFloor, FinishFloor, BackfillScanning,
         FinishLive, BackfillAdvance, FinishDone, AbortBackfill, tableVars
    <3> QED BY <2>2, <3>1, <3>2
  <2> QED BY <1>3, <2>2, <2>3, <2>4, <2>5, <2>6, <2>7, BackfillCases, BackfillRollup
<1> QED BY <1>1, <1>2, <1>3, StepCases, NodeFrame, AssetFrame DEF vars

\* Without a reorg the node keeps what it had.
LEMMA CanonicalStays ==
  ASSUME TypeOK, [Next]_vars, (Reorgs = 0)', NEW r, Canonical(r)
  PROVE  Canonical(r)'
<1>1. CASE chain' = chain
  BY <1>1 DEF Canonical
<1>2. ASSUME NEW h \in MinedHashes, Mine(h) PROVE Canonical(r)'
  <2>1. Len(chain) \in Nat /\ Len(chain') = Len(chain) + 1 /\ \A i \in 1 .. Len(chain) : chain'[i] = chain[i]
    BY <1>2, MineDoes, Numbers
  <2> QED BY <2>1 DEF Canonical
<1>3. ASSUME NEW k \in DOMAIN chain, NEW fork \in Forks(k), Reorg(k, fork) PROVE FALSE
  BY <1>3, ReorgDoes
<1> QED BY <1>1, <1>2, <1>3, StepCases, AssetFrame, FollowingFrame, BackfillingFrame DEF NodeNext, Prune, vars

LEMMA RowsStep == ASSUME TypeOK, RowsInv, [Next]_vars PROVE RowsInv'
<1>0. \A r \in AllRows' : r \in Row
  BY TypeStep DEF TypeOK, AllRows, Follower, Backfiller
<1>1. \A a \in Assets : status[a] # "none" => status'[a] # "none"
  BY TypeStep
<1>2. \A r \in AllRows' : r.block >= 1 /\ status'[r.asset] # "none"
  <2> SUFFICES ASSUME NEW r \in AllRows' PROVE r.block >= 1 /\ status'[r.asset] # "none"
    OBVIOUS
  <2>1. r.asset \in Assets
    BY <1>0 DEF Row
  <2> QED BY <1>1, <2>1, RowsGrow DEF RowsInv
<1>3. ASSUME (Reorgs = 0)', NEW r \in AllRows' PROVE Canonical(r)'
  <2>1. Reorgs = 0
    BY <1>3, ExcusesStay
  <2>2. Canonical(r)
    BY <2>1, RowsGrow DEF RowsInv
  <2> QED BY <1>3, <2>2, CanonicalStays
<1>4. \A a \in follower'.todo : status'[a] # "none"
  <2>1. follower'.todo \subseteq follower.todo \cup Listed
    <3>1. CASE follower' = follower
      BY <3>1
    <3>2. CASE Following
      BY <3>2, FollowHeadDoes, CheckHeaderDoes, ReorgCheckedDoes, DropDoes, RewindDoes, ListCursorsDoes,
         SweepReadDoes, InsertDoes, PromoteChunkDoes, AdvanceTailDoes, IdleFacts
         DEF Following, FollowStep, PromoteTick, AbortFollow
    <3> QED BY <3>1, <3>2, StepCases, NodeFrame, AssetFrame, BackfillingFrame DEF vars
  <2>2. follower'.todo \subseteq Assets
    BY TypeStep DEF TypeOK, Follower
  <2> QED BY <1>1, <2>1, <2>2 DEF RowsInv, Listed
<1>5. backfiller'.pc # "idle" => status'[backfiller'.asset] # "none"
  <2>0. backfiller.asset \in Assets
    BY BackfillerFields
  <2>1. CASE backfiller' = backfiller
    BY <1>1, <2>0, <2>1 DEF RowsInv
  <2>2. ASSUME NEW a \in Assets, NEW probed \in BOOLEAN, BackfillPick(a, probed)
        PROVE  status'[backfiller'.asset] # "none"
    BY <1>1, <2>2, PickDoes
  <2>3. CASE backfiller.pc # "idle" /\ backfiller'.asset = backfiller.asset
    BY <1>1, <2>0, <2>3 DEF RowsInv
  <2>4. CASE backfiller' = IdleBackfiller
    BY <2>4, IdleFacts
  <2>5. CASE BackfillAsset \/ BackfillFloor \/ FinishFloor \/ BackfillScanning \/ FinishLive \/ FinishDone
    BY <2>3, <2>4, <2>5, AssetDoes, FloorDoes, StatusDoes, DoneDoes
  <2>6. ASSUME NEW flag \in BOOLEAN, BackfillLogs(flag) \/ BackfillReprobe(flag)
        PROVE  status'[backfiller'.asset] # "none" \/ backfiller'.pc = "idle"
    BY <2>3, <2>4, <2>6, BackfillLogsDoes, ReprobeDoes
  <2>7. CASE BackfillFold \/ BackfillAdvance
    <3>1. backfiller.pc # "idle"
      BY <2>7 DEF BackfillFold, BackfillAdvance
    <3> QED BY <2>3, <2>4, <2>7, <3>1, FoldDoes, AdvanceDoes
  <2>8. CASE Backfilling
    BY <2>2, <2>4, <2>5, <2>6, <2>7, <2>8, BackfillCases DEF AbortBackfill
  <2> QED BY <2>1, <2>8, StepCases, NodeFrame, AssetFrame, FollowingFrame DEF vars
<1>6. Quiet("resyncs")' => resyncing' = {}
  <2> SUFFICES ASSUME Quiet("resyncs")' PROVE resyncing' = {}
    OBVIOUS
  <2>1. resyncing = {}
    BY ExcusesStay DEF RowsInv
  <2>2. ASSUME NEW a \in Assets, ResyncRead(a) PROVE FALSE
    <3>1. "resyncs" \in Disturbance /\ Disturb("resyncs")
      BY <2>2 DEF ResyncRead, Disturbance
    <3> QED BY <3>1, Disturbs DEF Quiet
  <2>3. CASE AssetNext
    BY <2>1, <2>2, <2>3 DEF AssetNext, Register, Revoke, Resync, AbortSync, nodeVars
  <2>4. CASE NodeNext \/ UNCHANGED vars
    BY <2>1, <2>4 DEF NodeNext, Mine, Reorg, Prune, vars
  <2>5. CASE Following
    BY <2>1, <2>5 DEF Following, FollowStep, FollowHead, CheckHeader, ReorgChecked, DropPendingFrom, RewindTail,
       ListCursors, SweepRead, InsertPending, PromoteChunk, AdvanceTail, PromoteTick, AbortFollow, nodeVars
  <2>6. CASE Backfilling
    BY <2>1, <2>6, BackfillCases DEF BackfillPick, BackfillAsset, BackfillFloor, BackfillScanning, BackfillLogs,
       BackfillReprobe, BackfillFold, BackfillAdvance, FinishDone, FinishFloor, FinishLive,
       AbortBackfill, nodeVars
  <2> QED BY <2>3, <2>4, <2>5, <2>6, StepCases
<1> QED BY <1>2, <1>3, <1>4, <1>5, <1>6 DEF RowsInv

LEMMA SweepReadTick ==
  ASSUME TypeOK, TickInv, NEW to \in follower.from .. follower.head, SweepRead(to)
  PROVE  TickInv'
<1>1. /\ follower'.pc = "insert" /\ follower'.head = follower.head
      /\ follower'.hashes = follower.hashes /\ follower'.from = follower.from
      /\ follower'.todo = follower.todo /\ follower'.tails = follower.tails
      /\ follower'.to = to /\ follower'.logs = Kept(follower.from, to)
      /\ to \in Nat /\ follower.from <= to /\ to <= follower.head
  BY SweepReadDoes
<1>2. follower.from \in Nat /\ follower.todo \in SUBSET Assets
  BY FollowerFields
<1>3. /\ follower.pc = "sweep" /\ UNCHANGED <<pending, cursors, trouble>>
  BY DEF SweepRead, tableVars
<1>4. \A r \in follower'.logs : /\ r.asset \in follower.todo /\ follower.from <= r.block /\ r.block <= to
                                /\ follower.tails[r.asset] < r.block /\ Canonical(r)
  <2> SUFFICES ASSUME NEW r \in follower'.logs
               PROVE  /\ r.asset \in follower.todo /\ follower.from <= r.block /\ r.block <= to
                      /\ follower.tails[r.asset] < r.block /\ Canonical(r)
    OBVIOUS
  <2>1. r \in Logs(follower.from, to, follower.todo) /\ r.block > follower.tails[r.asset]
    BY <1>1 DEF Kept
  <2>2. r \in Row /\ r.asset \in follower.todo /\ follower.from <= r.block /\ r.block <= to /\ Canonical(r)
    BY <1>1, <1>2, <2>1, LogsFacts
  <2>3. r.block \in Nat /\ follower.tails[r.asset] \in Nat
    BY <1>2, <2>2, FollowerFields DEF Row, Height
  <2> QED BY <2>1, <2>2, <2>3
<1>5. \A r, s \in follower'.logs : r.block = s.block => r.hash = s.hash
  BY <1>4 DEF Canonical
<1>6. \A p \in follower'.hashes : FALSE
  BY <1>1, <1>3 DEF TickInv
<1>7. Quiet("resyncs")' => \A a \in follower'.todo : follower'.tails[a] = cursors'[a].tail
  BY <1>1, <1>3 DEF TickInv, Sweeping, Quiet, Seen
<1> QED BY <1>1, <1>4, <1>5, <1>6, <1>7 DEF TickInv, Sweeping

LEMMA TickStep == ASSUME TypeOK, RowsInv, TickInv, [Next]_vars PROVE TickInv'
<1>1. CASE /\ UNCHANGED <<follower, pending>>
           /\ Quiet("resyncs")' => \A a \in follower.todo : cursors'[a].tail = cursors[a].tail
  <2>1. Quiet("resyncs")' => Quiet("resyncs")
    BY ExcusesStay
  <2> QED BY <1>1, <2>1 DEF TickInv, Sweeping
<1>2. CASE UNCHANGED vars \/ NodeNext
  BY <1>1, <1>2, NodeFrame DEF vars
<1>3. CASE AssetNext
  <2>1. UNCHANGED <<follower, pending>>
    BY <1>3, AssetFrame
  <2>2. ASSUME Quiet("resyncs")', NEW a \in follower.todo PROVE cursors'[a].tail = cursors[a].tail
    <3>1. a \in Assets /\ status[a] # "none" /\ Seen("resyncs")' = 0
      BY <2>2, FollowerFields DEF RowsInv, Quiet
    <3> QED BY <1>3, <3>1, AssetCursors
  <2> QED BY <1>1, <2>1, <2>2
<1>4. CASE Backfilling
  <2>1. follower.todo \in SUBSET Assets
    BY FollowerFields
  <2> QED BY <1>1, <1>4, <2>1, BackfillingFrame, BackfillingCursors
<1>5. CASE Following
  <2>1. CASE follower'.logs = {} /\ follower'.hashes = {} /\ follower'.pc \in {"idle", "cursors", "drop", "promote"}
    BY <2>1 DEF TickInv, Sweeping
  <2>2. ASSUME NEW H \in BufferedHashes, FollowHead(H) PROVE TickInv'
    <3>1. /\ follower'.pc = "reorg" /\ follower'.hashes = H /\ follower'.logs = {} /\ pending' = pending
      BY <2>2, FollowHeadDoes DEF FollowHead, tableVars
    <3>2. \A p \in H : \E r \in pending : p = <<r.block, r.hash>>
      BY DEF BufferedHashes
    <3>3. \A p, q \in H : p[1] = q[1] => p = q
      BY DEF BufferedHashes
    <3> QED BY <3>1, <3>2, <3>3 DEF TickInv, Sweeping
  <2>3. ASSUME NEW lost \in BOOLEAN, CheckHeader(lost) PROVE TickInv'
    <3>1. follower.pc = "reorg" /\ pending' = pending
      BY <2>3 DEF CheckHeader, tableVars
    <3>2. follower'.logs = {}
      BY <2>3, <3>1, CheckHeaderDoes DEF TickInv
    <3>3. (follower'.pc = "reorg" /\ follower'.hashes \subseteq follower.hashes)
          \/ (follower'.pc = "drop" /\ follower'.hashes = {})
      BY <2>3, CheckHeaderDoes
    <3> QED BY <2>1, <3>1, <3>2, <3>3 DEF TickInv, Sweeping
  <2>4. CASE ReorgChecked \/ RewindTail
    <3>1. follower.logs = {} /\ (RewindTail => follower.hashes = {})
      BY <2>4 DEF ReorgChecked, RewindTail, TickInv
    <3> QED BY <2>1, <2>4, <3>1, ReorgCheckedDoes, RewindDoes
  <2>5. CASE DropPendingFrom
    <3>1. follower.logs = {} /\ follower.hashes = {}
      BY <2>5 DEF DropPendingFrom, TickInv
    <3>2. \A r \in pending' : r.block < follower.at
      BY <2>5 DEF DropPendingFrom
    <3> QED BY <2>5, <3>1, <3>2, DropDoes DEF TickInv, Sweeping
  <2>6. CASE ListCursors
    <3>1. follower.logs = {} /\ follower.hashes = {} /\ UNCHANGED <<cursors, pending>>
      BY <2>6 DEF ListCursors, TickInv, tableVars
    <3>2. CASE follower' = IdleFollower \/ follower'.pc = "promote"
      BY <2>1, <2>6, <3>1, <3>2, ListCursorsDoes, IdleFacts
    <3>3. CASE /\ follower'.pc = "sweep" /\ follower'.hashes = follower.hashes /\ follower'.logs = follower.logs
               /\ follower'.todo = Listed /\ follower'.from <= follower.head /\ follower'.head = follower.head
               /\ \A a \in Listed : follower'.tails[a] = cursors[a].tail
      BY <3>1, <3>3 DEF TickInv, Sweeping
    <3> QED BY <2>6, <3>2, <3>3, ListCursorsDoes
  <2>7. ASSUME NEW to \in follower.from .. follower.head, SweepRead(to) PROVE TickInv'
    BY <2>7, SweepReadTick
  <2>8. CASE InsertPending
    <3>1. follower.hashes = {} /\ follower.pc = "insert" /\ UNCHANGED <<cursors, trouble>>
      BY <2>8 DEF InsertPending, TickInv
    <3> QED BY <2>8, <3>1, InsertDoes DEF TickInv, Sweeping, Quiet, Seen
  <2>9. CASE PromoteChunk
    <3>1. follower.hashes = {} /\ follower.logs = {} /\ follower.pc = "chunk" /\ UNCHANGED <<cursors, trouble>>
      BY <2>9 DEF PromoteChunk, TickInv
    <3>2. follower'.pc = "sweep" => follower'.from <= follower'.head
      BY <2>9, <3>1, PromoteChunkDoes, FollowerFields DEF TickInv
    <3> QED BY <2>9, <3>1, <3>2, PromoteChunkDoes DEF TickInv, Sweeping, Quiet, Seen
  <2>10. ASSUME NEW a \in follower.todo, AdvanceTail(a) PROVE TickInv'
    <3>1. follower.hashes = {} /\ follower.logs = {} /\ follower.pc = "advance" /\ trouble' = trouble
          /\ follower.todo \in SUBSET Assets
      BY <2>10, FollowerFields DEF AdvanceTail, TickInv
    <3>2. /\ follower'.hashes = follower.hashes /\ follower'.logs = follower.logs
          /\ follower'.todo = follower.todo \ {a} /\ follower'.tails = follower.tails
          /\ follower'.pc \in {"advance", "promote"}
          /\ \A c \in Assets : c # a => cursors'[c] = cursors[c]
      BY <2>10, AdvanceTailDoes
    <3>3. Quiet("resyncs")' => \A c \in follower'.todo : follower'.tails[c] = cursors'[c].tail
      BY <3>1, <3>2 DEF TickInv, Sweeping, Quiet, Seen
    <3> QED BY <3>1, <3>2, <3>3 DEF TickInv, Sweeping
  <2>11. CASE PromoteTick \/ AbortFollow
    BY <2>1, <2>11, IdleFacts DEF PromoteTick, AbortFollow
  <2> QED BY <1>5, <2>2, <2>3, <2>4, <2>5, <2>6, <2>7, <2>8, <2>9, <2>10, <2>11 DEF Following, FollowStep
<1> QED BY <1>2, <1>3, <1>4, <1>5, StepCases

-----------------------------------------------------------------------------
(* Where the buffer lies.                                                  *)

\* A registered asset's anchor moves only when its cursor is started over.
LEMMA AnchorStays ==
  ASSUME TypeOK, RowsInv, [Next]_vars, Quiet("resyncs")', NEW a \in Assets, status[a] # "none"
  PROVE  cursors'[a].anchor = cursors[a].anchor
<1>1. CASE AssetNext
  BY <1>1, AssetCursors DEF Quiet
<1>2. CASE UNCHANGED vars \/ NodeNext
  BY <1>2, NodeFrame DEF vars
<1> QED BY <1>1, <1>2, StepCases, FollowingCursors, BackfillingCursors

\* A tick that fails outside a rewind is counted.
LEMMA AbortSeen ==
  ASSUME TypeOK, AbortFollow
  PROVE  /\ follower.pc = "rewind" => Seen("torn")' # 0
         /\ follower.pc # "rewind" => Seen("aborts")' # 0
BY Disturbs DEF AbortFollow, Disturbance

LEMMA ReachedStays ==
  ASSUME TypeOK, RowsInv, TickInv, [Next]_vars, Quiet("aborts")', Quiet("resyncs")',
         NEW a \in Assets, status[a] # "none", NEW b \in Nat, Reached(a, b),
         RewindTail => b < follower.at
  PROVE  Reached(a, b)'
<1>0. cursors[a].tail \in Nat /\ follower.head \in Nat /\ follower.from \in Nat /\ follower.to \in Nat
      /\ follower.at \in Nat
  BY CursorFields, FollowerFields
<1>1. CASE follower' = follower /\ cursors'[a].tail = cursors[a].tail
  BY <1>1 DEF Reached, Scanned
<1>2. CASE UNCHANGED vars \/ NodeNext
  BY <1>1, <1>2, NodeFrame DEF vars
<1>3. CASE AssetNext
  BY <1>1, <1>3, AssetFrame, AssetCursors DEF Quiet
<1>4. CASE Backfilling
  BY <1>1, <1>4, BackfillingFrame, BackfillingCursors
<1>5. CASE Following
  <2>1. CASE b <= cursors[a].tail /\ cursors' = cursors
    BY <2>1 DEF Reached
  <2>2. ASSUME NEW H \in BufferedHashes, FollowHead(H) PROVE b <= cursors[a].tail /\ cursors' = cursors
    BY <2>2 DEF FollowHead, Reached, Scanned, tableVars
  <2>3. ASSUME NEW lost \in BOOLEAN, CheckHeader(lost) PROVE b <= cursors[a].tail /\ cursors' = cursors
    BY <2>3 DEF CheckHeader, Reached, Scanned, tableVars
  <2>4. CASE ReorgChecked \/ DropPendingFrom \/ ListCursors \/ PromoteTick
    BY <2>1, <2>4 DEF ReorgChecked, DropPendingFrom, ListCursors, PromoteTick, Reached, Scanned, tableVars
  <2>5. CASE RewindTail
    <3>1. b <= cursors[a].tail /\ b < follower.at
      BY <2>5 DEF RewindTail, Reached, Scanned
    <3>2. cursors'[a].tail = cursors[a].tail \/ cursors'[a].tail = follower.at - 1
      BY <1>0, <2>5, <3>1, RewindDoes
    <3> QED BY <1>0, <3>1, <3>2 DEF Reached
  <2>6. ASSUME NEW to \in follower.from .. follower.head, SweepRead(to) PROVE Reached(a, b)'
    <3>1. cursors' = cursors /\ follower.pc = "sweep"
      BY <2>6 DEF SweepRead, tableVars
    <3> QED BY <2>6, <3>1, SweepReadDoes DEF Reached, Scanned
  <2>7. CASE InsertPending
    <3>1. cursors' = cursors /\ follower.pc = "insert"
      BY <2>7 DEF InsertPending
    <3>2. follower.from <= follower.to
      BY <3>1 DEF TickInv
    <3> QED BY <1>0, <2>7, <3>1, <3>2, InsertDoes DEF Reached, Scanned
  <2>8. CASE PromoteChunk
    <3>1. cursors' = cursors /\ follower.pc = "chunk"
      BY <2>8 DEF PromoteChunk
    <3> QED BY <1>0, <2>8, <3>1, PromoteChunkDoes DEF Reached, Scanned
  <2>9. ASSUME NEW c \in follower.todo, AdvanceTail(c) PROVE Reached(a, b)'
    <3>1. follower.pc = "advance"
      BY <2>9 DEF AdvanceTail
    <3>2. CASE c = a
      <4>1. b <= cursors[a].tail \/ b <= follower.head
        BY <3>1 DEF Reached, Scanned
      <4>2. cursors'[a].tail = IF cursors[a].tail >= follower.head THEN cursors[a].tail ELSE follower.head
        BY <2>9, <3>2, AdvanceTailDoes
      <4> QED BY <1>0, <4>1, <4>2 DEF Reached
    <3>3. CASE c # a
      <4>1. cursors'[a] = cursors[a] /\ follower'.head = follower.head /\ follower'.todo = follower.todo \ {c}
            /\ (follower'.pc = "advance" \/ follower'.todo = {})
        BY <2>9, <3>3, AdvanceTailDoes
      <4> QED BY <3>1, <3>3, <4>1 DEF Reached, Scanned
    <3> QED BY <3>2, <3>3
  <2>10. CASE AbortFollow
    BY <2>1, <2>10, AbortSeen DEF AbortFollow, Reached, Scanned, Quiet, tableVars
  <2> QED BY <1>5, <2>1, <2>2, <2>3, <2>4, <2>5, <2>6, <2>7, <2>8, <2>9, <2>10 DEF Following, FollowStep
<1> QED BY <1>2, <1>3, <1>4, <1>5, StepCases

\* The buffer gains rows by InsertPending alone.
LEMMA PendingGrows ==
  ASSUME [Next]_vars, NEW r \in pending', r \notin pending
  PROVE  InsertPending /\ r \in follower.logs
<1>1. pending' # pending
  OBVIOUS
<1>2. Following
  BY <1>1, StepCases, NodeFrame, AssetFrame, BackfillingFrame DEF vars
<1>3. CASE InsertPending
  BY <1>3 DEF InsertPending
<1>4. CASE PromoteChunk \/ PromoteTick \/ DropPendingFrom
  BY <1>4 DEF PromoteChunk, PromoteTick, PromotePending, DropPendingFrom
<1> QED BY <1>1, <1>2, <1>3, <1>4 DEF Following, FollowStep, FollowHead, CheckHeader, ReorgChecked,
        RewindTail, ListCursors, SweepRead, AdvanceTail, AbortFollow, tableVars

LEMMA RowFields ==
  ASSUME TypeOK, NEW r \in AllRows
  PROVE  r \in Row /\ r.block \in Nat /\ r.asset \in Assets /\ r.hash \in Hashes
<1>1. r \in Row
  BY FollowerFields, BackfillerFields DEF TypeOK, AllRows
<1> QED BY <1>1 DEF Row, Height

LEMMA ReachStep == ASSUME TypeOK, RowsInv, TickInv, ReachInv, [Next]_vars PROVE ReachInv'
<1> SUFFICES ASSUME Quiet("aborts")', Quiet("resyncs")', NEW r \in pending' PROVE Reached(r.asset, r.block)'
  BY DEF ReachInv
<1>1. Quiet("aborts") /\ Quiet("resyncs")
  BY ExcusesStay
<1>2. CASE r \in pending
  <2>1. r.asset \in Assets /\ r.block \in Nat /\ status[r.asset] # "none"
    BY <1>2, RowFields DEF AllRows, RowsInv
  <2>2. Reached(r.asset, r.block)
    BY <1>1, <1>2 DEF ReachInv
  <2>3. RewindTail => r.block < follower.at
    BY <1>2 DEF RewindTail, TickInv
  <2> QED BY <2>1, <2>2, <2>3, ReachedStays
<1>3. CASE r \notin pending
  <2>1. InsertPending /\ r \in follower.logs
    BY <1>3, PendingGrows
  <2>2. r.asset \in follower.todo /\ r.block <= follower.to
    BY <2>1 DEF TickInv
  <2> QED BY <2>1, <2>2, InsertDoes DEF Reached, Scanned
<1> QED BY <1>2, <1>3

\* What a sweep has just read lies above the buffer's rows of the asset.
LEMMA LogsAboveReached ==
  ASSUME TypeOK, TickInv, Quiet("resyncs"), NEW r \in follower.logs, NEW b \in Nat, Reached(r.asset, b)
  PROVE  b < r.block
<1>1. /\ follower.pc = "insert" /\ r.asset \in follower.todo
      /\ follower.from <= r.block /\ follower.tails[r.asset] < r.block
      /\ follower.tails[r.asset] = cursors[r.asset].tail
  BY DEF TickInv, Sweeping
<1>2. r.block \in Nat /\ cursors[r.asset].tail \in Nat /\ follower.from \in Nat
  BY <1>1, RowFields, FollowerFields, CursorFields DEF AllRows
<1> QED BY <1>1, <1>2 DEF Reached, Scanned

LEMMA UniqueStep == ASSUME TypeOK, RowsInv, TickInv, ReachInv, UniqueInv, [Next]_vars PROVE UniqueInv'
<1> SUFFICES ASSUME Quiet("aborts")', Quiet("resyncs")', OneAsset', NEW r \in pending', NEW s \in pending',
                    r.block = s.block
             PROVE  r = s
  BY DEF UniqueInv
<1>1. Quiet("aborts") /\ Quiet("resyncs") /\ OneAsset
  BY ExcusesStay
<1>2. (r \in pending \/ (InsertPending /\ r \in follower.logs))
      /\ (s \in pending \/ (InsertPending /\ s \in follower.logs))
  BY PendingGrows
<1>3. r \in AllRows /\ s \in AllRows
  BY <1>2 DEF AllRows
<1>4. r \in Row /\ s \in Row /\ r.block \in Nat /\ r.asset = s.asset
  BY <1>1, <1>3, RowFields DEF RowsInv, OneAsset
<1>5. CASE r \in pending /\ s \in pending
  BY <1>1, <1>5 DEF UniqueInv
<1>6. ASSUME NEW x \in pending, NEW y \in follower.logs, x.block = y.block, x.asset = y.asset PROVE FALSE
  <2>1. Reached(y.asset, x.block) /\ x.block \in Nat
    BY <1>1, <1>6, RowFields DEF ReachInv, AllRows
  <2>2. x.block < y.block
    BY <1>1, <2>1, LogsAboveReached
  <2> QED BY <1>6, <2>1, <2>2
<1>7. CASE r \in follower.logs /\ s \in follower.logs
  <2>1. r.hash = s.hash
    BY <1>7 DEF TickInv
  <2> QED BY <1>4, <2>1 DEF Row
<1> QED BY <1>2, <1>4, <1>5, <1>6, <1>7

-----------------------------------------------------------------------------
(* The walk below the anchor.                                              *)

\* An asset is registered with its cursor at the anchor.
LEMMA NewlyRegistered ==
  ASSUME TypeOK, RowsInv, [Next]_vars, NEW a \in Assets, status[a] = "none", status'[a] # "none"
  PROVE  /\ AssetNext /\ cursors'[a].anchor \in Nat /\ cursors'[a].anchor >= 1
         /\ cursors'[a].tail = cursors'[a].anchor
         /\ cursors'[a].next = cursors'[a].anchor - 1 /\ cursors'[a].done = FALSE
<1>1. CASE AssetNext
  <2>1. ASSUME NEW c \in Assets, Revoke(c) PROVE FALSE
    BY <2>1 DEF Revoke, TypeOK
  <2>2. ASSUME NEW c \in Assets, NEW n \in Anchors, Register(c, n)
        PROVE  c = a /\ n \in 1 .. Len(chain) /\ cursors' = [cursors EXCEPT ![a] = Anchored(@, n)]
    BY <2>2, AnchorsFacts DEF Register, TypeOK
  <2>3. PICK n \in 1 .. Len(chain) : cursors' = [cursors EXCEPT ![a] = Anchored(@, n)]
    BY <1>1, <2>1, <2>2 DEF AssetNext, ResyncRead, Resync, AbortSync, tableVars
  <2>4. n \in Nat /\ n >= 1
    BY Numbers
  <2> QED BY <1>1, <2>3, <2>4, AnchoredDoes
<1>2. CASE UNCHANGED vars \/ NodeNext \/ Following
  BY <1>2, NodeFrame, FollowingFrame DEF vars
<1>3. CASE Backfilling
  <2>1. CASE BackfillScanning \/ FinishLive
    <3>1. backfiller.pc # "idle"
      BY <2>1 DEF BackfillScanning, FinishLive
    <3>2. status[backfiller.asset] # "none"
      BY <3>1 DEF RowsInv
    <3> QED BY <2>1, <3>2, StatusDoes
  <2> QED BY <1>3, <2>1, BackfillCases DEF BackfillPick, BackfillAsset, BackfillFloor, BackfillLogs,
          BackfillReprobe, BackfillFold, BackfillAdvance, FinishDone, FinishFloor, AbortBackfill, tableVars
<1> QED BY <1>1, <1>2, <1>3, StepCases

\* Only the backfiller moves a registered asset's walk.
LEMMA WalkFrame ==
  ASSUME TypeOK, RowsInv, [Next]_vars, Quiet("resyncs")', NEW a \in Assets, status[a] # "none",
         ~Backfilling
  PROVE  /\ cursors'[a].anchor = cursors[a].anchor /\ cursors'[a].next = cursors[a].next
         /\ cursors'[a].done = cursors[a].done /\ cursors'[a].floor = cursors[a].floor
         /\ backfiller' = backfiller
<1>1. CASE AssetNext
  BY <1>1, AssetCursors, AssetFrame DEF Quiet
<1>2. CASE UNCHANGED vars \/ NodeNext
  BY <1>2, NodeFrame DEF vars
<1> QED BY <1>1, <1>2, StepCases, FollowingCursors, FollowingFrame

LEMMA WalkStep == ASSUME TypeOK, RowsInv, WalkInv, [Next]_vars PROVE WalkInv'
<1> SUFFICES ASSUME Quiet("resyncs")' PROVE WalkInv'
  BY DEF WalkInv
<1>1. Quiet("resyncs") /\ backfiller.asset \in Assets /\ TypeOK' /\ backfiller.next \in Nat
      /\ backfiller.from \in Nat /\ backfiller.floor \in Nat
  BY ExcusesStay, BackfillerFields, TypeStep
<1>2. \A a \in Assets : cursors[a].next \in Nat /\ cursors[a].anchor \in Nat
  BY CursorFields
<1>3. \A a \in Assets : status[a] # "none" => cursors[a].next < cursors[a].anchor
  BY <1>1 DEF WalkInv
<1>4. \A a \in Assets : status[a] = "none" /\ status'[a] # "none" => cursors'[a].next < cursors'[a].anchor
  <2>1. ASSUME NEW a \in Assets, status[a] = "none", status'[a] # "none"
        PROVE  cursors'[a].next < cursors'[a].anchor
    <3>1. PICK n, m : n = cursors'[a].next /\ m = cursors'[a].anchor
      OBVIOUS
    <3>2. m \in Nat /\ n = m - 1
      BY <2>1, <3>1, NewlyRegistered
    <3>3. n < m
      BY <3>2
    <3> QED BY <3>1, <3>3
  <2> QED BY <2>1
<1>5. CASE ~Backfilling
  <2>1. \A a \in Assets : status[a] # "none" =>
          /\ cursors'[a].anchor = cursors[a].anchor /\ cursors'[a].next = cursors[a].next
          /\ cursors'[a].done = cursors[a].done /\ cursors'[a].floor = cursors[a].floor
          /\ backfiller' = backfiller
    BY <1>5, WalkFrame
  <2>2. backfiller' = backfiller
    BY <1>5, StepCases, NodeFrame, AssetFrame, FollowingFrame DEF vars
  <2>3. backfiller.pc # "idle" => status[backfiller.asset] # "none"
    BY DEF RowsInv
  <2>4. \A a \in Assets : status'[a] # "none" => cursors'[a].next < cursors'[a].anchor
    BY <1>3, <1>4, <2>1
  <2> QED BY <1>1, <2>1, <2>2, <2>3, <2>4 DEF WalkInv, Walking
<1>6. CASE Backfilling
  <2>0. \A a \in Assets : status'[a] # "none" => status[a] # "none"
    <3>1. ASSUME NEW a \in Assets, status[a] = "none", status'[a] # "none" PROVE FALSE
      <4>1. AssetNext
        BY <3>1, NewlyRegistered
      <4>2. status' # status
        BY <3>1
      <4>3. BackfillScanning \/ FinishLive
        BY <1>6, <4>2, BackfillCases DEF BackfillPick, BackfillAsset, BackfillFloor, BackfillLogs,
           BackfillReprobe, BackfillFold, BackfillAdvance, FinishDone, FinishFloor, AbortBackfill, tableVars
      <4>4. backfiller' = backfiller
        BY <4>1, AssetFrame
      <4> QED BY <4>3, <4>4, StatusDoes, IdleFacts
    <3> QED BY <3>1
  <2>1. ASSUME NEW a \in Assets, NEW probed \in BOOLEAN, BackfillPick(a, probed) PROVE WalkInv'
    <3>1. cursors' = cursors
      BY <2>1 DEF BackfillPick
    <3> QED BY <1>3, <2>0, <2>1, <3>1, PickDoes DEF WalkInv, Walking
  <2>2. CASE BackfillAsset
    <3>1. /\ ~cursors[backfiller.asset].done /\ backfiller.next = cursors[backfiller.asset].next
          /\ backfiller.stored = cursors[backfiller.asset].floor /\ backfiller.logs = {}
      BY <1>1, <2>2, AssetDoes DEF WalkInv, Walking
    <3> QED BY <1>3, <2>0, <2>2, <3>1, AssetDoes DEF WalkInv, Walking
  <2>3. CASE BackfillFloor \/ FinishFloor
    <3>1. \A a \in Assets : status'[a] # "none" => cursors'[a].next < cursors'[a].anchor
      BY <1>3, <2>0, <2>3, FloorDoes
    <3>2. backfiller.logs = {} /\ (backfiller.pc = "floor" => backfiller.floor <= backfiller.next)
      BY <1>1, <2>3, FloorDoes DEF WalkInv
    <3>3. /\ backfiller.pc = "floor" =>
               backfiller.next = cursors[backfiller.asset].next /\ ~cursors[backfiller.asset].done
          /\ backfiller.pc = "keep" => cursors[backfiller.asset].done
      BY <1>1 DEF WalkInv, Walking
    <3> QED BY <1>1, <2>3, <3>1, <3>2, <3>3, FloorDoes DEF WalkInv, Walking
  <2>4. CASE BackfillScanning \/ FinishLive
    <3>1. backfiller.pc = "scan" =>
            /\ backfiller.next = cursors[backfiller.asset].next /\ ~cursors[backfiller.asset].done
            /\ backfiller.logs = {} /\ backfiller.floor <= backfiller.next
            /\ cursors[backfiller.asset].floor = backfiller.floor
      BY <1>1 DEF WalkInv, Walking
    <3> QED BY <1>3, <2>0, <2>4, <3>1, StatusDoes, IdleFacts DEF WalkInv, Walking
  <2>5. ASSUME NEW failed \in BOOLEAN, BackfillLogs(failed) PROVE WalkInv'
    <3>1. /\ backfiller.pc = "logs" /\ cursors' = cursors
          /\ backfiller.next = cursors[backfiller.asset].next /\ ~cursors[backfiller.asset].done
          /\ backfiller.logs = {} /\ backfiller.floor <= backfiller.next
          /\ cursors[backfiller.asset].floor = backfiller.floor
      BY <1>1, <2>5, BackfillLogsDoes DEF WalkInv, Walking
    <3>2. CASE backfiller'.pc = "probe" /\ backfiller'.logs = backfiller.logs
      BY <1>1, <1>3, <2>0, <2>5, <3>1, <3>2, BackfillLogsDoes DEF WalkInv, Walking
    <3>3. CASE /\ backfiller'.pc = "fold" /\ backfiller'.from \in Nat
               /\ backfiller.floor <= backfiller'.from /\ backfiller'.from <= backfiller.next
               /\ backfiller'.logs = Logs(backfiller'.from, backfiller.next, {backfiller.asset})
      <4>1. \A r \in backfiller'.logs : backfiller'.from <= r.block /\ r.block <= backfiller.next
                                        /\ r.asset = backfiller.asset
        BY <1>1, <3>3, LogsFacts
      <4>2. backfiller'.asset = backfiller.asset /\ backfiller'.next = backfiller.next
            /\ backfiller'.floor = backfiller.floor
        BY <2>5, BackfillLogsDoes
      <4> QED BY <1>3, <2>0, <3>1, <3>3, <4>1, <4>2 DEF WalkInv, Walking
    <3> QED BY <2>5, <3>1, <3>2, <3>3, BackfillLogsDoes
  <2>6. ASSUME NEW probed \in BOOLEAN, BackfillReprobe(probed) PROVE WalkInv'
    BY <1>3, <2>0, <2>6, ReprobeDoes, IdleFacts DEF WalkInv, Walking
  <2>7. CASE BackfillFold
    <3>1. backfiller.pc = "fold" /\ cursors' = cursors
      BY <2>7 DEF BackfillFold
    <3> QED BY <1>1, <1>3, <2>0, <2>7, <3>1, FoldDoes DEF WalkInv, Walking
  <2>8. CASE BackfillAdvance
    <3>1. backfiller.pc = "advance" /\ backfiller.logs = {} /\ status[backfiller.asset] # "none"
          /\ backfiller.from <= cursors[backfiller.asset].next
      BY <1>1, <2>8 DEF BackfillAdvance, WalkInv, RowsInv, Walking
    <3>2. \A a \in Assets : status'[a] # "none" => cursors'[a].next < cursors'[a].anchor
      BY <1>1, <1>2, <1>3, <2>0, <2>8, <3>1, AdvanceDoes
    <3>3. backfiller'.logs = {} /\ backfiller'.pc \in {"idle", "done"}
      BY <2>8, <3>1, AdvanceDoes, IdleFacts
    <3> QED BY <3>2, <3>3 DEF WalkInv, Walking
  <2>9. CASE FinishDone
    <3>1. \A a \in Assets : status'[a] # "none" => cursors'[a].next < cursors'[a].anchor
      <4>1. \A a \in Assets : status'[a] # "none" => 0 < cursors[a].anchor
        BY <1>2, <1>3, <2>0
      <4> QED BY <1>3, <2>0, <2>9, <4>1, DoneDoes
    <3>2. backfiller.logs = {}
      BY <1>1, <2>9, DoneDoes DEF WalkInv
    <3> QED BY <2>9, <3>1, <3>2, DoneDoes DEF WalkInv, Walking
  <2>10. CASE AbortBackfill
    <3>1. cursors' = cursors /\ backfiller' = IdleBackfiller
      BY <2>10 DEF AbortBackfill, tableVars
    <3> QED BY <1>3, <2>0, <3>1, IdleFacts DEF WalkInv, Walking
  <2> QED BY <1>6, <2>1, <2>2, <2>3, <2>4, <2>5, <2>6, <2>7, <2>8, <2>9, <2>10, BackfillCases
<1> QED BY <1>5, <1>6

-----------------------------------------------------------------------------
(* What the follower folds is settled.                                     *)

\* No reorg reaches a final block.
LEMMA FinalStays ==
  ASSUME TypeOK, NodeInv, [Next]_vars, NEW r, r.block <= final, Canonical(r)
  PROVE  Canonical(r)' /\ r.block <= final'
<1>0. r.block \in Nat /\ r.block >= 1 /\ r.block <= Len(chain) /\ final \in Nat /\ Len(chain) \in Nat
      /\ Confirmations \in Nat
  BY Numbers DEF Canonical
<1>1. CASE UNCHANGED <<chain, final>>
  BY <1>1 DEF Canonical
<1>2. ASSUME NEW h \in MinedHashes, Mine(h) PROVE Canonical(r)' /\ r.block <= final'
  <2>1. Len(chain') = Len(chain) + 1 /\ (\A i \in 1 .. Len(chain) : chain'[i] = chain[i])
        /\ final' = IF final >= Len(chain) + 1 - Confirmations THEN final
                    ELSE Len(chain) + 1 - Confirmations
    BY <1>2, MineDoes
  <2>2. final <= final'
    BY <1>0, <2>1
  <2>3. r.block <= final'
    BY <1>0, <2>1, <2>2
  <2> QED BY <1>0, <2>1, <2>3 DEF Canonical
<1>3. ASSUME NEW k \in DOMAIN chain, NEW fork \in Forks(k), Reorg(k, fork)
      PROVE  Canonical(r)' /\ r.block <= final'
  <2>1. Len(chain') \in Nat /\ k <= Len(chain') /\ k \in Nat /\ k > final /\ final' = final
        /\ \A i \in 1 .. k - 1 : chain'[i] = chain[i]
    BY <1>3, ReorgDoes DEF Reorg
  <2>2. r.block \in 1 .. k - 1 /\ r.block \in 1 .. Len(chain')
    BY <1>0, <2>1
  <2> QED BY <2>1, <2>2 DEF Canonical
<1> QED BY <1>1, <1>2, <1>3, StepCases, AssetFrame, FollowingFrame, BackfillingFrame DEF NodeNext, Prune, vars

\* What a tick may promote lies below some head by the depth of confirmation.
LEMMA DeepIsFinal ==
  ASSUME TypeOK, NodeInv, follower.pc # "idle", NEW b \in Nat, b + Confirmations <= follower.head
  PROVE  b <= final
BY Numbers DEF NodeInv

LEMMA ConfirmedDeep ==
  ASSUME TypeOK, NEW b \in Nat, b >= 1, b <= ConfirmedTo
  PROVE  b + Confirmations <= follower.head
BY Numbers DEF ConfirmedTo

\* A promotion takes what the head has confirmed.
LEMMA PromoteTakes ==
  ASSUME TypeOK, RowsInv, PromoteChunk \/ PromoteTick
  PROVE  /\ \A r \in rollup' : r \in rollup \/ (r \in pending /\ r.block + Confirmations <= follower.head)
         /\ \A r \in rollup : r \in rollup'
         /\ \A r \in pending : r \in pending' \/ r \in rollup'
         /\ \A r \in pending' : r \in pending
         /\ \A r \in rollup', s \in pending' : r \in rollup \/ r.block < s.block
         /\ \A r \in recounted' : r \in recounted \/ (r \in rollup /\ r \in pending)
         /\ follower.pc \in {"chunk", "promote"}
<1>1. follower.to \in Nat /\ ConfirmedTo \in Nat
  BY FollowerFields, Numbers DEF ConfirmedTo
<1>2. \A r \in pending : r.block \in Nat /\ r.block >= 1
  BY RowFields DEF RowsInv, AllRows
<1>3. ASSUME NEW upto \in Nat, upto <= ConfirmedTo, PromotePending(upto)
      PROVE  /\ \A r \in rollup' : r \in rollup \/ (r \in pending /\ r.block + Confirmations <= follower.head)
             /\ \A r \in rollup : r \in rollup'
             /\ \A r \in pending : r \in pending' \/ r \in rollup'
             /\ \A r \in pending' : r \in pending
             /\ \A r \in rollup', s \in pending' : r \in rollup \/ r.block < s.block
             /\ \A r \in recounted' : r \in recounted \/ (r \in rollup /\ r \in pending)
  <2>1. ASSUME NEW r \in pending, r.block <= upto PROVE r.block + Confirmations <= follower.head
    <3>1. r.block \in Nat /\ r.block >= 1 /\ r.block <= ConfirmedTo
      BY <1>1, <1>2, <1>3, <2>1
    <3> QED BY <3>1, ConfirmedDeep
  <2>2. rollup' = rollup \cup {r \in pending : r.block <= upto}
        /\ pending' = {r \in pending : r.block > upto}
        /\ recounted' = recounted \cup (rollup \cap {r \in pending : r.block <= upto})
    BY <1>3 DEF PromotePending, Fold
  <2>3. \A r \in pending : r.block <= upto \/ r.block > upto
    BY <1>2, <1>3
  <2>4. \A r, s \in pending : r.block <= upto /\ s.block > upto => r.block < s.block
    BY <1>2, <1>3
  <2>5. \A r \in rollup', s \in pending' : r \in rollup \/ r.block < s.block
    BY <2>2, <2>4
  <2> QED BY <2>1, <2>2, <2>3, <2>5
<1>4. CASE PromoteTick
  BY <1>1, <1>3, <1>4 DEF PromoteTick
<1>5. CASE PromoteChunk
  <2>1. PICK upto : upto = Min({follower.to, ConfirmedTo})
    OBVIOUS
  <2>2. follower.to \in Int /\ ConfirmedTo \in Int
    BY <1>1
  <2>3. upto = IF follower.to <= ConfirmedTo THEN follower.to ELSE ConfirmedTo
    BY <2>1, <2>2, MinOfTwo
  <2>4. upto \in Nat /\ upto <= ConfirmedTo
    BY <1>1, <2>3
  <2>5. PromotePending(upto) \/ UNCHANGED <<pending, rollup, recounted>>
    BY <1>5, <2>1 DEF PromoteChunk
  <2>6. follower.pc = "chunk"
    BY <1>5 DEF PromoteChunk
  <2>7. CASE PromotePending(upto)
    BY <1>3, <2>4, <2>6, <2>7
  <2>8. CASE UNCHANGED <<pending, rollup, recounted>>
    BY <2>6, <2>8
  <2> QED BY <2>5, <2>7, <2>8
<1> QED BY <1>4, <1>5

\* The rollup gains rows by a promotion or by the backfiller's fold.
LEMMA RollupGrows ==
  ASSUME [Next]_vars, NEW r \in rollup', r \notin rollup
  PROVE  PromoteChunk \/ PromoteTick \/ (BackfillFold /\ r \in backfiller.logs)
<1>1. rollup' # rollup
  OBVIOUS
<1>2. CASE Following
  BY <1>1, <1>2 DEF Following, FollowStep, FollowHead, CheckHeader, ReorgChecked, DropPendingFrom,
     RewindTail, ListCursors, SweepRead, InsertPending, AdvanceTail, AbortFollow, tableVars
<1>3. CASE Backfilling
  <2>1. BackfillFold
    BY <1>1, <1>3, BackfillRollup
  <2> QED BY <2>1 DEF BackfillFold, Fold
<1> QED BY <1>1, <1>2, <1>3, StepCases, NodeFrame, AssetFrame DEF vars

\* What a chunk read is canonical, or was held already under the same head.
LEMMA LogsGrow ==
  ASSUME TypeOK, TickInv, [Next]_vars, NEW r \in follower'.logs
  PROVE  \/ r \in follower.logs /\ follower'.head = follower.head
         \/ chain' = chain /\ Canonical(r)
<1>1. CASE follower' = follower
  BY <1>1
<1>2. CASE Following
  <2>1. chain' = chain
    BY <1>2, FollowingFrame
  <2>2. ASSUME NEW to \in follower.from .. follower.head, SweepRead(to) PROVE Canonical(r)
    <3>1. follower'.logs = Kept(follower.from, to) /\ to \in Nat /\ follower.from \in Nat
          /\ follower.todo \in SUBSET Assets
      BY <2>2, SweepReadDoes, FollowerFields
    <3> QED BY <3>1, LogsFacts DEF Kept
  <2>3. ASSUME NEW H \in BufferedHashes, FollowHead(H) PROVE FALSE
    BY <2>3, FollowHeadDoes
  <2>4. CASE follower'.logs = follower.logs
    <3>1. follower.pc = "insert" /\ follower' # IdleFollower
      BY <2>4, IdleFacts DEF TickInv
    <3> QED BY <1>2, <2>4, <3>1, FollowingHead
  <2>5. ASSUME NEW lost \in BOOLEAN, CheckHeader(lost) PROVE follower'.logs = follower.logs
    BY <2>5, CheckHeaderDoes
  <2>6. ASSUME NEW a \in follower.todo, AdvanceTail(a) PROVE follower'.logs = follower.logs
    BY <2>6, AdvanceTailDoes
  <2>7. follower' # IdleFollower
    BY IdleFacts
  <2>8. CASE ReorgChecked \/ DropPendingFrom \/ RewindTail \/ PromoteChunk \/ ListCursors
    BY <2>4, <2>7, <2>8, ReorgCheckedDoes, DropDoes, RewindDoes, PromoteChunkDoes, ListCursorsDoes
  <2>9. CASE InsertPending
    BY <2>9, InsertDoes
  <2> QED BY <1>2, <2>1, <2>2, <2>3, <2>4, <2>5, <2>6, <2>7, <2>8, <2>9 DEF Following, FollowStep,
          PromoteTick, AbortFollow
<1> QED BY <1>1, <1>2, StepCases, NodeFrame, AssetFrame, BackfillingFrame DEF vars

\* The head read, every buffered row is compared: the map keeps one hash a height, and there is one.
LEMMA HeadCompares ==
  ASSUME TypeOK, RowsInv, UniqueInv, OneHash, NEW H \in BufferedHashes, NEW r \in pending
  PROVE  Canonical(r) \/ <<r.block, r.hash>> \in H
<1>1. CASE Reorgs = 0
  BY <1>1 DEF RowsInv, AllRows
<1>2. CASE Reorgs # 0
  <2>1. Quiet("aborts") /\ Quiet("resyncs") /\ OneAsset
    BY <1>2 DEF OneHash, Quiet, OneAsset
  <2>2. PICK p \in H : p[1] = r.block
    BY DEF BufferedHashes
  <2>3. PICK s \in pending : p = <<s.block, s.hash>>
    BY <2>2 DEF BufferedHashes
  <2>4. s.block = r.block
    BY <2>2, <2>3
  <2>5. s = r
    BY <2>1, <2>4 DEF UniqueInv
  <2> QED BY <2>2, <2>3, <2>5
<1> QED BY <1>1, <1>2

\* What the backfiller holds lies below the anchor.
LEMMA BackfillBelow ==
  ASSUME TypeOK, RowsInv, WalkInv, Quiet("resyncs"), NEW r \in backfiller.logs
  PROVE  /\ ~Above(r) /\ backfiller.pc = "fold" /\ r.asset = backfiller.asset
         /\ backfiller.from <= r.block /\ r.block <= cursors[r.asset].next
<1>1. r.asset \in Assets /\ r.block \in Nat /\ status[r.asset] # "none"
  BY RowFields DEF RowsInv, AllRows
<1>2. backfiller.pc = "fold" /\ r.asset = backfiller.asset /\ backfiller.from <= r.block
      /\ r.block <= cursors[r.asset].next /\ cursors[r.asset].next < cursors[r.asset].anchor
  BY <1>1 DEF WalkInv, Walking
<1>3. cursors[r.asset].next \in Nat /\ cursors[r.asset].anchor \in Nat
  BY <1>1, CursorFields
<1>4. ~(r.block > cursors[r.asset].anchor)
  BY <1>1, <1>2, <1>3
<1> QED BY <1>2, <1>4 DEF Above

LEMMA SettledStep ==
  ASSUME TypeOK, NodeInv, RowsInv, TickInv, UniqueInv, WalkInv, SettledInv, [Next]_vars
  PROVE  SettledInv'
<1> SUFFICES ASSUME OneHash' PROVE SettledInv'
  BY DEF SettledInv
<1>1. OneHash /\ Quiet("resyncs")' /\ Quiet("resyncs")
  BY ExcusesStay DEF OneHash, Quiet
<1>2. \A r \in AllRows : r.asset \in Assets /\ r.block \in Nat /\ r.block >= 1 /\ status[r.asset] # "none"
  BY RowFields DEF RowsInv
<1>3. ASSUME NEW r \in rollup', Above(r)' PROVE r.block <= final' /\ Canonical(r)'
  <2>1. CASE r \in rollup
    <3>1. Above(r)
      BY <1>1, <1>2, <1>3, <2>1, AnchorStays DEF Above, AllRows
    <3> QED BY <1>1, <2>1, <3>1, FinalStays DEF SettledInv
  <2>2. CASE r \notin rollup /\ (PromoteChunk \/ PromoteTick)
    <3>1. r \in pending /\ r.block + Confirmations <= follower.head /\ follower.pc \in {"chunk", "promote"}
      BY <2>2, PromoteTakes
    <3>2. Canonical(r)
      BY <1>1, <3>1 DEF SettledInv
    <3>3. r.block <= final
      BY <1>2, <3>1, DeepIsFinal DEF AllRows
    <3> QED BY <3>2, <3>3, FinalStays
  <2>3. CASE BackfillFold /\ r \in backfiller.logs
    <3>1. cursors' = cursors
      BY <2>3 DEF BackfillFold
    <3> QED BY <1>1, <1>3, <2>3, <3>1, BackfillBelow DEF Above
  <2> QED BY <2>1, <2>2, <2>3, RollupGrows
<1>4. ASSUME NEW r \in follower'.logs, r.block + Confirmations <= follower'.head PROVE Canonical(r)'
  <2>1. CASE r \in follower.logs /\ follower'.head = follower.head
    <3>1. Canonical(r) /\ follower.pc # "idle"
      BY <1>1, <1>4, <2>1 DEF SettledInv, TickInv
    <3>2. r.block <= final
      BY <1>2, <1>4, <2>1, <3>1, DeepIsFinal DEF AllRows
    <3> QED BY <3>1, <3>2, FinalStays
  <2>2. CASE chain' = chain /\ Canonical(r)
    BY <2>2 DEF Canonical
  <2> QED BY <2>1, <2>2, LogsGrow
<1>5. ASSUME follower'.pc # "idle", NEW r \in pending', r.block + Confirmations <= follower'.head
      PROVE  \/ Canonical(r)'
             \/ follower'.pc = "reorg" /\ <<r.block, r.hash>> \in follower'.hashes
             \/ follower'.pc = "drop" /\ follower'.at <= r.block
  <2>1. CASE follower' = follower /\ pending' = pending
    <3>1. \/ Canonical(r)
          \/ follower.pc = "reorg" /\ <<r.block, r.hash>> \in follower.hashes
          \/ follower.pc = "drop" /\ follower.at <= r.block
      BY <1>1, <1>5, <2>1 DEF SettledInv
    <3>2. r.block <= final
      BY <1>2, <1>5, <2>1, DeepIsFinal DEF AllRows
    <3> QED BY <2>1, <3>1, <3>2, FinalStays
  <2>2. CASE Following
    <3>1. chain' = chain
      BY <2>2, FollowingFrame
    <3>2. Canonical(r) => Canonical(r)'
      BY <3>1 DEF Canonical
    <3>3. ASSUME NEW H \in BufferedHashes, FollowHead(H)
          PROVE  Canonical(r) \/ (follower'.pc = "reorg" /\ <<r.block, r.hash>> \in follower'.hashes)
      <4>1. r \in pending
        BY <3>3 DEF FollowHead, tableVars
      <4> QED BY <1>1, <3>3, <4>1, FollowHeadDoes, HeadCompares
    <3>4. ASSUME NEW lost \in BOOLEAN, CheckHeader(lost)
          PROVE  \/ Canonical(r)
                 \/ follower'.pc = "reorg" /\ <<r.block, r.hash>> \in follower'.hashes
                 \/ follower'.pc = "drop" /\ follower'.at <= r.block
      <4>1. r \in pending /\ follower.pc = "reorg" /\ r.block \in Nat /\ r.block >= 1
        BY <1>2, <3>4 DEF CheckHeader, tableVars, AllRows
      <4>2. PICK b \in Nat :
              /\ \A p \in follower.hashes : b <= p[1]
              /\ follower'.head = follower.head
              /\ \/ /\ follower'.pc = "reorg" /\ b <= Len(chain) /\ <<b, chain[b]>> \in follower.hashes
                    /\ follower'.hashes = {p \in follower.hashes : p[1] # b}
                 \/ follower'.pc = "drop" /\ follower'.at = b
        BY <3>4, CheckHeaderDoes
      <4>3. Canonical(r) \/ <<r.block, r.hash>> \in follower.hashes
        BY <1>1, <1>5, <4>1, <4>2 DEF SettledInv
      <4>4. CASE <<r.block, r.hash>> \in follower.hashes /\ follower'.pc = "drop"
        <5>1. b <= <<r.block, r.hash>>[1]
          BY <4>2, <4>4
        <5> QED BY <4>2, <4>4, <5>1
      <4>5. CASE <<r.block, r.hash>> \in follower.hashes /\ follower'.pc = "reorg" /\ r.block = b
        <5>1. <<b, chain[b]>> \in follower.hashes /\ b <= Len(chain)
          BY <4>2, <4>5
        <5>2. <<b, chain[b]>> = <<r.block, r.hash>>
          BY <4>5, <5>1 DEF TickInv
        <5>3. r.hash = chain[r.block] /\ r.block \in 1 .. Len(chain)
          BY <4>1, <4>5, <5>1, <5>2, Numbers
        <5> QED BY <5>3 DEF Canonical
      <4>6. CASE <<r.block, r.hash>> \in follower.hashes /\ follower'.pc = "reorg" /\ r.block # b
        BY <4>2, <4>6
      <4> QED BY <4>2, <4>3, <4>4, <4>5, <4>6
    <3>5. CASE follower'.head = follower.head /\ follower.pc \notin {"idle", "reorg", "drop"} /\ r \in pending
      BY <1>1, <1>5, <3>2, <3>5 DEF SettledInv
    <3>6. CASE ReorgChecked
      <4>1. follower.pc = "reorg" /\ follower.hashes = {} /\ r \in pending /\ follower'.head = follower.head
        BY <3>6, ReorgCheckedDoes DEF ReorgChecked, tableVars
      <4> QED BY <1>1, <1>5, <3>2, <4>1 DEF SettledInv
    <3>7. CASE DropPendingFrom
      <4>1. follower.pc = "drop" /\ r \in pending /\ r.block < follower.at /\ follower'.head = follower.head
        BY <3>7, DropDoes DEF DropPendingFrom
      <4>2. ~(follower.at <= r.block)
        BY <1>2, <4>1, FollowerFields DEF AllRows
      <4> QED BY <1>1, <1>5, <3>2, <4>1, <4>2 DEF SettledInv
    <3>8. CASE RewindTail
      BY <3>5, <3>8, RewindDoes DEF RewindTail
    <3>9. CASE ListCursors
      BY <1>5, <3>5, <3>9, ListCursorsDoes, IdleFacts DEF ListCursors, tableVars
    <3>10. ASSUME NEW to \in follower.from .. follower.head, SweepRead(to) PROVE Canonical(r)'
      <4>1. follower'.head = follower.head /\ follower.pc = "sweep" /\ r \in pending
        BY <3>10, SweepReadDoes DEF SweepRead, tableVars
      <4> QED BY <1>1, <1>5, <3>2, <4>1 DEF SettledInv
    <3>11. CASE InsertPending
      <4>1. follower'.head = follower.head /\ follower.pc = "insert" /\ (r \in pending \/ r \in follower.logs)
        BY <3>11, InsertDoes DEF InsertPending
      <4> QED BY <1>1, <1>5, <3>2, <4>1 DEF SettledInv
    <3>12. CASE PromoteChunk
      <4>1. follower'.head = follower.head /\ follower.pc = "chunk" /\ r \in pending
        BY <3>12, PromoteChunkDoes, PromoteTakes DEF PromoteChunk
      <4> QED BY <3>5, <4>1
    <3>13. ASSUME NEW a \in follower.todo, AdvanceTail(a) PROVE Canonical(r)'
      <4>1. follower'.head = follower.head /\ follower.pc = "advance" /\ r \in pending
        BY <3>13, AdvanceTailDoes DEF AdvanceTail
      <4> QED BY <1>1, <1>5, <3>2, <4>1 DEF SettledInv
    <3>14. CASE PromoteTick \/ AbortFollow
      BY <1>5, <3>14, IdleFacts DEF PromoteTick, AbortFollow
    <3> QED BY <2>2, <3>2, <3>3, <3>4, <3>6, <3>7, <3>8, <3>9, <3>10, <3>11, <3>12, <3>13, <3>14
            DEF Following, FollowStep
  <2> QED BY <2>1, <2>2, StepCases, NodeFrame, AssetFrame, BackfillingFrame DEF vars
<1> QED BY <1>3, <1>4, <1>5 DEF SettledInv

-----------------------------------------------------------------------------
(* Every emitting block the follower has been past has a row.              *)

\* Reorgs that are noticed replace only blocks in which every asset emits.
LEMMA EmitsBack ==
  ASSUME TypeOK, [Next]_vars, Noticed', NEW a \in Assets, NEW b \in Nat, b <= Len(chain), Emits(a, b)'
  PROVE  Emits(a, b)
<1>0. chain \in Seq(Hashes) /\ Len(chain) \in Nat
  BY DEF TypeOK
<1>1. CASE chain' = chain
  BY <1>1 DEF Emits
<1>2. ASSUME NEW h \in MinedHashes, Mine(h) PROVE Emits(a, b)
  <2>1. chain' \in Seq(Hashes) /\ Len(chain') = Len(chain) + 1 /\ \A i \in 1 .. Len(chain) : chain'[i] = chain[i]
    BY <1>2, MineDoes
  <2>2. b \in 1 .. Len(chain)
    BY <1>0, <2>1 DEF Emits
  <2> QED BY <1>0, <2>1, <2>2 DEF Emits
<1>3. ASSUME NEW k \in DOMAIN chain, NEW fork \in Forks(k), Reorg(k, fork) PROVE Emits(a, b)
  <2>1. chain' \in Seq(Hashes) /\ Len(chain') = Len(chain) /\ k \in Nat /\ k >= 1
        /\ (\A i \in 1 .. k - 1 : chain'[i] = chain[i])
        /\ \A i \in k .. Len(chain) : LogsOf[chain[i]] = Assets
    BY <1>3, ReorgDoes DEF Noticed
  <2>2. b \in 1 .. Len(chain)
    BY <1>0, <2>1 DEF Emits
  <2>3. CASE b < k
    <3>1. chain'[b] = chain[b]
      BY <1>0, <2>1, <2>2, <2>3
    <3> QED BY <1>0, <2>2, <3>1 DEF Emits
  <2>4. CASE ~(b < k)
    <3>1. b \in k .. Len(chain)
      BY <1>0, <2>1, <2>2, <2>4
    <3> QED BY <1>0, <2>1, <2>2, <3>1 DEF Emits
  <2> QED BY <2>3, <2>4
<1> QED BY <1>1, <1>2, <1>3, StepCases, AssetFrame, FollowingFrame, BackfillingFrame DEF NodeNext, Prune, vars

\* Only a rewind takes a row away.
LEMMA RowStays ==
  ASSUME TypeOK, RowsInv, [Next]_vars, NEW r \in pending \cup rollup, DropPendingFrom => r.block < follower.at
  PROVE  r \in pending' \cup rollup'
<1>1. CASE UNCHANGED <<pending, rollup>>
  BY <1>1
<1>2. CASE Following
  <2>1. CASE DropPendingFrom
    BY <2>1 DEF DropPendingFrom
  <2>2. CASE InsertPending
    BY <2>2 DEF InsertPending
  <2>3. CASE PromoteChunk \/ PromoteTick
    BY <2>3, PromoteTakes
  <2> QED BY <1>1, <1>2, <2>1, <2>2, <2>3 DEF Following, FollowStep, FollowHead, CheckHeader, ReorgChecked,
          RewindTail, ListCursors, SweepRead, AdvanceTail, AbortFollow, tableVars
<1>3. CASE Backfilling
  <2>1. pending' = pending
    BY <1>3, BackfillingFrame
  <2>2. CASE BackfillFold
    BY <2>1, <2>2 DEF BackfillFold, Fold
  <2> QED BY <1>1, <1>3, <2>1, <2>2, BackfillRollup
<1> QED BY <1>1, <1>2, <1>3, StepCases, NodeFrame, AssetFrame DEF vars

LEMMA HasRowStays ==
  ASSUME TypeOK, RowsInv, [Next]_vars, NEW a, NEW b, HasRow(a, b), DropPendingFrom => b < follower.at
  PROVE  HasRow(a, b)'
<1>1. PICK r \in pending \cup rollup : r.asset = a /\ r.block = b
  BY DEF HasRow
<1>2. r \in pending' \cup rollup'
  BY <1>1, RowStays
<1> QED BY <1>1, <1>2 DEF HasRow

\* The tail of a registered asset moves up at the end of a sweep only.
LEMMA TailGrows ==
  ASSUME TypeOK, RowsInv, [Next]_vars, Quiet("resyncs")', NEW a \in Assets, status[a] # "none",
         cursors'[a].tail > cursors[a].tail
  PROVE  /\ AdvanceTail(a) /\ a \in follower.todo
         /\ follower.pc = "advance" /\ cursors'[a].tail = follower.head
<1>0. cursors[a].tail \in Nat /\ cursors'[a].tail # cursors[a].tail
  BY CursorFields
<1>1. Following
  BY <1>0, StepCases, NodeFrame, AssetCursors, BackfillingCursors DEF vars, Quiet
<1>2. cursors' # cursors
  BY <1>0
<1>3. CASE RewindTail
  <2>1. cursors'[a].tail <= cursors[a].tail
    BY <1>3, RewindDoes
  <2>2. cursors'[a].tail \in Nat
    BY TypeStep DEF TypeOK, Cursor, Height
  <2> QED BY <1>0, <2>1, <2>2
<1>4. ASSUME NEW c \in follower.todo, AdvanceTail(c)
      PROVE  c = a /\ follower.pc = "advance" /\ cursors'[a].tail = follower.head
  <2>1. c = a
    BY <1>0, <1>4, AdvanceTailDoes
  <2>2. follower.pc = "advance"
    BY <1>4 DEF AdvanceTail
  <2> QED BY <1>0, <1>4, <2>1, <2>2, AdvanceTailDoes
<1> QED BY <1>1, <1>2, <1>3, <1>4 DEF Following, FollowStep, FollowHead, CheckHeader, ReorgChecked,
        DropPendingFrom, ListCursors, SweepRead, InsertPending, PromoteChunk, PromoteTick, AbortFollow, tableVars

LEMMA ScannedBelowHead ==
  ASSUME TypeOK, NodeInv, TickInv, Quiet("shrunk"), NEW b \in Nat,
         Scanned(b) \/ (follower.pc = "insert" /\ b <= follower.to)
  PROVE  b <= Len(chain)
<1>1. follower.head <= Len(chain) /\ follower.head \in Nat /\ Len(chain) \in Nat /\ follower.from \in Nat
      /\ follower.to \in Nat
  BY Numbers, FollowerFields DEF NodeInv
<1>2. b <= follower.head
  BY <1>1 DEF Scanned, TickInv
<1> QED BY <1>1, <1>2

\* What a sweep is past, above the tails, it was past already or has just buffered.
LEMMA ScannedStep ==
  ASSUME TypeOK, TickInv, [Next]_vars, NEW a \in follower'.todo, NEW b \in Nat, Scanned(b)',
         follower'.tails[a] < b
  PROVE  /\ a \in follower.todo /\ follower'.tails = follower.tails
         /\ Scanned(b) \/ (InsertPending /\ b \in follower.from .. follower.to)
<1>0. follower.from \in Nat /\ follower.to \in Nat /\ follower.head \in Nat
  BY FollowerFields
<1>1. CASE follower' = follower
  BY <1>1 DEF Scanned
<1>2. CASE Following
  <2>1. follower'.pc \in {"sweep", "insert", "chunk", "advance"}
    BY DEF Scanned
  <2>2. ASSUME NEW H \in BufferedHashes, FollowHead(H) PROVE FALSE
    BY <2>1, <2>2, FollowHeadDoes
  <2>3. ASSUME NEW lost \in BOOLEAN, CheckHeader(lost) PROVE FALSE
    BY <2>1, <2>3, CheckHeaderDoes
  <2>4. CASE ReorgChecked \/ DropPendingFrom \/ RewindTail \/ PromoteTick \/ AbortFollow
    BY <2>1, <2>4, ReorgCheckedDoes, DropDoes, RewindDoes, IdleFacts DEF PromoteTick, AbortFollow
  <2>5. CASE ListCursors
    <3>1. /\ follower'.pc = "sweep" /\ follower'.todo = Listed
          /\ \A c \in Listed : follower'.from <= cursors[c].tail + 1 /\ follower'.tails[c] = cursors[c].tail
      BY <2>1, <2>5, ListCursorsDoes, IdleFacts
    <3>2. b < follower'.from /\ follower'.from <= cursors[a].tail + 1 /\ cursors[a].tail < b
      BY <3>1 DEF Scanned
    <3>3. follower'.from \in Nat /\ cursors[a].tail \in Nat
      BY <3>1, TypeStep, CursorFields DEF TypeOK, Follower, Height, Listed
    <3> QED BY <3>2, <3>3
  <2>6. ASSUME NEW to \in follower.from .. follower.head, SweepRead(to)
        PROVE  a \in follower.todo /\ follower'.tails = follower.tails /\ Scanned(b)
    <3>1. follower.pc = "sweep"
      BY <2>6 DEF SweepRead
    <3> QED BY <2>6, <3>1, SweepReadDoes DEF Scanned
  <2>7. CASE InsertPending
    <3>1. follower.pc = "insert"
      BY <2>7 DEF InsertPending
    <3>2. b <= follower.to /\ a \in follower.todo /\ follower'.tails = follower.tails
      BY <2>7, InsertDoes DEF Scanned
    <3> QED BY <1>0, <2>7, <3>1, <3>2 DEF Scanned
  <2>8. CASE PromoteChunk
    <3>1. follower.pc = "chunk"
      BY <2>8 DEF PromoteChunk
    <3> QED BY <1>0, <2>8, <3>1, PromoteChunkDoes DEF Scanned
  <2>9. ASSUME NEW c \in follower.todo, AdvanceTail(c)
        PROVE  a \in follower.todo /\ follower'.tails = follower.tails /\ Scanned(b)
    <3>1. follower.pc = "advance"
      BY <2>9 DEF AdvanceTail
    <3> QED BY <2>9, <3>1, AdvanceTailDoes DEF Scanned
  <2> QED BY <1>2, <2>2, <2>3, <2>4, <2>5, <2>6, <2>7, <2>8, <2>9 DEF Following, FollowStep
<1> QED BY <1>1, <1>2, StepCases, NodeFrame, AssetFrame, BackfillingFrame DEF vars

\* A rewind under way goes on, is made, or is torn.
LEMMA RewindGoesOn ==
  ASSUME TypeOK, [Next]_vars, follower.pc = "rewind", Noticed'
  PROVE  RewindTail \/ follower' = follower
<1>1. Following => RewindTail \/ AbortFollow
  BY DEF Following, FollowStep, FollowHead, CheckHeader, ReorgChecked, DropPendingFrom, ListCursors,
     SweepRead, InsertPending, PromoteChunk, AdvanceTail, PromoteTick
<1>2. ~AbortFollow
  BY AbortSeen DEF Noticed
<1> QED BY <1>1, <1>2, StepCases, NodeFrame, AssetFrame, BackfillingFrame DEF vars

LEMMA RowedStep ==
  ASSUME TypeOK, NodeInv, RowsInv, TickInv, RowedInv, [Next]_vars
  PROVE  RowedInv'
<1> SUFFICES ASSUME Noticed', Quiet("resyncs")' PROVE RowedInv'
  BY DEF RowedInv
<1>1. Noticed /\ Quiet("resyncs") /\ Quiet("shrunk") /\ TypeOK'
      /\ follower.todo \in SUBSET Assets /\ follower'.todo \in SUBSET Assets
  BY ExcusesStay, FollowerFields, TypeStep DEF Noticed, Quiet, TypeOK, Follower
<1>2. ASSUME NEW a \in Assets, NEW b \in Nat, status'[a] # "none", Emits(a, b)',
             cursors'[a].anchor < b, b <= cursors'[a].tail
      PROVE  HasRow(a, b)' \/ (follower'.pc = "rewind" /\ follower'.at <= b)
  <2>0. cursors[a].anchor \in Nat /\ cursors[a].tail \in Nat /\ cursors'[a].tail \in Nat
        /\ cursors'[a].anchor \in Nat /\ follower.at \in Nat /\ follower.head \in Nat
    BY <1>1, CursorFields, FollowerFields DEF TypeOK, Cursor, Height
  <2>1. status[a] # "none"
    <3>1. ASSUME status[a] = "none" PROVE FALSE
      <4>1. cursors'[a].tail = cursors'[a].anchor
        BY <1>2, <3>1, NewlyRegistered
      <4> QED BY <1>2, <2>0, <4>1
    <3> QED BY <3>1
  <2>2. cursors[a].anchor < b
    BY <1>2, <2>1, AnchorStays
  <2>3. CASE b <= cursors[a].tail
    <3>1. b <= Len(chain)
      BY <1>1, <2>0, <2>3, Numbers DEF NodeInv
    <3>2. Emits(a, b)
      BY <1>2, <3>1, EmitsBack
    <3>3. HasRow(a, b) \/ (follower.pc = "rewind" /\ follower.at <= b)
      BY <1>1, <2>1, <2>2, <2>3, <3>2 DEF RowedInv
    <3>4. CASE HasRow(a, b) /\ ~DropPendingFrom
      BY <3>4, HasRowStays
    <3>5. CASE HasRow(a, b) /\ DropPendingFrom
      BY <2>0, <3>5, HasRowStays, DropDoes
    <3>6. CASE follower.pc = "rewind" /\ follower.at <= b
      <4>1. CASE follower' = follower
        BY <3>6, <4>1
      <4>2. CASE RewindTail
        <5>1. (follower.at >= 1 => cursors'[a].tail < follower.at) /\ (follower.at = 0 => cursors'[a].tail = 0)
          BY <4>2, RewindDoes
        <5> QED BY <1>2, <2>0, <2>2, <3>6, <5>1
      <4> QED BY <3>6, <4>1, <4>2, RewindGoesOn
    <3> QED BY <3>3, <3>4, <3>5, <3>6
  <2>4. CASE ~(b <= cursors[a].tail)
    <3>1. cursors'[a].tail > cursors[a].tail
      BY <1>2, <2>0, <2>4
    <3>2. AdvanceTail(a) /\ a \in follower.todo /\ follower.pc = "advance" /\ cursors'[a].tail = follower.head
      BY <2>1, <3>1, TailGrows
    <3>3. Scanned(b) /\ follower.tails[a] < b
      BY <1>1, <1>2, <2>0, <2>4, <3>2 DEF Scanned, TickInv, Sweeping
    <3>4. b <= Len(chain)
      BY <1>1, <3>3, ScannedBelowHead
    <3>5. HasRow(a, b)
      BY <1>1, <1>2, <3>2, <3>3, <3>4, EmitsBack DEF RowedInv
    <3>6. ~DropPendingFrom
      BY <3>2 DEF DropPendingFrom
    <3> QED BY <3>5, <3>6, HasRowStays
  <2> QED BY <2>3, <2>4
<1>3. ASSUME NEW a \in follower'.todo, NEW b \in Nat, Scanned(b)', follower'.tails[a] < b, Emits(a, b)'
      PROVE  HasRow(a, b)'
  <2>1. /\ a \in follower.todo /\ follower'.tails = follower.tails
        /\ Scanned(b) \/ (InsertPending /\ b \in follower.from .. follower.to)
    BY <1>3, ScannedStep
  <2>2. InsertPending => follower.pc = "insert"
    BY DEF InsertPending
  <2>3. b <= Len(chain)
    BY <1>1, <2>1, <2>2, ScannedBelowHead, FollowerFields
  <2>4. Emits(a, b)
    BY <1>1, <1>3, <2>1, <2>3, EmitsBack
  <2>5. CASE Scanned(b)
    <3>1. HasRow(a, b)
      BY <1>1, <1>3, <2>1, <2>4, <2>5 DEF RowedInv
    <3>2. ~DropPendingFrom
      BY <2>5 DEF Scanned, DropPendingFrom
    <3> QED BY <3>1, <3>2, HasRowStays
  <2>6. CASE InsertPending /\ b \in follower.from .. follower.to
    <3>1. \E r \in follower.logs : r.asset = a /\ r.block = b
      BY <1>1, <1>3, <2>1, <2>2, <2>4, <2>6 DEF RowedInv
    <3>2. pending' = pending \cup follower.logs
      BY <2>6 DEF InsertPending
    <3> QED BY <3>1, <3>2 DEF HasRow
  <2> QED BY <2>1, <2>5, <2>6
<1>4. ASSUME follower'.pc = "insert", NEW a \in follower'.todo, NEW b \in follower'.from .. follower'.to,
             follower'.tails[a] < b, Emits(a, b)'
      PROVE  \E r \in follower'.logs : r.asset = a /\ r.block = b
  <2>0. follower'.from \in Nat /\ follower'.to \in Nat
    BY <1>1 DEF TypeOK, Follower, Height
  <2>1. CASE follower' = follower
    <3>1. b \in Nat /\ b <= follower.to
      BY <2>0, <2>1
    <3>2. b <= Len(chain)
      BY <1>1, <1>4, <2>1, <3>1, ScannedBelowHead
    <3>3. Emits(a, b)
      BY <1>1, <1>4, <3>1, <3>2, EmitsBack
    <3> QED BY <1>1, <1>4, <2>1, <3>3 DEF RowedInv
  <2>2. ASSUME NEW to \in follower.from .. follower.head, SweepRead(to)
        PROVE  \E r \in follower'.logs : r.asset = a /\ r.block = b
    <3>1. /\ follower'.from = follower.from /\ follower'.todo = follower.todo /\ follower'.tails = follower.tails
          /\ follower'.to = to /\ follower'.logs = Kept(follower.from, to)
          /\ to \in Nat
      BY <2>2, SweepReadDoes
    <3>2. chain' = chain
      BY <2>2 DEF SweepRead, nodeVars
    <3>3. Emits(a, b) /\ b \in Nat /\ follower.from \in Nat /\ follower.from <= b /\ b <= to
      BY <1>4, <2>0, <3>1, <3>2 DEF Emits
    <3>4. RowAt(a, b) \in Logs(follower.from, to, follower.todo)
      BY <1>1, <1>4, <3>1, <3>3, LogsFacts
    <3>5. RowAt(a, b).block = b /\ RowAt(a, b).asset = a
      BY DEF RowAt
    <3>6. follower.tails[a] \in Nat
      BY <1>1, <1>4, <3>1, FollowerFields
    <3>7. RowAt(a, b) \in Kept(follower.from, to)
      BY <1>4, <3>1, <3>3, <3>4, <3>5, <3>6 DEF Kept
    <3> QED BY <3>1, <3>5, <3>7
  <2>3. CASE Following /\ ~\E to \in follower.from .. follower.head : SweepRead(to)
    BY <1>4, <2>3, FollowHeadDoes, CheckHeaderDoes, ReorgCheckedDoes, DropDoes, RewindDoes, ListCursorsDoes,
       InsertDoes, PromoteChunkDoes, AdvanceTailDoes, IdleFacts DEF Following, FollowStep, PromoteTick, AbortFollow
  <2> QED BY <2>1, <2>2, <2>3, StepCases, NodeFrame, AssetFrame, BackfillingFrame DEF vars
<1> QED BY <1>2, <1>3, <1>4 DEF RowedInv

-----------------------------------------------------------------------------
(* What the walk has been past is in the rollup.                           *)

LEMMA EmitsSame ==
  ASSUME TypeOK, [Next]_vars, (Reorgs = 0)', NEW a, NEW b \in Nat, b <= Len(chain), Emits(a, b)'
  PROVE  Emits(a, b) /\ RowAt(a, b)' = RowAt(a, b)
<1>0. chain \in Seq(Hashes) /\ Len(chain) \in Nat
  BY DEF TypeOK
<1>1. CASE chain' = chain
  BY <1>1 DEF Emits, RowAt
<1>2. ASSUME NEW h \in MinedHashes, Mine(h) PROVE Emits(a, b) /\ RowAt(a, b)' = RowAt(a, b)
  <2>1. chain' \in Seq(Hashes) /\ Len(chain') = Len(chain) + 1 /\ \A i \in 1 .. Len(chain) : chain'[i] = chain[i]
    BY <1>2, MineDoes
  <2>2. b \in 1 .. Len(chain)
    BY <1>0, <2>1 DEF Emits
  <2> QED BY <1>0, <2>1, <2>2 DEF Emits, RowAt
<1>3. ASSUME NEW k \in DOMAIN chain, NEW fork \in Forks(k), Reorg(k, fork) PROVE FALSE
  BY <1>3, ReorgDoes
<1> QED BY <1>1, <1>2, <1>3, StepCases, AssetFrame, FollowingFrame, BackfillingFrame DEF NodeNext, Prune, vars

LEMMA RollupKeeps == ASSUME TypeOK, RowsInv, [Next]_vars PROVE rollup \subseteq rollup'
<1>1. CASE rollup' = rollup
  BY <1>1
<1>2. CASE PromoteChunk \/ PromoteTick
  BY <1>2, PromoteTakes
<1>3. CASE BackfillFold
  BY <1>3 DEF BackfillFold, Fold
<1>4. ASSUME NEW r \in rollup', r \notin rollup PROVE rollup \subseteq rollup'
  BY <1>2, <1>3, <1>4, RollupGrows
<1>5. CASE Following
  BY <1>1, <1>2, <1>5 DEF Following, FollowStep, FollowHead, CheckHeader, ReorgChecked, DropPendingFrom,
     RewindTail, ListCursors, SweepRead, InsertPending, AdvanceTail, AbortFollow, tableVars
<1>6. CASE Backfilling
  BY <1>1, <1>3, <1>6, BackfillRollup
<1> QED BY <1>1, <1>5, <1>6, StepCases, NodeFrame, AssetFrame DEF vars

\* A window that was folded joins what the walk has been past.
LEMMA WindowWalked ==
  ASSUME TypeOK, RowsInv, WalkInv, WalkedInv, Reorgs = 0, Quiet("resyncs"), Quiet("unfloored"),
         backfiller.pc = "advance", NEW b \in Nat, Emits(backfiller.asset, b),
         backfiller.from <= b, b < cursors[backfiller.asset].anchor
  PROVE  RowAt(backfiller.asset, b) \in rollup
<1>1. /\ backfiller.asset \in Assets /\ status[backfiller.asset] # "none"
      /\ ~cursors[backfiller.asset].done /\ backfiller.next = cursors[backfiller.asset].next
      /\ backfiller.next \in Nat /\ ~FloorBehind(backfiller.asset)
  BY BackfillerFields DEF WalkInv, Walking, RowsInv, FloorBehind
<1>2. CASE b <= backfiller.next
  BY <1>2 DEF WalkedInv
<1>3. CASE ~(b <= backfiller.next)
  <2>1. cursors[backfiller.asset].next < b
    BY <1>1, <1>3
  <2> QED BY <1>1, <2>1 DEF WalkedInv
<1> QED BY <1>2, <1>3

LEMMA WalkedStep ==
  ASSUME TypeOK, NodeInv, RowsInv, WalkInv, WalkedInv, [Next]_vars
  PROVE  WalkedInv'
<1> SUFFICES ASSUME (Reorgs = 0)', Quiet("resyncs")', Quiet("unfloored")' PROVE WalkedInv'
  BY DEF WalkedInv
<1>1. Reorgs = 0 /\ Quiet("resyncs") /\ Quiet("unfloored") /\ Quiet("shrunk") /\ TypeOK' /\ rollup \subseteq rollup'
      /\ backfiller.asset \in Assets /\ backfiller.next \in Nat
      /\ backfiller.from \in Nat /\ backfiller.floor \in Nat
  BY ExcusesStay, TypeStep, RollupKeeps, BackfillerFields
<1>2. \A a \in Assets : /\ cursors[a].anchor \in Nat /\ cursors[a].next \in Nat /\ cursors[a].floor \in Nat
                        /\ cursors[a].done \in BOOLEAN
                        /\ cursors[a].anchor <= Len(chain) /\ Len(chain) \in Nat
  BY <1>1, CursorFields, Numbers DEF NodeInv
<1>3. ASSUME NEW a \in Assets, NEW b \in Nat, status'[a] # "none", Emits(a, b)', b < cursors'[a].anchor,
             IF cursors'[a].done THEN cursors'[a].floor <= b ELSE cursors'[a].next < b,
             FloorBehind(a)' => backfiller'.floor <= b
      PROVE  RowAt(a, b)' \in rollup'
  <2>1. status[a] # "none"
    <3>1. ASSUME status[a] = "none" PROVE FALSE
      <4>1. PICK n, m : n = cursors'[a].next /\ m = cursors'[a].anchor
        OBVIOUS
      <4>2. n = m - 1 /\ m \in Nat /\ n < b /\ b < m
        BY <1>3, <3>1, <4>1, NewlyRegistered
      <4> QED BY <4>2
    <3> QED BY <3>1
  <2>2. cursors'[a].anchor = cursors[a].anchor
    BY <2>1, AnchorStays
  <2>3. b <= Len(chain) /\ b < cursors[a].anchor
    BY <1>2, <1>3, <2>2
  <2>4. Emits(a, b) /\ RowAt(a, b)' = RowAt(a, b)
    BY <1>3, <2>3, EmitsSame
  <2>5. CASE /\ IF cursors[a].done THEN cursors[a].floor <= b ELSE cursors[a].next < b
             /\ FloorBehind(a) => backfiller.floor <= b
    BY <1>1, <2>1, <2>3, <2>4, <2>5 DEF WalkedInv
  <2>6. CASE ~Backfilling
    <3>1. /\ cursors'[a].next = cursors[a].next /\ cursors'[a].done = cursors[a].done
          /\ cursors'[a].floor = cursors[a].floor /\ backfiller' = backfiller
      BY <2>1, <2>6, WalkFrame
    <3>2. FloorBehind(a)' <=> FloorBehind(a)
      BY <3>1 DEF FloorBehind
    <3> QED BY <1>3, <2>5, <3>1, <3>2
  <2>7. CASE cursors'[a] = cursors[a] /\ ~FloorBehind(a)
    BY <1>3, <2>5, <2>7
  <2>8. CASE a = backfiller.asset /\ backfiller.pc \in Ending /\ backfiller.floor <= b
    BY <1>1, <2>3, <2>4, <2>8 DEF WalkedInv
  <2>9. CASE BackfillFloor \/ FinishFloor
    <3>1. CASE a # backfiller.asset
      BY <2>7, <2>9, <3>1, FloorDoes DEF FloorBehind
    <3>2. CASE a = backfiller.asset /\ backfiller.pc = "floor"
      <4>1. ~cursors[a].done
        BY <1>1, <3>2 DEF WalkInv, Walking
      <4>2. cursors'[a].next = cursors[a].next /\ cursors'[a].done = cursors[a].done
        BY <1>1, <2>9, FloorDoes
      <4> QED BY <1>3, <2>5, <3>2, <4>1, <4>2 DEF FloorBehind
    <3>3. CASE a = backfiller.asset /\ backfiller.pc = "keep"
      <4>1. cursors[a].done
        BY <1>1, <3>3 DEF WalkInv
      <4>2. cursors'[a].done = cursors[a].done /\ cursors'[a].floor = backfiller.floor
        BY <1>1, <2>9, <3>3, FloorDoes
      <4> QED BY <1>3, <2>8, <3>3, <4>1, <4>2 DEF Ending
    <3> QED BY <2>9, <3>1, <3>2, <3>3, FloorDoes
  <2>10. CASE BackfillAdvance
    <3>0. backfiller.pc = "advance"
      BY <2>10 DEF BackfillAdvance
    <3>1. CASE a # backfiller.asset
      BY <2>7, <2>10, <3>0, <3>1, AdvanceDoes DEF FloorBehind
    <3>2. CASE a = backfiller.asset
      <4>1. cursors[a].floor = backfiller.floor
        BY <1>1, <3>0, <3>2 DEF WalkInv
      <4>2. /\ cursors'[a].next = IF backfiller.from > 0 THEN backfiller.from - 1 ELSE 0
            /\ cursors'[a].done => backfiller.from <= backfiller.floor
            /\ cursors'[a].floor = backfiller.floor
        BY <2>10, <3>2, <4>1, AdvanceDoes
      <4>3. backfiller.from <= b
        BY <1>1, <1>3, <4>2
      <4>4. RowAt(a, b) \in rollup
        BY <1>1, <2>3, <2>4, <3>0, <3>2, <4>3, WindowWalked
      <4> QED BY <1>1, <2>4, <4>4
    <3> QED BY <3>1, <3>2
  <2>11. CASE FinishDone
    <3>1. CASE a # backfiller.asset
      BY <2>7, <2>11, <3>1, DoneDoes DEF FloorBehind
    <3>2. CASE a = backfiller.asset
      <4>1. /\ cursors'[a].done = TRUE /\ cursors'[a].floor = cursors[a].floor
            /\ backfiller'.pc = "keep" /\ backfiller'.asset = a /\ backfiller'.floor = backfiller.floor
            /\ backfiller.pc = "done"
        BY <1>1, <2>11, <3>2, DoneDoes
      <4>2. cursors[a].floor <= b
        BY <1>3, <4>1
      <4>3. cursors[a].floor # backfiller.floor => backfiller.floor <= b
        BY <1>3, <4>1 DEF FloorBehind
      <4> QED BY <2>8, <3>2, <4>1, <4>2, <4>3 DEF Ending
    <3> QED BY <3>1, <3>2
  <2>12. CASE AbortBackfill
    <3>1. ASSUME FloorBehind(a) PROVE FALSE
      <4>1. "unfloored" \in Disturbance /\ Disturb("unfloored")
        BY <2>12, <3>1 DEF AbortBackfill, FloorBehind, Disturbance
      <4> QED BY <4>1, Disturbs DEF Quiet
    <3> QED BY <2>7, <2>12, <3>1 DEF AbortBackfill, tableVars
  <2>13. CASE cursors' = cursors /\ backfiller.pc # "keep"
    BY <2>7, <2>13 DEF FloorBehind
  <2>14. CASE BackfillAsset \/ BackfillScanning \/ FinishLive
    BY <2>13, <2>14, AssetDoes, StatusDoes
  <2>15. ASSUME NEW flag \in BOOLEAN, BackfillLogs(flag) \/ BackfillReprobe(flag)
         PROVE  cursors' = cursors /\ backfiller.pc # "keep"
    BY <2>15 DEF BackfillLogs, BackfillReprobe, tableVars
  <2>16. ASSUME NEW c \in Assets, NEW probed \in BOOLEAN, BackfillPick(c, probed)
         PROVE  cursors' = cursors /\ backfiller.pc # "keep"
    BY <2>16 DEF BackfillPick
  <2>17. CASE BackfillFold
    BY <2>13, <2>17 DEF BackfillFold
  <2> QED BY <2>6, <2>9, <2>10, <2>11, <2>12, <2>13, <2>14, <2>15, <2>16, <2>17, BackfillCases
<1>4. ASSUME NEW a \in Assets, a = backfiller'.asset, NEW b \in Nat, Emits(a, b)'
      PROVE  /\ backfiller'.pc = "fold" /\ backfiller'.from <= b /\ b <= backfiller'.next
                  => RowAt(a, b)' \in backfiller'.logs
             /\ backfiller'.pc = "advance" /\ backfiller'.from <= b /\ b <= backfiller'.next
                  => RowAt(a, b)' \in rollup'
             /\ backfiller'.pc \in Ending /\ backfiller'.floor <= b /\ b < cursors'[a].anchor
                  => RowAt(a, b)' \in rollup'
  <2> DEFINE G == /\ backfiller'.pc = "fold" /\ backfiller'.from <= b /\ b <= backfiller'.next
                       => RowAt(a, b)' \in backfiller'.logs
                  /\ backfiller'.pc = "advance" /\ backfiller'.from <= b /\ b <= backfiller'.next
                       => RowAt(a, b)' \in rollup'
                  /\ backfiller'.pc \in Ending /\ backfiller'.floor <= b /\ b < cursors'[a].anchor
                       => RowAt(a, b)' \in rollup'
  <2>1. CASE backfiller' = backfiller /\ ~Backfilling
    <3>1. CASE backfiller.pc = "idle"
      BY <2>1, <3>1 DEF Ending
    <3>2. CASE backfiller.pc # "idle"
      <4>1. status[backfiller.asset] # "none"
        BY <3>2 DEF RowsInv
      <4>2. cursors'[backfiller.asset].anchor = cursors[backfiller.asset].anchor
        BY <1>1, <2>1, <4>1, WalkFrame
      <4>3. backfiller.pc \in {"fold", "advance"} => backfiller.next < cursors[backfiller.asset].anchor
        BY <1>1, <4>1 DEF WalkInv, Walking
      <4>4. CASE b <= Len(chain)
        <5>1. a = backfiller.asset /\ Emits(a, b) /\ RowAt(a, b)' = RowAt(a, b)
          BY <1>4, <2>1, <4>4, EmitsSame
        <5>2. Emits(backfiller.asset, b) /\ RowAt(backfiller.asset, b) = RowAt(a, b)
          BY <5>1
        <5>3. /\ backfiller.pc = "fold" /\ backfiller.from <= b /\ b <= backfiller.next
                   => RowAt(a, b) \in backfiller.logs
              /\ backfiller.pc = "advance" /\ backfiller.from <= b /\ b <= backfiller.next
                   => RowAt(a, b) \in rollup
              /\ backfiller.pc \in Ending /\ backfiller.floor <= b /\ b < cursors[a].anchor
                   => RowAt(a, b) \in rollup
          BY <1>1, <5>1, <5>2 DEF WalkedInv
        <5>4. cursors'[a].anchor = cursors[a].anchor
          BY <4>2, <5>1
        <5> QED BY <1>1, <2>1, <5>1, <5>3, <5>4
      <4>5. CASE ~(b <= Len(chain))
        <5>1. cursors[backfiller.asset].anchor < b
          BY <1>1, <1>2, <4>5
        <5>2. a = backfiller.asset /\ cursors'[a].anchor = cursors[a].anchor /\ cursors[a].anchor \in Nat
          BY <1>2, <1>4, <2>1, <4>2
        <5>3. ~(b < cursors'[a].anchor)
          BY <5>1, <5>2
        <5>4. backfiller.pc \in {"fold", "advance"} => ~(b <= backfiller.next)
          BY <1>1, <1>2, <4>3, <5>1
        <5> QED BY <2>1, <5>3, <5>4
      <4> QED BY <4>4, <4>5
    <3> QED BY <3>1, <3>2
  <2>2. CASE Backfilling
    <3>0. chain' = chain
      BY <2>2, BackfillingFrame
    <3>1. CASE backfiller'.pc \in {"idle", "asset", "floor", "scan", "logs", "probe"}
      BY <3>1 DEF Ending
    <3>2. ASSUME NEW c \in Assets, NEW probed \in BOOLEAN, BackfillPick(c, probed) PROVE G
      BY <3>1, <3>2, PickDoes
    <3>3. CASE BackfillAsset
      <4>1. /\ backfiller.pc = "asset" /\ backfiller'.asset = backfiller.asset /\ backfiller'.floor \in Nat
            /\ ~cursors[backfiller.asset].done /\ backfiller.next = cursors[backfiller.asset].next
            /\ status[backfiller.asset] # "none" /\ cursors' = cursors
        BY <1>1, <3>3, AssetDoes DEF WalkInv, Walking, RowsInv
      <4>2. a = backfiller.asset /\ Emits(a, b) /\ RowAt(a, b)' = RowAt(a, b)
        BY <1>4, <3>0, <4>1 DEF Emits, RowAt
      <4>3. ASSUME backfiller'.pc = "done", backfiller.next < backfiller'.floor,
                   backfiller'.floor <= b, b < cursors[a].anchor
            PROVE  RowAt(a, b) \in rollup
        <5>1. cursors[a].next < b /\ ~FloorBehind(a)
          BY <1>1, <4>1, <4>2, <4>3 DEF FloorBehind
        <5> QED BY <1>1, <4>1, <4>2, <4>3, <5>1 DEF WalkedInv
      <4>4. CASE backfiller'.pc = "done" /\ backfiller.next < backfiller'.floor
        BY <1>1, <4>1, <4>2, <4>3, <4>4 DEF Ending
      <4> QED BY <3>1, <3>3, <4>4, AssetDoes
    <3>7. ASSUME NEW failed \in BOOLEAN, BackfillLogs(failed) PROVE G
      <4>1. backfiller'.asset = backfiller.asset /\ backfiller'.next = backfiller.next
        BY <3>7, BackfillLogsDoes
      <4>2. a = backfiller.asset /\ Emits(a, b) /\ RowAt(a, b)' = RowAt(a, b)
        BY <1>4, <3>0, <4>1 DEF Emits, RowAt
      <4>3. {backfiller.asset} \in SUBSET Assets
        BY <1>1
      <4>4. CASE /\ backfiller'.pc = "fold" /\ backfiller'.from \in Nat
                 /\ backfiller'.logs = Logs(backfiller'.from, backfiller.next, {backfiller.asset})
        <5>1. b \in DOMAIN chain /\ a \in LogsOf[chain[b]] /\ a \in {backfiller.asset}
          BY <4>2 DEF Emits
        <5>2. backfiller'.from <= b /\ b <= backfiller'.next => RowAt(a, b) \in backfiller'.logs
          <6> SUFFICES ASSUME backfiller'.from <= b, b <= backfiller'.next
                       PROVE RowAt(a, b) \in backfiller'.logs
            OBVIOUS
          <6>0. chain \in Seq(Hashes) /\ backfiller \in Backfiller
            BY <1>1 DEF TypeOK
          <6>1. b \in Nat /\ 1 <= b /\ b <= Len(chain) /\ backfiller.next \in Nat
            BY <5>1, <6>0 DEF Backfiller, Height
          <6>2. b \in Within(backfiller'.from, backfiller.next)
            BY <4>1, <4>4, <6>1 DEF Within
          <6>3. chain[b] \in Hashes
            BY <1>1, <6>1 DEF TypeOK
          <6> QED BY <4>4, <5>1, <6>2, <6>3 DEF Logs, RowAt
        <5> QED BY <4>2, <4>4, <5>2 DEF Ending
      <4> QED BY <3>1, <3>7, <4>4, BackfillLogsDoes
    <3>8. CASE FinishFloor \/ FinishDone
      <4>1. /\ backfiller.pc \in Ending /\ backfiller'.pc \in {"keep", "live"}
            /\ backfiller'.asset = backfiller.asset /\ backfiller'.floor = backfiller.floor
        BY <3>8, FloorDoes, DoneDoes DEF Ending, FinishFloor
      <4>2. a = backfiller.asset /\ Emits(a, b) /\ RowAt(a, b)' = RowAt(a, b)
        BY <1>4, <3>0, <4>1 DEF Emits, RowAt
      <4>3. cursors'[a].anchor = cursors[a].anchor
        BY <2>2, BackfillingCursors
      <4>4. backfiller.floor <= b /\ b < cursors[a].anchor => RowAt(a, b) \in rollup
        BY <1>1, <4>1, <4>2 DEF WalkedInv
      <4> QED BY <1>1, <4>1, <4>2, <4>3, <4>4
    <3>9. CASE BackfillFloor \/ BackfillScanning \/ FinishLive
      BY <3>1, <3>9, FloorDoes, StatusDoes, IdleFacts DEF BackfillFloor
    <3>10. ASSUME NEW probed \in BOOLEAN, BackfillReprobe(probed) PROVE G
      BY <3>1, <3>10, ReprobeDoes, IdleFacts
    <3>4. CASE BackfillFold
      <4>1. /\ backfiller.pc = "fold" /\ rollup' = rollup \cup backfiller.logs
        BY <3>4 DEF BackfillFold, Fold
      <4>2. /\ backfiller'.pc = "advance" /\ backfiller'.asset = backfiller.asset
            /\ backfiller'.next = backfiller.next /\ backfiller'.from = backfiller.from
        BY <3>4, FoldDoes
      <4>3. a = backfiller.asset /\ Emits(a, b) /\ RowAt(a, b)' = RowAt(a, b)
        BY <1>4, <3>0, <4>2 DEF Emits, RowAt
      <4> QED BY <1>1, <4>1, <4>2, <4>3 DEF WalkedInv, Ending
    <3>5. CASE BackfillAdvance
      <4>1. CASE backfiller' = IdleBackfiller
        BY <3>1, <4>1, IdleFacts
      <4>2. CASE backfiller'.pc = "done" /\ backfiller'.asset = backfiller.asset
                 /\ backfiller'.floor = backfiller.floor /\ backfiller.from <= backfiller.floor
        <5>1. a = backfiller.asset /\ Emits(a, b) /\ RowAt(a, b)' = RowAt(a, b)
          BY <1>4, <3>0, <4>2 DEF Emits, RowAt
        <5>2. cursors'[backfiller.asset].anchor = cursors[backfiller.asset].anchor
          BY <1>1, <2>2, BackfillingCursors
        <5>3. backfiller.pc = "advance"
          BY <3>5 DEF BackfillAdvance
        <5>4. backfiller.floor <= b => backfiller.from <= b
          BY <1>1, <4>2
        <5> QED BY <1>1, <4>2, <5>1, <5>2, <5>3, <5>4, WindowWalked DEF Ending
      <4> QED BY <3>5, <4>1, <4>2, AdvanceDoes
    <3>6. CASE AbortBackfill
      BY <3>1, <3>6, IdleFacts DEF AbortBackfill
    <3> QED BY <2>2, <3>2, <3>3, <3>4, <3>5, <3>6, <3>7, <3>8, <3>9, <3>10, BackfillCases
  <2>3. backfiller' = backfiller \/ Backfilling
    BY StepCases, NodeFrame, AssetFrame, FollowingFrame DEF vars
  <2> QED BY <2>1, <2>2, <2>3
<1>5. ASSUME NEW b \in Nat, (Emits(backfiller.asset, b))'
      PROVE  (/\ backfiller.pc = "fold" /\ backfiller.from <= b /\ b <= backfiller.next
                   => RowAt(backfiller.asset, b) \in backfiller.logs
              /\ backfiller.pc = "advance" /\ backfiller.from <= b /\ b <= backfiller.next
                   => RowAt(backfiller.asset, b) \in rollup
              /\ backfiller.pc \in Ending /\ backfiller.floor <= b /\ b < cursors[backfiller.asset].anchor
                   => RowAt(backfiller.asset, b) \in rollup)'
  <2>1. PICK a : a = backfiller'.asset
    OBVIOUS
  <2>2. a \in Assets
    BY <1>1, <2>1 DEF TypeOK, Backfiller
  <2>3. Emits(a, b)'
    BY <1>5, <2>1 DEF Emits
  <2>4. RowAt(a, b)' = (RowAt(backfiller.asset, b))'
    BY <2>1 DEF RowAt
  <2> QED BY <1>4, <2>1, <2>2, <2>3, <2>4
<1> QED BY <1>3, <1>5 DEF WalkedInv

-----------------------------------------------------------------------------
(* Nothing is folded twice.                                                *)

LEMMA LenGrows == ASSUME TypeOK, [Next]_vars, Quiet("shrunk")' PROVE Len(chain) <= Len(chain')
<1>0. Len(chain) \in Nat
  BY Numbers
<1>1. CASE chain' = chain
  BY <1>0, <1>1
<1>2. ASSUME NEW h \in MinedHashes, Mine(h) PROVE Len(chain) <= Len(chain')
  BY <1>0, <1>2, MineDoes
<1>3. ASSUME NEW k \in DOMAIN chain, NEW fork \in Forks(k), Reorg(k, fork) PROVE Len(chain) <= Len(chain')
  BY <1>0, <1>3, ReorgDoes DEF Quiet
<1> QED BY <1>1, <1>2, <1>3, StepCases, AssetFrame, FollowingFrame, BackfillingFrame DEF NodeNext, Prune, vars

LEMMA HeadStep ==
  ASSUME TypeOK, [Next]_vars, follower'.pc # "idle"
  PROVE  \/ follower'.head = follower.head /\ follower.pc # "idle"
         \/ follower'.head = Len(chain) /\ follower.pc = "idle"
<1>1. CASE follower' = follower
  BY <1>1
<1>2. CASE Following
  BY <1>2, FollowingHead, IdleFacts
<1> QED BY <1>1, <1>2, StepCases, NodeFrame, AssetFrame, BackfillingFrame DEF vars

\* A tick starts its early phases with the head; it ends by promoting, or in an abort.
Early == follower.pc \in {"idle", "reorg", "drop", "rewind", "cursors"}

LEMMA EarlyStep ==
  ASSUME TypeOK, [Next]_vars, Quiet("aborts")', Early'
  PROVE  (Early /\ pending' \subseteq pending) \/ PromoteTick
<1>1. CASE follower' = follower
  <2>1. ~InsertPending
    <3>1. ASSUME InsertPending PROVE FALSE
      BY <1>1, <3>1, InsertDoes DEF InsertPending
    <3> QED BY <3>1
  <2> QED BY <1>1, <2>1, PendingGrows DEF Early
<1>2. CASE Following
  <2>1. ~InsertPending
    <3>1. InsertPending => follower'.pc = "chunk"
      BY InsertDoes
    <3> QED BY <3>1 DEF Early
  <2>2. pending' \subseteq pending
    BY <2>1, PendingGrows
  <2>3. ASSUME NEW H \in BufferedHashes, FollowHead(H) PROVE Early
    BY <2>3 DEF FollowHead, Early
  <2>4. ASSUME NEW lost \in BOOLEAN, CheckHeader(lost) PROVE Early
    <3>1. follower.pc = "reorg"
      BY <2>4 DEF CheckHeader
    <3> QED BY <3>1 DEF Early
  <2>5. CASE ReorgChecked \/ DropPendingFrom \/ RewindTail \/ ListCursors
    BY <2>2, <2>5 DEF ReorgChecked, DropPendingFrom, RewindTail, ListCursors, Early
  <2>6. CASE PromoteChunk
    BY <2>2, <2>6, PromoteChunkDoes DEF Early
  <2>7. ASSUME NEW to \in follower.from .. follower.head, SweepRead(to) PROVE FALSE
    BY <2>7, SweepReadDoes DEF Early
  <2>8. ASSUME NEW a \in follower.todo, AdvanceTail(a) PROVE FALSE
    BY <2>8, AdvanceTailDoes DEF Early
  <2>9. CASE AbortFollow
    BY <2>2, <2>9, AbortSeen DEF Early, Quiet
  <2> QED BY <1>2, <2>1, <2>2, <2>3, <2>4, <2>5, <2>6, <2>7, <2>8, <2>9 DEF Following, FollowStep
<1> QED BY <1>1, <1>2, StepCases, NodeFrame, AssetFrame, BackfillingFrame DEF vars

\* A rewind starts at the height of a buffered row.
LEMMA AtStep ==
  ASSUME TypeOK, TickInv, [Next]_vars, follower'.pc \in {"drop", "rewind"}
  PROVE  \/ follower.pc \in {"drop", "rewind"} /\ follower'.at = follower.at
         \/ follower.pc = "reorg" /\ \E r \in pending : follower'.at = r.block
<1>1. CASE follower' = follower
  BY <1>1
<1>2. CASE Following
  <2>1. ASSUME NEW lost \in BOOLEAN, CheckHeader(lost)
        PROVE  follower.pc = "reorg" /\ \E r \in pending : follower'.at = r.block
    <3>1. PICK b \in Nat : (\E p \in follower.hashes : p[1] = b) /\ follower'.at = b
      BY <2>1, CheckHeaderDoes
    <3>2. PICK p \in follower.hashes : p[1] = b
      BY <3>1
    <3>3. PICK r \in pending : p = <<r.block, r.hash>>
      BY <3>2 DEF TickInv
    <3>4. follower'.at = r.block
      BY <3>1, <3>2, <3>3
    <3> QED BY <2>1, <3>4 DEF CheckHeader
  <2>2. CASE DropPendingFrom
    BY <2>2, DropDoes DEF DropPendingFrom
  <2> QED BY <1>2, <2>1, <2>2, FollowHeadDoes, ReorgCheckedDoes, RewindDoes, ListCursorsDoes, SweepReadDoes,
       InsertDoes, PromoteChunkDoes, AdvanceTailDoes, IdleFacts DEF Following, FollowStep, PromoteTick, AbortFollow
<1> QED BY <1>1, <1>2, StepCases, NodeFrame, AssetFrame, BackfillingFrame DEF vars

\* The closing promotion leaves nothing the head has confirmed.
LEMMA PromoteTickLeaves ==
  ASSUME TypeOK, PromoteTick, NEW b \in Nat, b + Confirmations <= follower.head, NEW r \in pending',
         r.block \in Nat, r.block >= 1
  PROVE  b < r.block
<1>1. r.block > ConfirmedTo
  BY DEF PromoteTick, PromotePending
<1> QED BY <1>1, Numbers DEF ConfirmedTo

LEMMA BehindStep ==
  ASSUME TypeOK, NodeInv, RowsInv, TickInv, ReachInv, WalkInv, BehindInv, [Next]_vars
  PROVE  BehindInv'
<1> SUFFICES ASSUME Orderly', NEW s \in rollup', Above(s)'
             PROVE  /\ Reached(s.asset, s.block)' /\ s \notin pending'
                    /\ s.block + Confirmations <= Len(chain')
                    /\ follower'.pc # "idle" => s.block + Confirmations <= follower'.head
                    /\ Early' => \A r \in pending' : s.block < r.block
                    /\ follower'.pc \in {"drop", "rewind"} => s.block < follower'.at
  BY DEF BehindInv, Early
<1>1. Orderly /\ Quiet("aborts") /\ Quiet("resyncs") /\ Quiet("shrunk")
      /\ Quiet("aborts")' /\ Quiet("resyncs")' /\ Quiet("shrunk")'
  BY ExcusesStay DEF Orderly
<1>2. \A r \in AllRows : r.asset \in Assets /\ r.block \in Nat /\ r.block >= 1 /\ status[r.asset] # "none"
  BY RowFields DEF RowsInv
<1>3. Len(chain) <= Len(chain') /\ Len(chain) \in Nat /\ Len(chain') \in Nat /\ Confirmations \in Nat
      /\ follower.head \in Nat /\ follower.head <= Len(chain)
  BY <1>1, LenGrows, TypeStep, Numbers DEF NodeInv, TypeOK
<1>4. CASE s \in rollup
  <2>0. s.asset \in Assets /\ s.block \in Nat /\ s.block >= 1 /\ status[s.asset] # "none"
    BY <1>2, <1>4 DEF AllRows
  <2>1. Above(s)
    BY <1>1, <2>0, AnchorStays DEF Above
  <2>2. /\ Reached(s.asset, s.block) /\ s \notin pending
        /\ s.block + Confirmations <= Len(chain)
        /\ follower.pc # "idle" => s.block + Confirmations <= follower.head
        /\ Early => \A r \in pending : s.block < r.block
        /\ follower.pc \in {"drop", "rewind"} => s.block < follower.at
    BY <1>1, <1>4, <2>1 DEF BehindInv, Early
  <2>3. Reached(s.asset, s.block)'
    <3>1. RewindTail => s.block < follower.at
      BY <2>2 DEF RewindTail
    <3> QED BY <1>1, <2>0, <2>2, <3>1, ReachedStays
  <2>4. s \notin pending'
    <3>1. ASSUME s \in pending' PROVE FALSE
      <4>1. s \in follower.logs
        BY <2>2, <3>1, PendingGrows
      <4>2. s.block < s.block
        BY <1>1, <2>0, <2>2, <4>1, LogsAboveReached
      <4> QED BY <2>0, <4>2
    <3> QED BY <3>1
  <2>5. s.block + Confirmations <= Len(chain')
    BY <1>3, <2>0, <2>2
  <2>6. follower'.pc # "idle" => s.block + Confirmations <= follower'.head
    BY <2>2, HeadStep
  <2>7. ASSUME Early', NEW r \in pending' PROVE s.block < r.block
    <3>1. CASE Early /\ pending' \subseteq pending
      BY <2>2, <3>1
    <3>2. CASE PromoteTick
      <4>1. r \in pending /\ s.block + Confirmations <= follower.head
        BY <2>2, <3>2, PromoteTakes DEF PromoteTick
      <4>2. r.block \in Nat /\ r.block >= 1
        BY <1>2, <4>1 DEF AllRows
      <4> QED BY <2>0, <3>2, <4>1, <4>2, PromoteTickLeaves
    <3> QED BY <1>1, <2>7, <3>1, <3>2, EarlyStep
  <2>8. follower'.pc \in {"drop", "rewind"} => s.block < follower'.at
    BY <2>2, AtStep DEF Early
  <2> QED BY <2>3, <2>4, <2>5, <2>6, <2>7, <2>8
<1>5. CASE s \notin rollup /\ (PromoteChunk \/ PromoteTick)
  <2>1. /\ s \in pending /\ s.block + Confirmations <= follower.head /\ follower.pc \in {"chunk", "promote"}
        /\ \A r \in pending' : s.block < r.block
    BY <1>5, PromoteTakes
  <2>2. s.asset \in Assets /\ s.block \in Nat /\ s.block >= 1 /\ status[s.asset] # "none"
    BY <1>2, <2>1 DEF AllRows
  <2>3. Reached(s.asset, s.block)'
    <3>1. Reached(s.asset, s.block) /\ ~RewindTail
      BY <1>1, <2>1 DEF ReachInv, RewindTail
    <3> QED BY <1>1, <2>2, <3>1, ReachedStays
  <2>4. s \notin pending'
    <3>1. s \in pending' => s.block < s.block
      BY <2>1
    <3> QED BY <2>2, <3>1
  <2>5. s.block + Confirmations <= Len(chain')
    BY <1>3, <2>1, <2>2
  <2>6. follower'.pc # "idle" => s.block + Confirmations <= follower'.head
    BY <2>1, HeadStep
  <2>7. follower'.pc \notin {"drop", "rewind"}
    BY <2>1, AtStep
  <2> QED BY <2>1, <2>3, <2>4, <2>5, <2>6, <2>7
<1>6. CASE BackfillFold /\ s \in backfiller.logs
  <2>1. cursors' = cursors
    BY <1>6 DEF BackfillFold
  <2> QED BY <1>1, <1>6, <2>1, BackfillBelow DEF Above
<1> QED BY <1>4, <1>5, <1>6, RollupGrows

LEMMA ApartStep ==
  ASSUME TypeOK, NodeInv, RowsInv, TickInv, WalkInv, ApartInv, TickInv', [Next]_vars
  PROVE  ApartInv'
<1> SUFFICES ASSUME Orderly', (Reorgs = 0)', Quiet("lost")' PROVE ApartInv'
  BY DEF ApartInv
<1>1. /\ Orderly /\ Reorgs = 0 /\ Quiet("lost") /\ Quiet("resyncs") /\ Quiet("resyncs")'
      /\ Seen("aborts")' = 0 /\ Seen("lost")' = 0 /\ Seen("resyncs")' = 0
  BY ExcusesStay DEF Orderly, Quiet
<1>2. \A r \in AllRows : r.asset \in Assets /\ r.block \in Nat /\ r.block >= 1 /\ status[r.asset] # "none"
  BY RowFields DEF RowsInv
<1>3. follower.pc \notin {"drop", "rewind"}
  BY <1>1 DEF ApartInv
<1>4. TypeOK' /\ \A a \in Assets : cursors'[a].anchor \in Nat /\ cursors'[a].tail \in Nat
  BY TypeStep DEF TypeOK, Cursor, Height
<1>5. follower'.pc \notin {"drop", "rewind"}
  <2>1. CASE follower' = follower
    BY <1>3, <2>1
  <2>2. CASE Following
    <3>1. ASSUME NEW lost \in BOOLEAN, CheckHeader(lost) PROVE follower'.pc = "reorg"
      <4>1. lost = FALSE
        <5>1. lost => Disturb("lost")
          BY <3>1 DEF CheckHeader
        <5>2. ~Disturb("lost")
          BY <1>1, Disturbs DEF Disturbance
        <5> QED BY <5>1, <5>2
      <4>2. PICK b \in Nat :
              /\ \E p \in follower.hashes : p[1] = b
              /\ \/ follower'.pc = "reorg"
                 \/ lost \/ ~(b <= Len(chain) /\ <<b, chain[b]>> \in follower.hashes)
        BY <3>1, CheckHeaderDoes
      <4>3. PICK p \in follower.hashes : p[1] = b
        BY <4>2
      <4>4. PICK r \in pending : p = <<r.block, r.hash>>
        BY <4>3 DEF TickInv
      <4>5. Canonical(r)
        BY <1>1, <4>4 DEF RowsInv, AllRows
      <4>6. r.block = b /\ r.hash = chain[b] /\ b <= Len(chain)
        BY <4>3, <4>4, <4>5, Numbers DEF Canonical
      <4>7. <<b, chain[b]>> \in follower.hashes
        BY <4>3, <4>4, <4>6
      <4> QED BY <4>1, <4>2, <4>6, <4>7
    <3>2. ~DropPendingFrom
      BY <1>3 DEF DropPendingFrom
    <3> QED BY <2>2, <3>1, <3>2, FollowHeadDoes, ReorgCheckedDoes, RewindDoes, ListCursorsDoes, SweepReadDoes,
         InsertDoes, PromoteChunkDoes, AdvanceTailDoes, IdleFacts DEF Following, FollowStep, PromoteTick, AbortFollow
  <2> QED BY <2>1, <2>2, StepCases, NodeFrame, AssetFrame, BackfillingFrame DEF vars
<1>6. ASSUME NEW a \in Assets PROVE cursors'[a].anchor <= cursors'[a].tail
  <2>0. cursors[a].anchor <= cursors[a].tail /\ cursors[a].anchor \in Nat /\ cursors[a].tail \in Nat
    BY <1>1, CursorFields DEF ApartInv
  <2>1. CASE cursors'[a].anchor = cursors[a].anchor /\ cursors'[a].tail = cursors[a].tail
    BY <2>0, <2>1
  <2>2. CASE AssetNext
    <3>1. CASE cursors' = cursors
      BY <2>1, <3>1
    <3>2. ASSUME NEW c \in Assets, NEW n \in 1 .. Len(chain),
                 cursors'[c].anchor = n, cursors'[c].tail = n,
                 \A d \in Assets : d # c => cursors'[d] = cursors[d]
          PROVE  cursors'[a].anchor <= cursors'[a].tail
      BY <1>4, <2>0, <3>2
    <3> QED BY <2>2, <3>1, <3>2, AssetCursors
  <2>3. CASE Following
    <3>1. ~RewindTail
      BY <1>3 DEF RewindTail
    <3>2. CASE cursors' = cursors
      BY <2>1, <3>2
    <3>3. ASSUME NEW c \in follower.todo, AdvanceTail(c) PROVE cursors'[a].anchor <= cursors'[a].tail
      <4>1. /\ cursors'[a].anchor = cursors[a].anchor
            /\ a # c => cursors'[a] = cursors[a]
            /\ cursors'[c].tail = IF cursors[c].tail >= follower.head THEN cursors[c].tail ELSE follower.head
        BY <3>3, AdvanceTailDoes
      <4>2. follower.head \in Nat
        BY FollowerFields
      <4>3. CASE a # c
        BY <2>1, <4>1, <4>3
      <4>4. CASE a = c
        BY <2>0, <4>1, <4>2, <4>4
      <4> QED BY <4>3, <4>4
    <3> QED BY <2>3, <3>1, <3>2, <3>3 DEF Following, FollowStep, FollowHead, CheckHeader, ReorgChecked,
        DropPendingFrom, ListCursors, SweepRead, InsertPending, PromoteChunk, PromoteTick, AbortFollow, tableVars
  <2> QED BY <2>1, <2>2, <2>3, StepCases, NodeFrame, BackfillingCursors DEF vars
<1>7. ASSUME NEW r \in pending' \cup follower'.logs PROVE Above(r)'
  <2>1. CASE r \in pending \cup follower.logs
    <3>1. Above(r)
      BY <1>1, <2>1 DEF ApartInv
    <3> QED BY <1>1, <1>2, <2>1, <3>1, AnchorStays DEF Above, AllRows
  <2>2. CASE r \in follower'.logs
    <3>1. /\ follower'.pc = "insert" /\ r.asset \in follower'.todo /\ follower'.tails[r.asset] < r.block
      BY <2>2 DEF TickInv
    <3>2. follower'.tails[r.asset] = cursors'[r.asset].tail
      BY <1>1, <3>1 DEF TickInv, Sweeping
    <3>3. r \in Row /\ r.asset \in Assets /\ r.block \in Nat
      BY <1>4, <2>2 DEF TypeOK, Follower, Row, Height
    <3>4. cursors'[r.asset].anchor < r.block
      BY <1>4, <1>6, <3>1, <3>2, <3>3
    <3>5. r.block > cursors'[r.asset].anchor
      BY <1>4, <3>3, <3>4
    <3> QED BY <3>5 DEF Above
  <2> QED BY <2>1, <2>2, PendingGrows
<1>8. ASSUME NEW r \in rollup', ~Above(r)'
      PROVE  \/ cursors'[r.asset].next < r.block
             \/ backfiller'.pc = "advance" /\ r.asset = backfiller'.asset /\ backfiller'.from <= r.block
  <2>1. CASE r \in rollup
    <3>0. r.asset \in Assets /\ r.block \in Nat /\ r.block >= 1 /\ status[r.asset] # "none"
          /\ cursors[r.asset].next \in Nat
      BY <1>2, <2>1, CursorFields DEF AllRows
    <3>1. ~Above(r)
      BY <1>1, <1>8, <3>0, AnchorStays DEF Above
    <3>2. \/ cursors[r.asset].next < r.block
          \/ backfiller.pc = "advance" /\ r.asset = backfiller.asset /\ backfiller.from <= r.block
      BY <1>1, <2>1, <3>1 DEF ApartInv
    <3>3. CASE ~Backfilling
      BY <1>1, <3>0, <3>2, <3>3, WalkFrame
    <3>4. CASE cursors'[r.asset].next = cursors[r.asset].next /\ backfiller.pc # "advance"
      BY <3>2, <3>4
    <3>5. CASE BackfillAsset \/ BackfillFloor \/ FinishFloor
      <4>1. cursors'[r.asset].next = cursors[r.asset].next /\ backfiller.pc # "advance"
        BY <3>0, <3>5, AssetDoes, FloorDoes
      <4> QED BY <3>4, <4>1
    <3>6. CASE BackfillAdvance
      <4>1. backfiller.pc = "advance" /\ backfiller.from \in Nat /\ backfiller.asset \in Assets
        BY <3>6, BackfillerFields DEF BackfillAdvance
      <4>2. backfiller.from <= cursors[backfiller.asset].next
        BY <1>1, <4>1 DEF WalkInv, Walking
      <4>3. CASE r.asset = backfiller.asset
        <5>1. backfiller.from <= r.block
          BY <3>0, <3>2, <4>1, <4>2, <4>3
        <5>2. cursors'[r.asset].next = IF backfiller.from > 0 THEN backfiller.from - 1 ELSE 0
          BY <3>6, <4>3, AdvanceDoes
        <5> QED BY <3>0, <4>1, <5>1, <5>2
      <4>4. CASE r.asset # backfiller.asset
        BY <3>0, <3>2, <3>6, <4>4, AdvanceDoes
      <4> QED BY <4>3, <4>4
    <3>7. CASE FinishDone
      <4>1. backfiller.pc = "done" /\ cursors[r.asset].next < r.block
        BY <3>2, <3>7, DoneDoes
      <4>2. cursors'[r.asset].next = 0 \/ cursors'[r.asset] = cursors[r.asset]
        BY <3>0, <3>7, DoneDoes
      <4> QED BY <3>0, <4>1, <4>2
    <3>8. CASE AbortBackfill
      <4>1. backfiller.pc # "advance"
        <5>1. ~Disturb("aborts")
          BY <1>1, Disturbs DEF Disturbance
        <5>2. ~FloorBehind(backfiller.asset) => Disturb("aborts")
          BY <3>8 DEF AbortBackfill
        <5> QED BY <5>1, <5>2 DEF FloorBehind
      <4> QED BY <3>4, <3>8, <4>1 DEF AbortBackfill, tableVars
    <3>9. ASSUME NEW flag \in BOOLEAN, BackfillLogs(flag) \/ BackfillReprobe(flag)
          PROVE  cursors'[r.asset].next = cursors[r.asset].next /\ backfiller.pc # "advance"
      BY <3>9, BackfillLogsDoes, ReprobeDoes
    <3>10. CASE BackfillScanning \/ FinishLive
      BY <3>4, <3>10, StatusDoes
    <3>11. ASSUME NEW a \in Assets, NEW probed \in BOOLEAN, BackfillPick(a, probed)
           PROVE  cursors'[r.asset].next = cursors[r.asset].next /\ backfiller.pc # "advance"
      BY <3>11 DEF BackfillPick
    <3>12. CASE BackfillFold
      BY <3>4, <3>12 DEF BackfillFold
    <3> QED BY <3>3, <3>4, <3>5, <3>6, <3>7, <3>8, <3>9, <3>10, <3>11, <3>12, BackfillCases
  <2>2. CASE r \notin rollup /\ (PromoteChunk \/ PromoteTick)
    <3>1. r \in pending
      BY <2>2, PromoteTakes
    <3>2. Above(r)
      BY <1>1, <3>1 DEF ApartInv
    <3> QED BY <1>1, <1>2, <1>8, <3>1, <3>2, AnchorStays DEF Above, AllRows
  <2>3. CASE BackfillFold /\ r \in backfiller.logs
    BY <1>1, <2>3, BackfillBelow, FoldDoes
  <2> QED BY <2>1, <2>2, <2>3, RollupGrows
<1> QED BY <1>5, <1>6, <1>7, <1>8 DEF ApartInv

LEMMA CountedStep ==
  ASSUME TypeOK, RowsInv, WalkInv, BehindInv, ApartInv, CountedInv, [Next]_vars
  PROVE  CountedInv'
<1> SUFFICES ASSUME Orderly', NEW r \in recounted' PROVE ~Above(r)' /\ ~(Reorgs = 0 /\ Quiet("lost"))'
  BY DEF CountedInv
<1>1. Orderly /\ Quiet("resyncs") /\ Quiet("resyncs")'
  BY ExcusesStay DEF Orderly
<1>2. (Reorgs = 0 /\ Quiet("lost"))' => Reorgs = 0 /\ Quiet("lost")
  BY ExcusesStay
<1>3. \A s \in AllRows : s.asset \in Assets /\ status[s.asset] # "none" /\ s.block \in Nat
  BY RowFields DEF RowsInv
<1>4. recounted \subseteq rollup
  BY DEF TypeOK
<1>5. ASSUME r \in AllRows, ~Above(r) PROVE ~Above(r)'
  BY <1>1, <1>3, <1>5, AnchorStays DEF Above
<1>6. CASE r \in recounted
  BY <1>1, <1>2, <1>4, <1>5, <1>6 DEF CountedInv, AllRows
<1>7. CASE r \notin recounted /\ (PromoteChunk \/ PromoteTick)
  <2>1. r \in rollup /\ r \in pending
    BY <1>7, PromoteTakes
  <2>2. ~Above(r)
    BY <1>1, <2>1 DEF BehindInv
  <2>3. ~(Reorgs = 0 /\ Quiet("lost"))
    BY <1>1, <2>1, <2>2 DEF ApartInv
  <2> QED BY <1>2, <1>5, <2>1, <2>2, <2>3 DEF AllRows
<1>8. CASE r \notin recounted /\ BackfillFold
  <2>1. r \in rollup /\ r \in backfiller.logs
    BY <1>8 DEF BackfillFold, Fold
  <2>2. ~Above(r) /\ backfiller.pc = "fold" /\ r.block <= cursors[r.asset].next
    BY <1>1, <2>1, BackfillBelow
  <2>3. ~(cursors[r.asset].next < r.block)
    BY <1>3, <2>1, <2>2, CursorFields DEF AllRows
  <2>4. ~(Reorgs = 0 /\ Quiet("lost"))
    BY <1>1, <2>1, <2>2, <2>3 DEF ApartInv
  <2> QED BY <1>2, <1>5, <2>1, <2>2, <2>4 DEF AllRows
<1>9. CASE recounted' = recounted
  BY <1>6, <1>9
<1>10. CASE Following
  BY <1>6, <1>7, <1>9, <1>10 DEF Following, FollowStep, FollowHead, CheckHeader, ReorgChecked, DropPendingFrom,
     RewindTail, ListCursors, SweepRead, InsertPending, AdvanceTail, AbortFollow, tableVars
<1>11. CASE Backfilling
  BY <1>6, <1>8, <1>9, <1>11, BackfillRollup
<1> QED BY <1>9, <1>10, <1>11, StepCases, NodeFrame, AssetFrame DEF vars

-----------------------------------------------------------------------------
(* The inductive invariant and what follows from it.                       *)

IndexerInv ==
  /\ TypeOK /\ NodeInv /\ RowsInv /\ TickInv /\ ReachInv /\ UniqueInv /\ SettledInv
  /\ WalkInv /\ RowedInv /\ WalkedInv /\ BehindInv /\ ApartInv /\ CountedInv

LEMMA IndexerInit == Init => IndexerInv
<1> SUFFICES ASSUME Init PROVE IndexerInv
  OBVIOUS
<1>1. chain \in Seq(Hashes) /\ Len(chain) = InitHead /\ InitHead \in Nat /\ InitHead >= 1 /\ Confirmations \in Nat
  BY IndexerAssumption DEF Init
<1>2. final = IF 0 >= InitHead - Confirmations THEN 0 ELSE InitHead - Confirmations
  <2>1. 0 \in Int /\ InitHead - Confirmations \in Int
    BY <1>1
  <2>2. final = Max({0, InitHead - Confirmations})
    BY DEF Init
  <2> QED BY <2>1, <2>2, MaxOfTwo
<1>3. final \in Nat /\ final <= Len(chain) /\ Len(chain) <= final + Confirmations
  BY <1>1, <1>2
<1>4. /\ follower \in Follower /\ follower.pc = "idle" /\ follower.logs = {} /\ follower.todo = {}
      /\ follower.hashes = {} /\ follower.head = 0
      /\ backfiller \in Backfiller /\ backfiller.pc = "idle" /\ backfiller.logs = {}
  BY IdleFacts DEF Init
<1>5. /\ pending = {} /\ rollup = {} /\ recounted = {} /\ historyFloor = -1 /\ horizon = 0 /\ resyncing = {}
      /\ \A a \in Assets : status[a] = "none"
      /\ \A a \in Assets : cursors[a].anchor = 0 /\ cursors[a].tail = 0
  BY DEF Init
<1>6. trouble \in [assets : SUBSET Assets, allowed : [Disturbance -> Nat], seen : [Disturbance -> Nat]]
  BY IndexerAssumption DEF Init
<1>7. TypeOK
  <2>1. status \in [Assets -> Status] /\ cursors \in [Assets -> Cursor]
    BY DEF Init, Status, Cursor, Height
  <2> QED BY <1>1, <1>3, <1>4, <1>5, <1>6, <2>1 DEF TypeOK
<1>8. NodeInv
  BY <1>1, <1>3, <1>4, <1>5 DEF NodeInv
<1>9. RowsInv /\ TickInv /\ ReachInv /\ UniqueInv /\ SettledInv /\ BehindInv /\ CountedInv
  <2>1. AllRows = {}
    BY <1>4, <1>5 DEF AllRows
  <2> QED BY <1>4, <1>5, <2>1 DEF RowsInv, TickInv, ReachInv, UniqueInv, SettledInv, BehindInv, CountedInv, Sweeping
<1>10. WalkInv /\ RowedInv /\ WalkedInv /\ ApartInv
  BY <1>4, <1>5 DEF WalkInv, RowedInv, WalkedInv, ApartInv, Walking, Ending
<1> QED BY <1>7, <1>8, <1>9, <1>10 DEF IndexerInv

LEMMA IndexerNext == IndexerInv /\ [Next]_vars => IndexerInv'
<1> SUFFICES ASSUME IndexerInv, [Next]_vars PROVE IndexerInv'
  OBVIOUS
<1> USE DEF IndexerInv
<1>1. TypeOK' /\ NodeInv' /\ RowsInv'
  BY TypeStep, NodeStep, RowsStep
<1>2. TickInv' /\ ReachInv' /\ UniqueInv'
  BY TickStep, ReachStep, UniqueStep
<1>3. SettledInv' /\ WalkInv' /\ RowedInv'
  BY SettledStep, WalkStep, RowedStep
<1>4. WalkedInv' /\ BehindInv'
  BY WalkedStep, BehindStep
<1>5. ApartInv' /\ CountedInv'
  BY <1>2, ApartStep, CountedStep
<1> QED BY <1>1, <1>2, <1>3, <1>4, <1>5

LEMMA IndexerAlways == FairSpec => []IndexerInv
BY IndexerInit, IndexerNext, PTL DEF FairSpec, Spec

\* A canonical row is the one the node would return.
LEMMA CanonicalIs ==
  ASSUME TypeOK, NEW r \in pending \cup rollup
  PROVE  Canonical(r) <=> r.block \in 1 .. Len(chain) /\ r = RowAt(r.asset, r.block)
<1>1. r \in Row
  BY DEF TypeOK
<1>2. r = RowAt(r.asset, r.block) <=> r.hash = chain[r.block]
  BY <1>1 DEF Row, RowAt
<1> QED BY <1>2 DEF Canonical

LEMMA AtLeastOnceFollows == IndexerInv => AtLeastOnce
<1> SUFFICES ASSUME IndexerInv, Reorgs = 0, Seen("resyncs") = 0, Seen("torn") = 0, Seen("unfloored") = 0,
                    NEW a \in Listed, NEW b \in Walked(a) \ {cursors[a].anchor}, b <= final, Emits(a, b)
             PROVE  Recorded(a, b)
  BY DEF AtLeastOnce, Unbroken
<1>1. TypeOK /\ RowsInv /\ RowedInv /\ WalkedInv
  BY DEF IndexerInv
<1>2. a \in Assets /\ status[a] # "none" /\ Quiet("resyncs") /\ Quiet("unfloored")
  BY DEF Listed, Quiet
<1>3. Noticed
  <2>1. Seen("shrunk") \in Nat /\ Seen("blind") \in Nat /\ Seen("reorgs") \in Nat
    BY <1>1 DEF TypeOK, Seen, Disturbance
  <2> QED BY <2>1 DEF Noticed, Reorgs
<1>4. /\ cursors[a].anchor \in Nat /\ cursors[a].next \in Nat /\ cursors[a].floor \in Nat
      /\ cursors[a].tail \in Nat /\ cursors[a].done \in BOOLEAN
  BY <1>1, <1>2, CursorFields
<1>5. /\ b \in Nat /\ b # cursors[a].anchor /\ b <= cursors[a].tail
      /\ IF cursors[a].done THEN cursors[a].floor <= b ELSE cursors[a].next < b
      /\ FloorBehind(a) => backfiller.floor <= b
  <2>1. b \in Covered(a) /\ b # cursors[a].anchor /\ (FloorBehind(a) => b >= backfiller.floor)
    BY DEF Walked
  <2>2. b \in Nat /\ b <= cursors[a].tail
        /\ IF cursors[a].done THEN cursors[a].floor <= b ELSE cursors[a].next < b
    BY <1>4, <2>1 DEF Covered
  <2>3. backfiller.floor \in Nat
    BY <1>1, BackfillerFields
  <2> QED BY <2>1, <2>2, <2>3
<1>6. CASE b < cursors[a].anchor
  <2>1. \A x \in Assets, y \in Nat :
          /\ status[x] # "none" /\ Emits(x, y) /\ y < cursors[x].anchor
          /\ IF cursors[x].done THEN cursors[x].floor <= y ELSE cursors[x].next < y
          /\ FloorBehind(x) => backfiller.floor <= y
          => RowAt(x, y) \in rollup
    BY <1>1, <1>2 DEF WalkedInv
  <2>2. RowAt(a, b) \in rollup
    BY <1>2, <1>5, <1>6, <2>1
  <2> QED BY <2>2 DEF Recorded
<1>7. CASE cursors[a].anchor < b
  <2>1. HasRow(a, b) \/ (follower.pc = "rewind" /\ follower.at <= b)
    BY <1>1, <1>2, <1>3, <1>5, <1>7 DEF RowedInv
  <2>2. CASE HasRow(a, b)
    <3>1. PICK r \in pending \cup rollup : r.asset = a /\ r.block = b
      BY <2>2 DEF HasRow
    <3>2. Canonical(r)
      BY <1>1, <3>1 DEF RowsInv, AllRows
    <3>3. r = RowAt(a, b)
      BY <1>1, <3>1, <3>2, CanonicalIs
    <3> QED BY <3>1, <3>3 DEF Recorded
  <2> QED BY <2>1, <2>2 DEF Recorded
<1> QED BY <1>4, <1>5, <1>6, <1>7

LEMMA FollowerSoundFollows == IndexerInv => FollowerSound
<1> SUFFICES ASSUME IndexerInv PROVE FollowerSound
  OBVIOUS
<1>1. TypeOK /\ RowsInv /\ RowedInv /\ SettledInv
  BY DEF IndexerInv
<1>2. \A r \in AllRows : r.asset \in Assets /\ r.block \in Nat /\ r.block >= 1
  BY <1>1, RowFields DEF RowsInv
<1>3. ASSUME OneHash, NEW r \in rollup, r.block > cursors[r.asset].anchor
      PROVE  r.block <= final /\ r = RowAt(r.asset, r.block)
  <2>1. r.block <= final /\ Canonical(r)
    BY <1>1, <1>3 DEF SettledInv, Above
  <2> QED BY <1>1, <2>1, CanonicalIs
<1>4. ASSUME Noticed, OneHash, NEW a \in Listed, NEW b \in Missed(a) PROVE FALSE
  <2>1. a \in Assets /\ status[a] # "none" /\ Quiet("resyncs")
    BY <1>4 DEF Listed, OneHash, Quiet
  <2>2. cursors[a].anchor \in Nat /\ cursors[a].tail \in Nat /\ final \in Nat /\ Len(chain) \in Nat
    BY <1>1, <2>1, CursorFields, Numbers
  <2>3. b \in Nat /\ cursors[a].anchor < b /\ b <= cursors[a].tail /\ Emits(a, b) /\ ~Recorded(a, b)
    BY <2>2 DEF Missed
  <2>4. HasRow(a, b)
    BY <1>1, <1>4, <2>1, <2>3 DEF RowedInv, Recorded
  <2>5. PICK r \in pending \cup rollup : r.asset = a /\ r.block = b
    BY <2>4 DEF HasRow
  <2>6. r # RowAt(a, b)
    BY <2>3, <2>5 DEF Recorded
  <2>7. CASE r \in rollup
    BY <1>3, <1>4, <2>2, <2>3, <2>5, <2>6, <2>7
  <2>8. CASE r \in pending
    <3>1. r.block <= b /\ ~(r = RowAt(r.asset, r.block))
      BY <2>3, <2>5, <2>6
    <3> QED BY <2>3, <2>8, <3>1 DEF Recorded
  <2> QED BY <2>5, <2>7, <2>8
<1>5. FollowerComplete
  BY <1>4 DEF FollowerComplete
<1>6. FollowerFoldsFinal
  BY <1>3 DEF FollowerFoldsFinal
<1> QED BY <1>5, <1>6 DEF FollowerSound

LEMMA CountedOnceFollows == IndexerInv => CountedOnce
<1> SUFFICES ASSUME IndexerInv, Seen("aborts") = 0, Seen("resyncs") = 0, Seen("shrunk") = 0,
                    NEW r \in recounted
             PROVE  Reorgs + Seen("lost") > 0 /\ r.block <= cursors[r.asset].anchor
  BY DEF CountedOnce
<1>1. TypeOK /\ CountedInv /\ Orderly
  BY DEF IndexerInv, Orderly, Quiet
<1>2. ~Above(r) /\ ~(Reorgs = 0 /\ Seen("lost") = 0)
  BY <1>1 DEF CountedInv, Quiet
<1>3. Reorgs \in Nat /\ Seen("lost") \in Nat
  <2>1. Seen("shrunk") \in Nat /\ Seen("blind") \in Nat /\ Seen("reorgs") \in Nat /\ Seen("lost") \in Nat
    BY <1>1 DEF TypeOK, Seen, Disturbance
  <2> QED BY <2>1 DEF Reorgs
<1>4. r.block \in Nat /\ r.asset \in Assets /\ cursors[r.asset].anchor \in Nat
  <2>1. r \in AllRows
    BY <1>1 DEF AllRows, TypeOK
  <2> QED BY <1>1, <2>1, RowFields, CursorFields
<1> QED BY <1>2, <1>3, <1>4 DEF Above

\* Two tickers, separate transactions and failed calls never take a variable of the two
\* workers out of its type (followTick, backfillTick, the store's writes).
THEOREM IndexerTyped == FairSpec => []TypeOK
<1>1. IndexerInv => TypeOK
  BY DEF IndexerInv
<1> QED BY <1>1, IndexerAlways, PTL

\* Whatever the node pruned and wherever ticks died, but between the two statements of a
\* rewind or those that mark a walk done and store the floor it ended at, every final event
\* in the range a cursor vouches for is in the rollup or the buffer, as long as nothing was
\* reorganised and no cursor started over (followTick, backfillAsset, finishBackfill).
THEOREM EveryEventAtLeastOnce == FairSpec => []AtLeastOnce
BY AtLeastOnceFollows, IndexerAlways, PTL

\* The split at the anchor keeps the two workers apart: an event is added to event_count a
\* second time only at or below the anchor, after a reorg or a lost header
\* (FoldInteractions, PromotePending).
THEOREM NoneCountedTwice == FairSpec => []CountedOnce
BY CountedOnceFollows, IndexerAlways, PTL

\* However reorgs fall between the head, the hashes, the logs and the promotion of a tick,
\* the follower misses nothing it has scanned and folds only what no reorg can reach
\* (followTick, handleReorg, PromotePending).
THEOREM FollowerIsSound == FairSpec => []FollowerSound
BY FollowerSoundFollows, IndexerAlways, PTL
=============================================================================
