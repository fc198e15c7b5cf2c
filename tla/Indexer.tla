------------------------------ MODULE Indexer -------------------------------
(***************************************************************************)
(* One chain's workers, internal/indexer/service.go, over the tables of    *)
(* internal/store: the follower walks up from an asset's anchor and keeps  *)
(* unconfirmed events in a buffer, the backfiller walks down from it and   *)
(* writes to the rollup directly.  Every RPC answer and every database     *)
(* transaction is a step of its own; a failed call or a dead process       *)
(* abandons the tick between two of them.                                  *)
(*                                                                         *)
(* A block is its height and hash; the hash decides which assets emitted   *)
(* an event in it.  Accounts, roles and log indexes are left out: one row  *)
(* stands for what one asset emitted in one block.                         *)
(***************************************************************************)
EXTENDS Integers, Sequences, FiniteSets, FiniteSetsExt

CONSTANTS
  Assets,
  Hashes, MinedHashes, \* block hashes; those a new block may have, the others being forks'
  LogsOf,              \* the assets that emit in a block with a given hash
  HintFrom,            \* hint_from_block of each asset
  Confirmations, TailWindow, BackfillWindow,
  InitHead, AnchorLag, \* first head; how far an anchor may trail the head
  MaxShrink,           \* bound: how much shorter a fork is
  Scenarios            \* bounds: which assets are registered, which disturbances may
                       \* happen together and how often

Disturbance ==
  {"blocks",    \* blocks mined
   "revokes", "resyncs",   \* hints withdrawn; cursors started over by the mirror
   "reorgs", "shrunk", "blind",  \* reorgs; to a shorter fork; of a block without events
   "prunes",    \* blocks the node stops serving
   "lost",      \* header calls and probes that failed
   "aborts",    \* ticks that failed, or died with the process
   "torn",      \* ... between the two statements of a rewind
   "unfloored"} \* ... between those that mark a walk done and that raise its floor

ASSUME IndexerAssumption ==
  /\ Assets # {}
  /\ MinedHashes \subseteq Hashes
  /\ LogsOf \in [Hashes -> SUBSET Assets]
  /\ HintFrom \in [Assets -> Nat]
  /\ Confirmations \in Nat
  /\ TailWindow \in Nat \ {0} /\ BackfillWindow \in Nat \ {0}
  /\ InitHead \in Nat \ {0} /\ AnchorLag \in Nat
  /\ MaxShrink \in Nat
  /\ Scenarios \subseteq [assets : SUBSET Assets, allowed : [Disturbance -> Nat]]

VARIABLES
  chain,         \* the node's canonical hashes by height
  final,         \* height no reorg reaches any more: Confirmations below some head
  horizon,       \* oldest height the node still serves logs for
  status,        \* assets.status, "none" before registration
  cursors,       \* asset_cursors
  historyFloor,  \* chains.history_floor and its cached copy; -1 until probed
  pending,       \* pending_events
  rollup,        \* events folded into interactions
  recounted,     \* events added to event_count more than once
  follower,      \* the follow tick's local state
  backfiller,    \* the backfill tick's local state
  resyncing,     \* the asset whose row the mirror's sync has read as pending, if any
  trouble        \* the scenario, and how often each disturbance has happened

vars == <<chain, final, horizon, status, cursors, historyFloor, pending, rollup,
          recounted, follower, backfiller, resyncing, trouble>>
nodeVars  == <<chain, final, horizon, resyncing>>   \* what neither worker writes
tableVars == <<status, cursors, historyFloor, pending, rollup, recounted>>

Height == Nat
Row    == [block : Height, hash : Hashes, asset : Assets]
Cursor == [anchor : Height, next : Height, done : BOOLEAN, floor : Height, tail : Height]
Status == {"none", "pending", "scanning", "live", "revoked"}

Follower ==
  [pc : {"idle", "reorg", "drop", "rewind", "cursors", "sweep", "insert", "chunk",
         "advance", "promote"},
   head : Height,                    \* read before anything else
   hashes : SUBSET (Height \X Hashes),  \* buffered hashes still to be compared
   at : Height,                      \* first divergent height
   tails : [Assets -> Height],       \* cursors as listed
   from : Height, to : Height,       \* the chunk
   logs : SUBSET Row,                \* what the chunk's eth_getLogs returned
   todo : SUBSET Assets]             \* listed assets whose tail is still to advance

Backfiller ==
  [pc : {"idle", "asset", "floor", "scan", "logs", "probe", "fold", "advance",
         "done", "keep", "live"},
   asset : Assets,
   next : Height, stored : Height,   \* backfill_next and backfill_floor as listed
   fresh : BOOLEAN,                  \* the asset's row was read as pending
   floor : Height, from : Height, logs : SUBSET Row]

Seen(kind) == trouble.seen[kind]

\* A disturbance happens, as often as the scenario allows.
Disturb(kind) ==
  /\ Seen(kind) < trouble.allowed[kind]
  /\ trouble' = [trouble EXCEPT !.seen[kind] = @ + 1]

\* A range bounded by what the node has.
Within(from, to) == {b \in from .. to : 1 <= b /\ b <= Len(chain)}

\* eth_getLogs: the canonical rows of these assets in a range.
Logs(from, to, as) ==
  {r \in [block : Within(from, to), hash : Hashes, asset : as] :
     chain[r.block] = r.hash /\ r.asset \in LogsOf[r.hash]}

\* ListCursors joins on the asset's status.
Listed == {a \in Assets : status[a] \notin {"none", "revoked"}}

\* Both folds add event_count to what is there.
Fold(rows) ==
  /\ rollup' = rollup \cup rows
  /\ recounted' = recounted \cup (rollup \cap rows)

\* PromotePending: one transaction moves the confirmed rows out of the buffer.
PromotePending(upto) ==
  /\ Fold({r \in pending : r.block <= upto})
  /\ pending' = {r \in pending : r.block > upto}

-----------------------------------------------------------------------------
(* The node: new blocks, reorgs no deeper than Confirmations, pruning.     *)

Mine(h) ==
  /\ chain' = Append(chain, h)
  /\ final' = Max({final, Len(chain) + 1 - Confirmations})
  /\ Disturb("blocks")
  /\ UNCHANGED <<horizon, resyncing, tableVars, follower, backfiller>>

\* Forks of the blocks from height k on, shorter than them by up to MaxShrink.
Forks(k) == LET old == Len(chain) - k + 1
            IN  UNION {[1 .. n -> Hashes] : n \in {m \in 1 .. old : m + MaxShrink >= old}}

\* The blocks from height k on give way to a fork without any of them.
Reorg(k, fork) ==
  /\ k > final
  /\ \A n \in DOMAIN fork : fork[n] # chain[k + n - 1]
  /\ chain' = SubSeq(chain, 1, k - 1) \o fork
  /\ Disturb(IF k + Len(fork) <= Len(chain) THEN "shrunk"
             ELSE IF \E b \in k .. Len(chain) : LogsOf[chain[b]] # Assets THEN "blind"
             ELSE "reorgs")
  /\ UNCHANGED <<final, horizon, resyncing, tableVars, follower, backfiller>>

Prune ==
  /\ horizon' = horizon + 1
  /\ Disturb("prunes")
  /\ UNCHANGED <<chain, final, resyncing, tableVars, follower, backfiller>>

-----------------------------------------------------------------------------
(* Registration.                                                           *)

\* backfillStart
BackfillStart(anchor) == IF anchor = 0 THEN 0 ELSE anchor - 1

\* A cursor seeded at, or reset to, an anchor; the recorded floor survives a reset.
Anchored(c, anchor) ==
  [c EXCEPT !.anchor = anchor, !.next = BackfillStart(anchor), !.done = FALSE, !.tail = anchor]

\* RegisterAsset: the anchor is a head some caller read a moment ago.  A row that is there
\* keeps its cursor, and its status unless it was revoked.
Register(a, anchor) ==
  /\ status[a] \in {"none", "revoked"} /\ a \in trouble.assets
  /\ status' = [status EXCEPT ![a] = "pending"]
  /\ cursors' = IF status[a] = "none" THEN [cursors EXCEPT ![a] = Anchored(@, anchor)] ELSE cursors
  /\ UNCHANGED <<nodeVars, historyFloor, pending, rollup, recounted, follower, backfiller,
                 trouble>>

\* The mirror saw the hint withdrawn.
Revoke(a) ==
  /\ status[a] \notin {"none", "revoked"}
  /\ status' = [status EXCEPT ![a] = "revoked"]
  /\ Disturb("revokes")
  /\ UNCHANGED <<nodeVars, cursors, historyFloor, pending, rollup, recounted, follower, backfiller>>

\* The mirror's sync registers the hint again and reads its row, one asset at a time.
ResyncRead(a) ==
  /\ resyncing = {} /\ status[a] = "pending"
  /\ resyncing' = {a}
  /\ Disturb("resyncs")
  /\ UNCHANGED <<chain, final, horizon, tableVars, follower, backfiller>>

\* ReRegisterAsset: what read pending starts over, whatever its row says by now.
Resync(a, anchor) ==
  /\ a \in resyncing
  /\ resyncing' = {}
  /\ cursors' = [cursors EXCEPT ![a] = Anchored(@, anchor)]
  /\ UNCHANGED <<chain, final, horizon, status, historyFloor, pending, rollup, recounted,
                 follower, backfiller, trouble>>

\* The sync fails in between, or dies with the process.
AbortSync ==
  /\ resyncing # {}
  /\ resyncing' = {}
  /\ UNCHANGED <<chain, final, horizon, tableVars, follower, backfiller, trouble>>

-----------------------------------------------------------------------------
(* followTick.                                                             *)

IdleFollower ==
  [pc |-> "idle", head |-> 0, hashes |-> {}, at |-> 0, tails |-> [a \in Assets |-> 0],
   from |-> 0, to |-> 0, logs |-> {}, todo |-> {}]

\* Faulty variant of ConfirmedTo: one block more than the configured depth.
ConfirmedLate == IF follower.head > Confirmations + 1 THEN follower.head - Confirmations - 1 ELSE 0

\* The height up to which the tick may promote.
ConfirmedTo == IF follower.head > Confirmations THEN follower.head - Confirmations ELSE 0

\* The head, then PendingBlockHashes: a map, so a height buffered under two hashes
\* keeps the one the query happens to return last.
FollowHead(hashes) ==
  /\ follower.pc = "idle"
  /\ follower' = [IdleFollower EXCEPT !.pc = "reorg", !.head = Len(chain), !.hashes = hashes]
  /\ UNCHANGED <<nodeVars, tableVars, backfiller, trouble>>

BufferedHashes ==
  {H \in SUBSET {<<r.block, r.hash>> : r \in pending} :
     /\ \A r \in pending : \E p \in H : p[1] = r.block
     /\ \A p, q \in H : p[1] = q[1] => p = q}

\* handleReorg compares in ascending order; a height that is gone, or a header call
\* that fails, counts as a divergence.
CheckHeader(lost) ==
  LET b == Min({p[1] : p \in follower.hashes})
      same == ~lost /\ b <= Len(chain) /\ <<b, chain[b]>> \in follower.hashes
  IN  /\ follower.pc = "reorg" /\ follower.hashes # {}
      /\ follower' = IF same
           THEN [follower EXCEPT !.hashes = {p \in @ : p[1] # b}]
           ELSE [follower EXCEPT !.pc = "drop", !.hashes = {}, !.at = b]
      /\ IF lost THEN Disturb("lost") ELSE UNCHANGED trouble
      /\ UNCHANGED <<nodeVars, tableVars, backfiller>>

ReorgChecked ==
  /\ follower.pc = "reorg" /\ follower.hashes = {}
  /\ follower' = [follower EXCEPT !.pc = "cursors"]
  /\ UNCHANGED <<nodeVars, tableVars, backfiller, trouble>>

\* rewind, first statement.
DropPendingFrom ==
  /\ follower.pc = "drop"
  /\ pending' = {r \in pending : r.block < follower.at}
  /\ follower' = [follower EXCEPT !.pc = "rewind"]
  /\ UNCHANGED <<nodeVars, status, cursors, historyFloor, rollup, recounted, backfiller, trouble>>

\* Faulty variant of RewindTail: the tails stop at the divergent height.
RewindTailShort ==
  /\ follower.pc = "rewind"
  /\ cursors' = [a \in Assets |-> [cursors[a] EXCEPT !.tail = Min({@, follower.at})]]
  /\ follower' = [follower EXCEPT !.pc = "cursors", !.at = 0]
  /\ UNCHANGED <<nodeVars, status, historyFloor, pending, rollup, recounted, backfiller, trouble>>

\* rewind, second statement: every tail of the chain, whatever its anchor.
RewindTail ==
  /\ follower.pc = "rewind"
  /\ cursors' = [a \in Assets |->
       [cursors[a] EXCEPT !.tail = Min({@, IF follower.at > 0 THEN follower.at - 1 ELSE 0})]]
  /\ follower' = [follower EXCEPT !.pc = "cursors", !.at = 0]
  /\ UNCHANGED <<nodeVars, status, historyFloor, pending, rollup, recounted, backfiller, trouble>>

\* Without assets the tick only records the head; with nothing new it only promotes.
ListCursors ==
  LET from == Min({cursors[a].tail + 1 : a \in Listed})
  IN  /\ follower.pc = "cursors"
      /\ follower' =
           IF Listed = {} THEN IdleFollower
           ELSE IF from > follower.head THEN [follower EXCEPT !.pc = "promote"]
           ELSE [follower EXCEPT !.pc = "sweep", !.from = from, !.todo = Listed,
                   !.tails = [a \in Assets |-> IF a \in Listed THEN cursors[a].tail ELSE 0]]
      /\ UNCHANGED <<nodeVars, tableVars, backfiller, trouble>>

\* Faulty variant of Kept: the split at the anchor left to the lowest tail.
KeptAll(from, to) == Logs(from, to, follower.todo)

\* The logs a chunk keeps: an asset's range starts above its own tail.
Kept(from, to) ==
  {r \in Logs(from, to, follower.todo) : r.block > follower.tails[r.asset]}

\* SweepLogs: one window, of any width the halving may have left.
SweepRead(to) ==
  /\ follower.pc = "sweep"
  /\ to >= follower.from /\ to <= follower.head /\ to < follower.from + TailWindow
  /\ follower' = [follower EXCEPT !.pc = "insert", !.to = to, !.logs = Kept(follower.from, to)]
  /\ UNCHANGED <<nodeVars, tableVars, backfiller, trouble>>

\* InsertPending: the primary key makes the buffer a set.
InsertPending ==
  /\ follower.pc = "insert"
  /\ pending' = pending \cup follower.logs
  /\ follower' = [follower EXCEPT !.pc = "chunk", !.logs = {}]
  /\ UNCHANGED <<nodeVars, status, cursors, historyFloor, rollup, recounted, backfiller, trouble>>

\* The chunk's own promotion, then the next window or the end of the sweep.
PromoteChunk ==
  LET upto == Min({follower.to, ConfirmedTo})
  IN  /\ follower.pc = "chunk"
      /\ IF upto >= follower.from THEN PromotePending(upto)
         ELSE UNCHANGED <<pending, rollup, recounted>>
      /\ follower' = IF follower.to = follower.head
           THEN [follower EXCEPT !.pc = "advance"]
           ELSE [follower EXCEPT !.pc = "sweep", !.from = follower.to + 1]
      /\ UNCHANGED <<nodeVars, status, cursors, historyFloor, backfiller, trouble>>

\* AdvanceTail, one statement per listed asset: each was scanned through the head.
AdvanceTail(a) ==
  /\ follower.pc = "advance" /\ a \in follower.todo
  /\ cursors' = [cursors EXCEPT ![a].tail = Max({@, follower.head})]
  /\ follower' = [follower EXCEPT !.todo = @ \ {a},
                    !.pc = IF follower.todo = {a} THEN "promote" ELSE @]
  /\ UNCHANGED <<nodeVars, status, historyFloor, pending, rollup, recounted, backfiller, trouble>>

\* The closing promotion; recordHead only feeds the status page.
PromoteTick ==
  /\ follower.pc = "promote"
  /\ PromotePending(ConfirmedTo)
  /\ follower' = IdleFollower
  /\ UNCHANGED <<nodeVars, status, cursors, historyFloor, backfiller, trouble>>

\* Any call of the tick fails, or the process dies: what the tick held is gone.
AbortFollow ==
  /\ follower.pc # "idle"
  /\ follower' = IdleFollower
  /\ Disturb(IF follower.pc = "rewind" THEN "torn" ELSE "aborts")
  /\ UNCHANGED <<nodeVars, tableVars, backfiller>>

-----------------------------------------------------------------------------
(* backfillTick, one asset at a time.                                      *)

IdleBackfiller ==
  [pc |-> "idle", asset |-> CHOOSE a \in Assets : TRUE, next |-> 0, stored |-> 0,
   fresh |-> FALSE, floor |-> 0, from |-> 0, logs |-> {}]

\* Faulty variant of ResolveBackfillFloor: the request wins over what is reachable.
FloorAsRequested(a) == HintFrom[a]

\* resolveBackfillFloor: the stricter of what was asked for and what is reachable.
ResolveBackfillFloor(a) == Max({HintFrom[a], historyFloor})

\* The cursor as ListCursors returned it; the horizon is probed before the first walk,
\* and a probe that fails leaves the floor unknown.
BackfillPick(a, probed) ==
  /\ backfiller.pc = "idle"
  /\ a \in Listed /\ ~cursors[a].done /\ cursors[a].anchor # 0
  /\ historyFloor' = IF historyFloor = -1 /\ probed THEN horizon ELSE historyFloor
  /\ IF probed THEN UNCHANGED trouble ELSE historyFloor = -1 /\ Disturb("lost")
  /\ backfiller' = [IdleBackfiller EXCEPT !.pc = "asset", !.asset = a,
                                    !.next = cursors[a].next, !.stored = cursors[a].floor]
  /\ UNCHANGED <<nodeVars, status, cursors, pending, rollup, recounted, follower>>

\* GetAsset: with nothing left above the floor the walk is done; a floor that moved is
\* stored, and a pending asset marked, before the logs are read.
BackfillAsset ==
  LET a == backfiller.asset
      floor == ResolveBackfillFloor(a)
  IN  /\ backfiller.pc = "asset"
      /\ backfiller' = [backfiller EXCEPT !.floor = floor, !.fresh = (status[a] = "pending"),
                          !.pc = IF backfiller.next < floor THEN "done"
                                 ELSE IF backfiller.stored # floor THEN "floor"
                                 ELSE IF status[a] = "pending" THEN "scan" ELSE "logs"]
      /\ UNCHANGED <<nodeVars, tableVars, follower, trouble>>

\* SetBackfillFloor
BackfillFloor ==
  /\ backfiller.pc = "floor"
  /\ cursors' = [cursors EXCEPT ![backfiller.asset].floor = backfiller.floor]
  /\ backfiller' = [backfiller EXCEPT !.pc = IF backfiller.fresh THEN "scan" ELSE "logs"]
  /\ UNCHANGED <<nodeVars, status, historyFloor, pending, rollup, recounted, follower, trouble>>

\* SetAssetStatus: scanning, whatever the row says by now.
BackfillScanning ==
  /\ backfiller.pc = "scan"
  /\ status' = [status EXCEPT ![backfiller.asset] = "scanning"]
  /\ backfiller' = [backfiller EXCEPT !.pc = "logs"]
  /\ UNCHANGED <<nodeVars, cursors, historyFloor, pending, rollup, recounted, follower, trouble>>

\* The lower end of the window below a height.
WindowStart(to, floor) == IF to >= floor + BackfillWindow THEN to - BackfillWindow + 1 ELSE floor

\* The window below the cursor.  The node refuses a pruned range, or the call fails.
BackfillLogs(failed) ==
  LET to == backfiller.next
      from == WindowStart(to, backfiller.floor)
      refused == from < horizon
  IN  /\ backfiller.pc = "logs"
      /\ backfiller' =
           IF failed \/ refused THEN [backfiller EXCEPT !.pc = "probe"]
           ELSE [backfiller EXCEPT !.pc = "fold", !.from = from,
                   !.logs = Logs(from, to, {backfiller.asset})]
      /\ IF failed THEN ~refused /\ Disturb("aborts") ELSE UNCHANGED trouble
      /\ UNCHANGED <<nodeVars, tableVars, follower>>

\* reprobeHistoryFloor: the horizon is probed again, or that fails too; a later tick
\* retries the window.
BackfillReprobe(probed) ==
  /\ backfiller.pc = "probe"
  /\ historyFloor' = IF probed THEN horizon ELSE historyFloor
  /\ backfiller' = IdleBackfiller
  /\ IF probed THEN UNCHANGED trouble ELSE Disturb("lost")
  /\ UNCHANGED <<nodeVars, status, cursors, pending, rollup, recounted, follower>>

\* FoldInteractions: straight into the rollup, confirmed or not.
BackfillFold ==
  /\ backfiller.pc = "fold"
  /\ Fold(backfiller.logs)
  /\ backfiller' = [backfiller EXCEPT !.pc = "advance", !.logs = {}]
  /\ UNCHANGED <<nodeVars, status, cursors, historyFloor, pending, follower, trouble>>

\* The next block a walk that reached a height examines.
NextBelow(from) == IF from > 0 THEN from - 1 ELSE 0

\* AdvanceBackfill writes what the tick computed from the cursor it read.
BackfillAdvance ==
  LET a == backfiller.asset
      done == backfiller.from <= backfiller.floor
  IN  /\ backfiller.pc = "advance"
      /\ cursors' = [cursors EXCEPT ![a].next = NextBelow(backfiller.from), ![a].done = done]
      /\ backfiller' = IF done THEN [backfiller EXCEPT !.pc = "done"] ELSE IdleBackfiller
      /\ UNCHANGED <<nodeVars, status, historyFloor, pending, rollup, recounted, follower, trouble>>

\* finishBackfill, first statement: AdvanceBackfill.  No tick visits the asset again.
FinishDone ==
  /\ backfiller.pc = "done"
  /\ cursors' = [cursors EXCEPT ![backfiller.asset].next = 0, ![backfiller.asset].done = TRUE]
  /\ backfiller' = [backfiller EXCEPT !.pc = "keep"]
  /\ UNCHANGED <<nodeVars, status, historyFloor, pending, rollup, recounted, follower, trouble>>

\* Faulty variant of FinishFloor: the floor the walk ended at is not kept.
FinishFloorless ==
  /\ backfiller.pc = "keep"
  /\ backfiller' = [backfiller EXCEPT !.pc = "live"]
  /\ UNCHANGED <<nodeVars, tableVars, follower, trouble>>

\* ... second: SetBackfillFloor.
FinishFloor ==
  /\ backfiller.pc = "keep"
  /\ cursors' = [cursors EXCEPT ![backfiller.asset].floor = backfiller.floor]
  /\ backfiller' = [backfiller EXCEPT !.pc = "live"]
  /\ UNCHANGED <<nodeVars, status, historyFloor, pending, rollup, recounted, follower, trouble>>

\* ... third: SetAssetStatus, whatever the row says by now.
FinishLive ==
  /\ backfiller.pc = "live"
  /\ status' = [status EXCEPT ![backfiller.asset] = "live"]
  /\ backfiller' = IdleBackfiller
  /\ UNCHANGED <<nodeVars, cursors, historyFloor, pending, rollup, recounted, follower, trouble>>

\* The asset is done and its row still holds the floor of an earlier tick.
FloorBehind(a) ==
  backfiller.pc = "keep" /\ backfiller.asset = a /\ cursors[a].floor # backfiller.floor

\* A statement or call of the tick fails, or the process dies.
AbortBackfill ==
  /\ backfiller.pc # "idle"
  /\ backfiller' = IdleBackfiller
  /\ Disturb(IF FloorBehind(backfiller.asset) THEN "unfloored" ELSE "aborts")
  /\ UNCHANGED <<nodeVars, tableVars, follower>>

-----------------------------------------------------------------------------
Init ==
  /\ chain \in [1 .. InitHead -> MinedHashes]
  /\ final = Max({0, InitHead - Confirmations})
  /\ horizon = 0
  /\ status = [a \in Assets |-> "none"]
  /\ cursors = [a \in Assets |->
                  [anchor |-> 0, next |-> 0, done |-> FALSE, floor |-> 0, tail |-> 0]]
  /\ historyFloor = -1
  /\ pending = {} /\ rollup = {} /\ recounted = {}
  /\ follower = IdleFollower
  /\ backfiller = IdleBackfiller
  /\ resyncing = {}
  /\ trouble \in {[assets |-> s.assets, allowed |-> s.allowed,
                    seen |-> [d \in Disturbance |-> 0]] : s \in Scenarios}

Anchors == {h \in 1 .. Len(chain) : h + AnchorLag >= Len(chain)}

NodeNext ==
  \/ \E h \in MinedHashes : Mine(h)
  \/ \E k \in {h \in DOMAIN chain : h > final} : \E fork \in Forks(k) : Reorg(k, fork)
  \/ Prune

AssetNext ==
  \/ \E a \in Assets : \/ Revoke(a) \/ ResyncRead(a)
                        \/ \E n \in Anchors : Register(a, n) \/ Resync(a, n)
  \/ AbortSync

FollowStep ==
  \/ \E H \in BufferedHashes : FollowHead(H)
  \/ CheckHeader(FALSE) \/ ReorgChecked \/ DropPendingFrom \/ RewindTail \/ ListCursors
  \/ \E to \in follower.from .. follower.head : SweepRead(to)
  \/ InsertPending \/ PromoteChunk
  \/ \E a \in follower.todo : AdvanceTail(a)
  \/ PromoteTick

BackfillOn ==
  \/ BackfillAsset \/ BackfillFloor \/ BackfillScanning
  \/ BackfillLogs(FALSE) \/ BackfillReprobe(TRUE) \/ BackfillFold \/ BackfillAdvance
  \/ FinishDone \/ FinishFloor \/ FinishLive

BackfillStep == BackfillOn \/ \E a \in Assets : BackfillPick(a, TRUE)

FaultNext ==
  \/ CheckHeader(TRUE) \/ AbortFollow
  \/ BackfillLogs(TRUE) \/ BackfillReprobe(FALSE) \/ AbortBackfill
  \/ \E a \in Assets : BackfillPick(a, FALSE)

Next == NodeNext \/ AssetNext \/ FollowStep \/ BackfillStep \/ FaultNext

Spec == Init /\ [][Next]_vars

\* Both loops run on tickers for as long as the process lives, and a backfill tick
\* visits every unfinished asset in turn.
FairSpec ==
  /\ Spec
  /\ WF_vars(FollowStep)
  /\ WF_vars(BackfillOn)
  /\ \A a \in Assets : SF_vars(BackfillPick(a, TRUE))

-----------------------------------------------------------------------------
(* Properties.                                                             *)

\* Every variable stays in its type; the follower's chunk lies inside its sweep.
TypeOK ==
  /\ chain \in Seq(Hashes) /\ Len(chain) >= 1
  /\ final \in Nat /\ horizon \in Nat
  /\ status \in [Assets -> Status]
  /\ cursors \in [Assets -> Cursor]
  /\ historyFloor \in Nat \cup {-1}
  /\ pending \subseteq Row /\ rollup \subseteq Row /\ recounted \subseteq rollup
  /\ follower \in Follower
  /\ backfiller \in Backfiller
  /\ resyncing \subseteq Assets
  /\ trouble \in [assets : SUBSET Assets, allowed : [Disturbance -> Nat],
                 seen : [Disturbance -> Nat]]

\* The canonical row of an asset at a height; only blocks that emit have one.
RowAt(a, b) == [block |-> b, hash |-> chain[b], asset |-> a]
Emits(a, b) == b \in DOMAIN chain /\ a \in LogsOf[chain[b]]

\* The range a cursor vouches for, as CoverageFromCursors reads it.
Covered(a) ==
  LET c == cursors[a]
  IN  (IF c.done THEN c.floor ELSE c.next + 1) .. c.tail

\* Folded, buffered, or about to be scanned again: a buffered row at or below it has
\* diverged, which handleReorg will notice, or the rewind is under way.
Recorded(a, b) ==
  \/ RowAt(a, b) \in rollup \cup pending
  \/ \E r \in pending : r.block <= b /\ ~(r.block <= Len(chain) /\ r = RowAt(r.asset, r.block))
  \/ follower.pc = "rewind" /\ follower.at <= b

Reorgs == Seen("reorgs") + Seen("shrunk") + Seen("blind")

\* Reorgs that handleReorg sees and rewinds: of blocks that have buffered rows, onto a
\* chain no shorter, both statements of the rewind made.
Noticed == Seen("torn") = 0 /\ Seen("blind") = 0 /\ Seen("shrunk") = 0

\* No height is buffered under two hashes, of which PendingBlockHashes would compare one:
\* assets whose tails differ, and ticks that failed, read a height again after a reorg.
\* And no cursor is started over, at an anchor that may lie below rows read already.
OneHash ==
  /\ Seen("resyncs") = 0
  /\ \/ Reorgs = 0
     \/ /\ Seen("aborts") = 0
        /\ \A a, b \in Assets : status[a] # "none" /\ status[b] # "none" => a = b

\* Final events above an asset's anchor and up to its tail that are not recorded.
Missed(a) ==
  {b \in 1 .. final :
     b \in (cursors[a].anchor + 1) .. cursors[a].tail /\ Emits(a, b) /\ ~Recorded(a, b)}

\* The follower misses nothing it has scanned, although rows, tails and rewinds are
\* written in separate transactions and head, hashes and logs are read at different
\* moments (followTick, handleReorg).
FollowerComplete == Noticed /\ OneHash => \A a \in Listed : Missed(a) = {}

\* "a reorg deletes buffered rows and rescans - the aggregate is never wrong" (README).
AggregateNeverWrong == \A a \in Listed : Missed(a) = {}

\* Until finishBackfill has stored the floor a walk ended at, only what lies above it was read.
Walked(a) == {b \in Covered(a) : FloorBehind(a) => b >= backfiller.floor}

Unbroken == Reorgs = 0 /\ Seen("resyncs") = 0 /\ Seen("torn") = 0

\* "every event at least once": a final event in the range the cursor vouches for is recorded,
\* the anchor block apart, wherever ticks died and whatever the node pruned.  Excepted are a
\* reorg, which may reach a backfilled block, a cursor started over under a walk, and ticks
\* that died inside a pair of statements that belong together: the two of a rewind, and the
\* two of finishBackfill between which the cursor is done with too low a floor.
AtLeastOnce ==
  Unbroken /\ Seen("unfloored") = 0 =>
    \A a \in Listed : \A b \in Walked(a) \ {cursors[a].anchor} :
      b <= final /\ Emits(a, b) => Recorded(a, b)

\* "Complete means the walk reached as far back as was asked for" (history_complete of the
\* asset page): then every final event from there up to the anchor is recorded.
HistoryComplete ==
  Unbroken /\ backfiller.pc = "idle" =>
    \A a \in Listed : cursors[a].done /\ cursors[a].floor <= HintFrom[a] =>
      \A b \in HintFrom[a] .. cursors[a].anchor - 1 : b <= final /\ Emits(a, b) => Recorded(a, b)

\* The split at the anchor keeps the two workers apart and neither folds a range twice:
\* an event is added to event_count again only after a failed tick, a restarted cursor,
\* a shorter fork, or a rewind that pulled the tail below the anchor (followTick,
\* backfillAsset).
CountedOnce ==
  Seen("aborts") = 0 /\ Seen("resyncs") = 0 /\ Seen("shrunk") = 0 =>
    \A r \in recounted : Reorgs + Seen("lost") > 0 /\ r.block <= cursors[r.asset].anchor

\* What the follower folds is settled: above the anchor, only canonical rows no reorg
\* can reach any more, although hashes, logs and head are read at different moments.
FollowerFoldsFinal ==
  OneHash => \A r \in rollup : r.block > cursors[r.asset].anchor =>
               r.block <= final /\ r = RowAt(r.asset, r.block)

\* The follower's half of the rollup and the buffer: nothing it scanned is missing, and what
\* it folds is settled (followTick, handleReorg, PromotePending).
FollowerSound == FollowerComplete /\ FollowerFoldsFinal

\* "the rollup contains nothing above the confirmation depth" (handleReorg).
RollupConfirmed == \A r \in rollup : r.block <= final

\* "the contiguous block range whose logs are in the rollup" (CoverageFromCursors),
\* capped at the rollup's top like a commitment's range.
CoverageInRollup ==
  \A a \in Listed : \A b \in Covered(a) :
    Emits(a, b) /\ (\E r \in rollup : r.block >= b) => RowAt(a, b) \in rollup

\* Final events above the anchor that are not in the rollup yet.
Unfolded(a) ==
  {b \in 1 .. final : b > cursors[a].anchor /\ Emits(a, b) /\ RowAt(a, b) \notin rollup}

\* Every final event above an asset's anchor reaches the rollup, whatever ticks failed and
\* whatever was rewound: the follower catches up again and again (followTick), with the
\* exceptions of FollowerComplete.
EventuallyFolded == []<>(Noticed /\ OneHash => \A a \in Listed : Unfolded(a) = {})

\* Every registered asset's history walk ends although ticks fail, the cursor is started
\* over and the node prunes blocks the walk still wanted (backfillAsset, reprobeHistoryFloor).
BackfillCompletes == []<>(\A a \in Listed : cursors[a].done)
=============================================================================
