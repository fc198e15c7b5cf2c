----------------------------- MODULE Discovery ------------------------------
(***************************************************************************)
(* internal/indexer/discovery.go: the sweep that counts what contracts     *)
(* emit at the head, and the promotions that turn a counted or a wanted    *)
(* contract into an indexed asset, next to the operator's own promotions   *)
(* and spam verdicts through the API.  A tick is a sequence of RPC answers *)
(* and database transactions, and may die between any two of them.         *)
(*                                                                         *)
(* A block is the set of contracts that emit one watched event in it;      *)
(* token metadata and inferred standards are left out.  Demand is its net, *)
(* for minus against, which is all that promotion reads.  Time is counted  *)
(* in ticks of the discovery interval.                                     *)
(***************************************************************************)
EXTENDS Integers, Sequences, FiniteSets, FiniteSetsExt

CONSTANTS
  Contracts,
  Lookback, MaxBlocksPerTick, TailWindow,
  AutoPromote, MinEvents, MinBlocks, MinVoters, MaxPromotionsPerTick,
  CooldownTicks,       \* noCodeRetryInterval, in ticks
  Blocks,              \* bound: which contracts may emit in a block together
  InitHead, MaxHead,   \* bounds on the chain
  MaxVote,             \* bound on the net demand of a contract
  Scenarios            \* bounds: which disturbances may happen together, how often

Disturbance ==
  {"votes", "verdicts",    \* votes cast, spam marks made or taken back
   "manual",               \* operators' promotions and registrations
   "revokes", "deploys",   \* hints withdrawn, code put at an address
   "reorgs",               \* the newest block replaced
   "floors",               \* history floors probed
   "aborts"}               \* ticks or requests that failed, or died with the process

ASSUME DiscoveryAssumption ==
  /\ Lookback \in Nat /\ MaxBlocksPerTick \in Nat \ {0} /\ TailWindow \in Nat \ {0}
  /\ AutoPromote \in BOOLEAN
  /\ MinEvents \in Nat \ {0} /\ MinBlocks \in Nat \ {0} /\ MinVoters \in Nat
  /\ MaxPromotionsPerTick \in Nat \ {0} /\ CooldownTicks \in Nat \ {0}
  /\ Blocks \subseteq SUBSET Contracts
  /\ IsFiniteSet(Contracts)
  /\ MaxHead \in Nat /\ InitHead \in 1 .. MaxHead /\ MaxVote \in Nat
  /\ Scenarios \subseteq [Disturbance -> Nat]

VARIABLES
  chain,       \* the node's blocks
  code,        \* the addresses that have code
  floor,       \* the history floor the service uses
  candidates,  \* the candidates table: rows of the contracts seen
  cursor,      \* discovery_cursor, 0 before the first sweep
  assets,      \* assets.status
  net,         \* asset_demand_totals, voters minus against
  cooldown,    \* promotion_cooldowns: ticks until an automatic retry
  tick,        \* the discovery goroutine
  request,     \* an operator's promotion request
  passed,      \* heights some sweep has folded, but for the contracts indexed at the time
  unread,      \* heights no sweep has to read: before the cold start, or below the floor
  trouble      \* how often each disturbance may happen in this behaviour, and has

nodeVars   == <<chain, code>>
tableVars  == <<candidates, cursor, assets, net, cooldown>>
ghostVars  == <<passed, unread>>
vars == <<nodeVars, floor, tableVars, tick, request, ghostVars, trouble>>

Height == 1 .. MaxHead
Seen(c) == c \in DOMAIN candidates

Candidate == [first : Height, last : Height, events : Nat, blocks : Nat,
              promoted : BOOLEAN, spam : BOOLEAN]

Disturb(kind) ==
  /\ trouble.seen[kind] < trouble.allowed[kind]
  /\ trouble' = [trouble EXCEPT !.seen[kind] = @ + 1]

-----------------------------------------------------------------------------
(* The environment.                                                        *)

Mine(emitters) ==
  /\ Len(chain) < MaxHead
  /\ chain' = Append(chain, emitters)
  /\ UNCHANGED <<code, floor, tableVars, tick, request, ghostVars, trouble>>

\* Only what has code emits.  A block replaced after it was read is not read again.
Reorg(emitters) ==
  /\ emitters # chain[Len(chain)]
  /\ chain' = [chain EXCEPT ![Len(chain)] = emitters]
  /\ Disturb("reorgs")
  /\ UNCHANGED <<code, floor, tableVars, tick, request, ghostVars>>

Deploy(c) ==
  /\ c \notin code
  /\ code' = code \cup {c}
  /\ Disturb("deploys")
  /\ UNCHANGED <<chain, floor, tableVars, tick, request, ghostVars>>

\* A vote, a verdict or the mirror changes what readers want.
Vote(c, n) ==
  /\ net[c] # n
  /\ net' = [net EXCEPT ![c] = n]
  /\ Disturb("votes")
  /\ UNCHANGED <<nodeVars, floor, candidates, cursor, assets, cooldown, tick, request, ghostVars>>

Revoke(c) ==
  /\ assets[c] = "indexed"
  /\ assets' = [assets EXCEPT ![c] = "revoked"]
  /\ Disturb("revokes")
  /\ UNCHANGED <<nodeVars, floor, candidates, cursor, net, cooldown, tick, request, ghostVars>>

\* resolveHistoryFloor stores what the probe found and uses it from then on.
ResolveHistoryFloor(f) ==
  /\ f > floor
  /\ floor' = f
  /\ Disturb("floors")
  /\ UNCHANGED <<nodeVars, tableVars, tick, request, ghostVars>>

-----------------------------------------------------------------------------
(* The candidates table.                                                   *)

\* One chunk's logs, folded per contract: CandidatesFrom.
CandidatesFrom(from, to, known) ==
  LET heights(c) == {h \in from .. to : h \in DOMAIN chain /\ c \in chain[h]}
      emitters == {c \in Contracts \ known : heights(c) # {}}
  IN  [c \in emitters |->
         [first |-> Min(heights(c)), last |-> Max(heights(c)),
          events |-> Cardinality(heights(c)), blocks |-> Cardinality(heights(c)),
          promoted |-> FALSE, spam |-> FALSE]]

\* ON CONFLICT: the counters add up and a verdict stays.
Merged(old, new) ==
  [old EXCEPT !.first = Min({@, new.first}), !.last = Max({@, new.last}),
              !.events = @ + new.events, !.blocks = @ + new.blocks]

UpsertCandidates(rows) ==
  candidates' = [c \in DOMAIN candidates \cup DOMAIN rows |->
                   IF c \notin DOMAIN rows THEN candidates[c]
                   ELSE IF Seen(c) THEN Merged(candidates[c], rows[c]) ELSE rows[c]]

Wanted(c) == MinVoters > 0 /\ net[c] >= MinVoters
Busy(c) == candidates[c].events >= MinEvents /\ candidates[c].blocks >= MinBlocks

\* PromotableCandidates, before its order and limit.
Promotable ==
  {c \in DOMAIN candidates :
     /\ ~candidates[c].promoted /\ ~candidates[c].spam
     /\ cooldown[c] = 0
     /\ (AutoPromote /\ Busy(c)) \/ Wanted(c)}

\* DemandedUnseen: wanted, not counted by discovery and with no asset row, revoked ones included.
DemandedUnseen ==
  {c \in Contracts : net[c] >= MinVoters /\ assets[c] = "none" /\ ~Seen(c) /\ cooldown[c] = 0}

\* ORDER BY net, then activity; equals come in any order.
Outranks(c, d) ==
  \/ net[c] > net[d]
  \/ net[c] = net[d] /\ Seen(c) /\ Seen(d) /\ candidates[c].events > candidates[d].events

\* The queue a LIMIT leaves: as many as fit, none outranked by one left out.
Queues(pool, limit) ==
  {q \in UNION {[1 .. n -> pool] : n \in {Min({limit, Cardinality(pool)})}} :
     /\ \A i, j \in DOMAIN q : i < j => q[i] # q[j] /\ ~Outranks(q[j], q[i])
     /\ \A c \in pool : (\E i \in DOMAIN q : q[i] = c) \/ (\A i \in DOMAIN q : ~Outranks(c, q[i]))}

\* Faulty variant of MarkPromoted: the spam mark is left beside the promotion.
MarkPromotedOnly(c) ==
  IF Seen(c) THEN [candidates EXCEPT ![c].promoted = TRUE] ELSE candidates

\* MarkCandidatePromoted: promoting takes a spam mark back.
MarkPromoted(c) ==
  IF Seen(c) /\ ~candidates[c].promoted
    THEN [candidates EXCEPT ![c].promoted = TRUE, ![c].spam = FALSE]
    ELSE candidates

\* RegisterAsset: a known asset keeps its row, a revoked one comes back.
RegisterAsset(c) == assets' = [assets EXCEPT ![c] = "indexed"]

-----------------------------------------------------------------------------
(* discoveryTick.                                                          *)

Idle == [pc |-> "idle", next |-> 0, to |-> 0, known |-> {}, queue |-> <<>>, budget |-> 0,
         unseen |-> FALSE, promoted |-> 0]

\* Faulty variant of SweepFrom: the block after the cursor is skipped over.
SweepFromAfter(head) ==
  LET from == IF cursor # 0 THEN cursor + 2
              ELSE IF head > Lookback THEN head - Lookback ELSE 0
  IN  Max({from, floor})

\* Where the sweep starts: after the cursor, near the head when there is none, and never
\* below the floor.
SweepFrom(head) ==
  LET from == IF cursor # 0 THEN cursor + 1
              ELSE IF head > Lookback THEN head - Lookback ELSE 0
  IN  Max({from, floor})

SweepTo(from, head) == Min({head, from + MaxBlocksPerTick - 1})

\* ListCursors leaves revoked assets out.
IndexedAddresses == {c \in Contracts : assets[c] = "indexed"}

\* Every cooldown is a tick shorter.
Cooled == [c \in Contracts |-> IF cooldown[c] = 0 THEN 0 ELSE cooldown[c] - 1]

\* The head, the cursor and the addresses already indexed; nothing new goes straight to
\* promotion.
StartTick ==
  LET head == Len(chain)
      from == SweepFrom(head)
  IN  /\ tick.pc = "idle"
      /\ tick' = IF from > head THEN [Idle EXCEPT !.pc = "query"]
                 ELSE [Idle EXCEPT !.pc = "sweep", !.next = from, !.to = SweepTo(from, head),
                                   !.known = IndexedAddresses]
      /\ cooldown' = Cooled
      /\ unread' = IF cursor = 0 THEN {h \in Height : h < from}
                   ELSE unread \cup {h \in Height : h > cursor /\ h < floor}
      /\ UNCHANGED <<nodeVars, floor, candidates, cursor, assets, net, request, passed, trouble>>

\* One chunk: eth_getLogs over the whole chain, folded in one transaction.
SweepChunk ==
  LET cto == Min({tick.next + TailWindow - 1, tick.to})
      rows == CandidatesFrom(tick.next, cto, tick.known)
  IN  /\ tick.pc = "sweep"
      /\ UpsertCandidates(rows)
      /\ passed' = passed \cup (tick.next .. cto)
      /\ tick' = IF cto = tick.to THEN [tick EXCEPT !.pc = "cursor"] ELSE [tick EXCEPT !.next = cto + 1]
      /\ UNCHANGED <<nodeVars, floor, cursor, assets, net, cooldown, request, unread, trouble>>

\* The cursor moves once the whole range is folded.
SetDiscoveryCursor ==
  /\ tick.pc = "cursor"
  /\ cursor' = tick.to
  /\ tick' = [tick EXCEPT !.pc = "query"]
  /\ UNCHANGED <<nodeVars, floor, candidates, assets, net, cooldown, request, ghostVars, trouble>>

\* autoPromote: switched off, or the queue of counted contracts within the budget.
QueryPromotable ==
  /\ tick.pc = "query"
  /\ IF ~AutoPromote /\ MinVoters = 0 THEN tick' = Idle
     ELSE \E q \in Queues(Promotable, MaxPromotionsPerTick) :
            tick' = [Idle EXCEPT !.pc = "next", !.queue = q, !.budget = MaxPromotionsPerTick]
  /\ UNCHANGED <<nodeVars, floor, tableVars, request, ghostVars, trouble>>

\* What the counted contracts left of the budget.
Leftover == tick.budget

\* The counted contracts are through: the rest of the budget goes to the unseen ones.
QueryUnseen ==
  /\ tick.pc = "next" /\ tick.queue = <<>> /\ ~tick.unseen
  /\ IF MinVoters = 0 \/ Leftover <= 0 THEN tick' = Idle
     ELSE \E q \in Queues(DemandedUnseen, Leftover) :
            tick' = [tick EXCEPT !.queue = q, !.unseen = TRUE]
  /\ UNCHANGED <<nodeVars, floor, tableVars, request, ghostVars, trouble>>

EndTick ==
  /\ tick.pc = "next" /\ tick.queue = <<>> /\ tick.unseen
  /\ tick' = Idle
  /\ UNCHANGED <<nodeVars, floor, tableVars, request, ghostVars, trouble>>

\* On to the next contract of the queue; a failure costs its place too.
Dequeue(t) ==
  [t EXCEPT !.pc = "next", !.queue = Tail(@), !.budget = IF t.unseen THEN @ ELSE @ - 1]

\* Faulty variant of DeferPromotion: nothing is remembered of the refusal.
DeferNothing(c) == cooldown

\* DeferPromotion: no automatic retry for a day.
DeferPromotion(c) == [cooldown EXCEPT ![c] = CooldownTicks]

\* tryAutoPromote finds no code at the address and defers it.
PromoteDeferred ==
  /\ tick.pc = "next" /\ tick.queue # <<>>
  /\ Head(tick.queue) \notin code
  /\ cooldown' = DeferPromotion(Head(tick.queue))
  /\ tick' = Dequeue(tick)
  /\ UNCHANGED <<nodeVars, floor, candidates, cursor, assets, net, request, ghostVars, trouble>>

\* promoteAs: head, code and metadata, then the registration.
PromoteRegister ==
  /\ tick.pc = "next" /\ tick.queue # <<>>
  /\ Head(tick.queue) \in code
  /\ RegisterAsset(Head(tick.queue))
  /\ tick' = [tick EXCEPT !.pc = "mark", !.promoted = @ + 1]
  /\ UNCHANGED <<nodeVars, floor, candidates, cursor, net, cooldown, request, ghostVars, trouble>>

PromoteMark ==
  /\ tick.pc = "mark"
  /\ candidates' = MarkPromoted(Head(tick.queue))
  /\ tick' = Dequeue(tick)
  /\ UNCHANGED <<nodeVars, floor, cursor, assets, net, cooldown, request, ghostVars, trouble>>

\* A failed promotion is logged and the next one tried.
PromoteFail ==
  /\ tick.pc \in {"next", "mark"} /\ tick.queue # <<>>
  /\ tick' = Dequeue(tick)
  /\ Disturb("aborts")
  /\ UNCHANGED <<nodeVars, floor, tableVars, request, ghostVars>>

\* A failed sweep or query ends the tick, and so does the end of the process.
AbortTick ==
  /\ tick.pc # "idle"
  /\ tick' = Idle
  /\ Disturb("aborts")
  /\ UNCHANGED <<nodeVars, floor, tableVars, request, ghostVars>>

-----------------------------------------------------------------------------
(* The API.                                                                *)

\* promoteCandidate: the same two transactions, for any address with code.
RequestPromotion(c) ==
  /\ request = <<>>
  /\ c \in code
  /\ RegisterAsset(c)
  /\ request' = <<c>>
  /\ Disturb("manual")
  /\ UNCHANGED <<nodeVars, floor, candidates, cursor, net, cooldown, tick, ghostVars>>

FinishPromotion ==
  /\ request # <<>>
  /\ candidates' = MarkPromoted(Head(request))
  /\ request' = <<>>
  /\ UNCHANGED <<nodeVars, floor, cursor, assets, net, cooldown, tick, ghostVars, trouble>>

AbortRequest ==
  /\ request # <<>>
  /\ request' = <<>>
  /\ Disturb("aborts")
  /\ UNCHANGED <<nodeVars, floor, tableVars, tick, ghostVars>>

\* registerAsset: an address with code, and no candidate row is touched.
RegisterLocally(c) ==
  /\ c \in code
  /\ RegisterAsset(c)
  /\ Disturb("manual")
  /\ UNCHANGED <<nodeVars, floor, candidates, cursor, net, cooldown, tick, request, ghostVars>>

\* markCandidateSpam: refused once the contract is promoted.
MarkCandidateSpam(c) ==
  /\ Seen(c) /\ ~candidates[c].promoted
  /\ candidates' = [candidates EXCEPT ![c].spam = TRUE]
  /\ Disturb("verdicts")
  /\ UNCHANGED <<nodeVars, floor, cursor, assets, net, cooldown, tick, request, ghostVars>>

ClearCandidateSpam(c) ==
  /\ Seen(c) /\ candidates[c].spam
  /\ candidates' = [candidates EXCEPT ![c].spam = FALSE]
  /\ Disturb("verdicts")
  /\ UNCHANGED <<nodeVars, floor, cursor, assets, net, cooldown, tick, request, ghostVars>>

CandidateVerdict(c) == MarkCandidateSpam(c) \/ ClearCandidateSpam(c)

\* ListCandidates with its default filter: what nobody has judged.
WorkingView == {c \in DOMAIN candidates : ~candidates[c].promoted /\ ~candidates[c].spam}

\* candidateView: the badge; a spam mark is written over an approval.
CandidateView(c) ==
  LET row == candidates[c]
  IN  [promotable |-> ~row.spam /\ ~row.promoted /\ (Busy(c) \/ Wanted(c)),
       verdict |-> IF row.spam THEN "spam" ELSE IF row.promoted THEN "approved" ELSE "none"]

\* RecentDecisions: the ledger; an approval comes first.
Decision(c) == IF candidates[c].promoted THEN "approved" ELSE IF candidates[c].spam THEN "spam" ELSE "none"

\* listDecisions
Ledger == [c \in DOMAIN candidates \ WorkingView |-> Decision(c)]

\* listCandidates: what the page offers for promotion.
Offered == {c \in WorkingView : CandidateView(c).promotable}

CandidateStats ==
  [observed   |-> Cardinality(DOMAIN candidates),
   promoted   |-> Cardinality({c \in DOMAIN candidates : candidates[c].promoted}),
   promotable |-> Cardinality({c \in WorkingView : Busy(c)}),
   spam       |-> Cardinality({c \in DOMAIN candidates : candidates[c].spam})]

-----------------------------------------------------------------------------
Init ==
  /\ chain \in [1 .. InitHead -> Blocks]
  /\ code \in SUBSET Contracts
  /\ \A h \in DOMAIN chain : chain[h] \subseteq code
  /\ floor = 0
  /\ candidates = <<>> /\ cursor = 0
  /\ assets = [c \in Contracts |-> "none"]
  /\ net = [c \in Contracts |-> 0]
  /\ cooldown = [c \in Contracts |-> 0]
  /\ tick = Idle /\ request = <<>>
  /\ passed = {} /\ unread = {}
  /\ \E s \in Scenarios : trouble = [allowed |-> s, seen |-> [d \in Disturbance |-> 0]]

Environment ==
  \/ \E emitters \in Blocks \cap SUBSET code : Mine(emitters) \/ Reorg(emitters)
  \/ \E f \in DOMAIN chain : ResolveHistoryFloor(f)
  \/ \E c \in Contracts :
       \/ Deploy(c) \/ Revoke(c)
       \/ \E n \in 0 .. MaxVote : Vote(c, n)

TickStep ==
  \/ StartTick \/ SweepChunk \/ SetDiscoveryCursor
  \/ QueryPromotable \/ QueryUnseen \/ EndTick
  \/ PromoteDeferred \/ PromoteRegister \/ PromoteMark

Operator ==
  \/ \E c \in Contracts :
       \/ RequestPromotion(c) \/ RegisterLocally(c)
       \/ CandidateVerdict(c)
  \/ FinishPromotion \/ AbortRequest

Next == Environment \/ TickStep \/ PromoteFail \/ AbortTick \/ Operator

Spec == Init /\ [][Next]_vars

\* The ticker fires for as long as the process, or the next one, runs.
FairSpec == Spec /\ WF_vars(TickStep)

-----------------------------------------------------------------------------
(* Properties.                                                             *)

(* Every variable stays in its type.                                       *)
TypeOK ==
  /\ DOMAIN candidates \subseteq Contracts
  /\ \A c \in DOMAIN candidates : candidates[c] \in Candidate
  /\ cursor \in 0 .. MaxHead /\ assets \in [Contracts -> {"none", "indexed", "revoked"}]
  /\ cooldown \in [Contracts -> 0 .. CooldownTicks]

(* Below the cursor no height the node serves is left unread: whatever     *)
(* chunks failed, wherever the process died and however the floor moved,   *)
(* some sweep folded it for every contract not indexed at the time.        *)
NothingMissed == (1 .. cursor) \ unread \subseteq passed

(* Without a reorg no contract has more events counted than it emitted:    *)
(* "The discovery sweep is therefore driven by a monotonic cursor and      *)
(* never replays a range it has already folded in"                         *)
(* (internal/store/discovery.go).                                          *)
NeverReplayed ==
  trouble.seen["reorgs"] = 0 =>
    \A c \in DOMAIN candidates :
      candidates[c].events <= Cardinality({h \in DOMAIN chain : c \in chain[h]})

(* The two places that render a verdict, the candidate's badge and the     *)
(* ledger of decisions, choose differently between two marks, and agree    *)
(* because no sequence of ticks, promotions and verdicts leaves both; the  *)
(* stats' three piles then make up the whole table.                        *)
LedgersAgree ==
  /\ \A c \in DOMAIN Ledger : CandidateView(c).verdict = Ledger[c]
  /\ CandidateStats.observed =
       CandidateStats.promoted + CandidateStats.spam + Cardinality(WorkingView)

(* What the next tick would promote is on the operator's working list and  *)
(* shown as promotable there: two readings of one rule.                    *)
QueueShown == Promotable \subseteq Offered

(* "a tick promotes at most MaxPromotionsPerTick", counted over both of    *)
(* its queues.                                                             *)
BudgetHolds == tick.promoted <= MaxPromotionsPerTick

(* The candidate table's readers and writers agree: operators' ledger,     *)
(* badge, queue and tick, over promotions in two transactions.             *)
CandidatesAgree == TypeOK /\ LedgersAgree /\ QueueShown /\ BudgetHolds

(* A contract that has code and that enough readers keep asking for is     *)
(* indexed in the end, though addresses without code may outrank it and a  *)
(* tick tries only so many: the cooldown makes them give way.              *)
WantedIsIndexed ==
  \A c \in Contracts :
    ~ <>[](c \in code /\ assets[c] = "none" /\ Wanted(c)
           /\ (Seen(c) => ~candidates[c].spam /\ ~candidates[c].promoted))
=============================================================================
