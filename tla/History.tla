------------------------------ MODULE History -------------------------------
(***************************************************************************)
(* How far back a node's history goes, and what the indexer does with the  *)
(* answer: internal/chain/history.go probes the node one block at a time,  *)
(* internal/chain/logs_errors.go decides what a failed answer means,       *)
(* internal/indexer/service.go keeps the floor it found and bounds one     *)
(* asset's backfill with it.  Beside it runs discovery's sweep             *)
(* (internal/chain/source.go), whose candidate rows are the blocks the     *)
(* probe checks the node against.                                          *)
(*                                                                         *)
(* Every eth_getLogs call is one step.  An error is what the classifier    *)
(* looks at: whether the context ended, a JSON-RPC code, an HTTP status,   *)
(* the kinds of wording its message has, and whether it is the network's.  *)
(***************************************************************************)
EXTENDS Integers, FiniteSets, FiniteSetsExt, Sequences

CONSTANTS
  Tip,              \* the head every probe and sweep of a behaviour sees
  Nodes,             \* the nodes to run against
  Attempts,          \* RetryPolicy.Attempts
  MonotonicitySamples,
  WindowMax, WindowMin,  \* ChunkOpts of the sweep
  SweepFrom,         \* where discovery's sweep starts
  HintFromBlock, BackfillWindow, AnchorBlock, \* the asset to backfill
  DiscoveryEnabled,
  MaxNoise, MaxPrunes, MaxRestarts  \* bounds: failed calls, pruned blocks, restarts

Blocks == 0..Tip

\* What a node is: how it answers for a block below its cutoff, which blocks
\* have logs at all, and how many blocks one query may span.
Node == [kind : {"geth", "foreign", "quiet", "light"}, cutoff : Blocks,
         logs : SUBSET Blocks, span : Nat]

ASSUME HistoryAssumption ==
  /\ Tip \in Nat \ {0}
  /\ Nodes \subseteq Node
  /\ Attempts \in Nat \ {0} /\ MonotonicitySamples \in Nat
  /\ WindowMax \in Nat \ {0} /\ WindowMin \in 1..WindowMax
  /\ SweepFrom \in Blocks /\ HintFromBlock \in Blocks
  /\ BackfillWindow \in Nat \ {0} /\ AnchorBlock \in Blocks \ {0}
  /\ DiscoveryEnabled \in BOOLEAN
  /\ MaxNoise \in Nat /\ MaxPrunes \in Nat /\ MaxRestarts \in Nat

VARIABLES
  node,        \* the node, whose cutoff may rise
  candidates,  \* first_seen_block of the candidate rows
  memory,      \* s.historyFloor, s.floorProbed
  stored,      \* chains.history_floor, chains.history_probed_at
  cursor,      \* the asset's cursor
  pc,          \* where the backfill goroutine is
  probe,       \* ProbeHistoryFloor's locals
  sweep,       \* SweepLogs' locals
  noise, prunes, restarts  \* what has happened, against the bounds

historyVars == <<node, candidates, memory, stored, cursor, pc, probe, sweep, noise, prunes, restarts>>

---------------------------------------------------------------------------
(* Errors and what they mean. *)

Error(ctx, code, http, says, net) ==
  [ctx |-> ctx, code |-> code, http |-> http, says |-> says, net |-> net]

\* What a node answers for a block it does not hold.
Refusals(kind) ==
  IF kind = "foreign" THEN {Error(FALSE, -32000, 0, {}, FALSE)}
  ELSE {Error(FALSE, 4444, 0, {"history"}, FALSE),
        Error(FALSE, -32000, 0, {"history"}, FALSE),
        Error(FALSE, -32000, 0, {"history", "transient"}, FALSE)}

\* What goes wrong with a call whatever the block: deadlines, rate limits, a
\* proxy's status page, a lost connection, and one answer nobody recognises.
Glitches ==
  {Error(TRUE, 0, 0, {"transient"}, FALSE), Error(FALSE, -32005, 0, {"range"}, FALSE),
   Error(FALSE, 0, 503, {"transient"}, FALSE), Error(FALSE, 0, 404, {}, FALSE),
   Error(FALSE, 0, 0, {}, TRUE), Error(FALSE, -32000, 0, {"transient"}, FALSE),
   Error(FALSE, -32601, 0, {}, FALSE)}

TooWide == Error(FALSE, -32000, 0, {"range"}, FALSE)

\* A message that names what is missing.
SaysHistory(e) == "history" \in e.says

\* A message in the words of a failure of the moment.
SaysTransient(e) == "transient" \in e.says

\* A gateway's status, 404 included, says nothing about the block.
StatusIsTransient(e) == e.http \in {429, 500, 502, 503, 504, 408, 404}

\* Only what the network or the client library did.
IsConnection(e) == e.net

\* Faulty variant of ClassifyLogsError: a 404 page read as an answer about the block.
ClassifyStatusOnly(e) ==
  IF e.ctx THEN "transient"
  ELSE IF e.code = 4444 THEN "history"
  ELSE IF e.code \in {-32002, -32005} THEN "transient"
  ELSE IF SaysHistory(e) \/ e.http = 404 THEN "history"
  ELSE IF e.http # 0 \/ IsConnection(e) \/ SaysTransient(e) THEN "transient"
  ELSE "unknown"

\* The first test that applies decides.
ClassifyLogsError(e) ==
  IF e.ctx THEN "transient"
  ELSE IF e.code = 4444 THEN "history"
  ELSE IF e.code \in {-32002, -32005} THEN "transient"
  ELSE IF e.code \in {-32601, -32600} THEN "unknown"
  ELSE IF StatusIsTransient(e) THEN "transient"
  ELSE IF SaysHistory(e) THEN "history"
  ELSE IF IsConnection(e) \/ SaysTransient(e) THEN "transient"
  ELSE "unknown"

IsRangeLimit(e) == "range" \in e.says

---------------------------------------------------------------------------
(* The node. *)

\* Whether the node refuses a block: a light client answers one without logs
\* from its bloom, a quiet node answers everything.
Refused(n) ==
  /\ n < node.cutoff
  /\ CASE node.kind = "quiet" -> FALSE
       [] node.kind = "light" -> n \in node.logs
       [] OTHER -> TRUE

\* The blocks of a range whose logs an answer carries.
Served(from, to) ==
  {n \in node.logs \cap (from..to) : node.kind = "quiet" => n >= node.cutoff}

Answered == [ok |-> TRUE]
Failed(e) == [ok |-> FALSE, err |-> e]

\* eth_getLogs over a range.
Logs(from, to) ==
  IF \E n \in from..to : Refused(n) THEN {Failed(e) : e \in Refusals(node.kind)}
  ELSE IF to - from + 1 > node.span THEN {Failed(TooWide)}
  ELSE {Answered}

\* One call: the reply is the node's, or a disturbance the bound still allows.
Call(from, to, P(_)) ==
  \/ noise' = noise /\ \E r \in Logs(from, to) : P(r)
  \/ noise < MaxNoise /\ noise' = noise + 1 /\ \E e \in Glitches : P(Failed(e))

\* Something else that went wrong: a head call, a statement of the database.
Mishap == noise < MaxNoise /\ noise' = noise + 1

Prune ==
  /\ node.cutoff < Tip /\ prunes < MaxPrunes
  /\ node' = [node EXCEPT !.cutoff = @ + 1]
  /\ prunes' = prunes + 1
  /\ UNCHANGED <<candidates, memory, stored, cursor, pc, probe, sweep, noise, restarts>>

---------------------------------------------------------------------------
(* ProbeHistoryFloor. *)

NoBlock == -1

NoProbe ==
  [stage |-> "off", caller |-> "none", lo |-> 0, hi |-> 0, tries |-> 1, sample |-> 0,
   bad |-> NoBlock, floor |-> 0, boundary |-> "none", anchor |-> NoBlock, since |-> 0]

\* since is the cutoff when the probe began, for the properties below.
Fresh(caller) == [NoProbe EXCEPT !.stage = "begin", !.caller = caller, !.since = node.cutoff]

\* Who waits for the probe goes on from here, whatever it found.
Return(caller) == IF caller = "ensure" THEN "walk" ELSE "idle"

GiveUp ==
  /\ probe' = NoProbe /\ pc' = Return(probe.caller)
  /\ UNCHANGED <<memory, stored>>

Goto(p) ==
  /\ probe' = [p EXCEPT !.tries = 1]
  /\ UNCHANGED <<pc, memory, stored>>

\* The last check: the anchor, when the node claims to serve its block.
Anchored(p) ==
  [p EXCEPT !.stage = IF p.anchor # NoBlock /\ p.anchor <= Tip /\ p.anchor >= p.floor
                      THEN "anchor" ELSE "accept"]

\* lo is known to be refused, hi to be served; the search ends when they meet.
Narrowed(p) ==
  IF p.hi - p.lo > 1 THEN p ELSE Anchored([p EXCEPT !.floor = p.hi])

Mid(p) == p.lo + ((p.hi - p.lo) \div 2)

Searched(p, ok, kind) ==
  Narrowed(IF ok THEN [p EXCEPT !.hi = Mid(p)]
           ELSE [p EXCEPT !.lo = Mid(p), !.boundary = kind])

SampleAt(i) == (Tip * i) \div (MonotonicitySamples + 1)

\* Where a claim of full history goes next: the samples from the i-th on, then a
\* search above the highest block one of them found refused, if one did.
Sampling(p, i) ==
  LET left == {j \in i..MonotonicitySamples : SampleAt(j) \in 1..(Tip - 1)}
  IN  IF left # {} THEN [p EXCEPT !.stage = "sample", !.sample = Min(left)]
      ELSE IF p.bad = NoBlock THEN Anchored(p)
      ELSE Narrowed([p EXCEPT !.stage = "bisect", !.lo = p.bad, !.hi = Tip])

\* highestUnservable: only a definite answer is evidence.
HighestUnservable(p, ok, kind) ==
  Sampling(IF ~ok /\ kind = "history"
           THEN [p EXCEPT !.bad = SampleAt(p.sample), !.boundary = kind] ELSE p,
           p.sample + 1)

\* Which block the probe asks about.
Asked(p) ==
  CASE p.stage = "head" -> Tip
    [] p.stage = "genesis" -> 0
    [] p.stage \in {"search", "bisect"} -> Mid(p)
    [] p.stage = "sample" -> SampleAt(p.sample)
    [] p.stage = "anchor" -> p.anchor

Kind(r) == IF r.ok THEN "none" ELSE ClassifyLogsError(r.err)

\* A call of the given stage that brought an answer, about which P holds.
Learn(stage, P(_)) ==
  /\ pc = "probe" /\ probe.stage = stage
  /\ Call(Asked(probe), Asked(probe), LAMBDA r : Kind(r) # "transient" /\ P(r))
  /\ UNCHANGED <<node, candidates, cursor, sweep, prunes, restarts>>

\* A transient failure is retried, never counted; when the tries are used up
\* there is no floor.
RetryTransient ==
  /\ pc = "probe" /\ probe.stage \notin {"off", "begin", "accept"}
  /\ Call(Asked(probe), Asked(probe), LAMBDA r : Kind(r) = "transient")
  /\ IF probe.tries >= Attempts THEN GiveUp
     ELSE /\ probe' = [probe EXCEPT !.tries = @ + 1]
          /\ UNCHANGED <<pc, memory, stored>>
  /\ UNCHANGED <<node, candidates, cursor, sweep, prunes, restarts>>

ProbeHead ==
  Learn("head", LAMBDA r : IF r.ok THEN Goto([probe EXCEPT !.stage = "genesis"]) ELSE GiveUp)

ProbeGenesis ==
  Learn("genesis", LAMBDA r :
    Goto(IF r.ok THEN Sampling(probe, 1)
         ELSE Narrowed([probe EXCEPT !.stage = "search", !.lo = 0, !.hi = Tip,
                                     !.boundary = Kind(r)])))

ProbeSearch ==
  Learn("search", LAMBDA r : Goto(Searched(probe, r.ok, Kind(r))))

ProbeSample ==
  Learn("sample", LAMBDA r : Goto(HighestUnservable(probe, r.ok, Kind(r))))

ProbeBisect ==
  Learn("bisect", LAMBDA r : Goto(Searched(probe, r.ok, Kind(r))))

\* The anchor's block was read once: an answer without logs is a node that
\* reports what it dropped as empty.
ProbeAnchor ==
  Learn("anchor", LAMBDA r :
    IF r.ok /\ Served(probe.anchor, probe.anchor) # {}
    THEN Goto([probe EXCEPT !.stage = "accept"]) ELSE GiveUp)

---------------------------------------------------------------------------
(* The service. *)

OldestCandidateBlock == IF candidates = {} THEN NoBlock ELSE Min(candidates)

\* resolveHistoryFloor asks for the head, then for an anchor; without the
\* latter it probes all the same.
ResolveBegin ==
  /\ pc = "probe" /\ probe.stage = "begin"
  /\ \/ noise' = noise /\ Goto([probe EXCEPT !.stage = "head", !.anchor = OldestCandidateBlock])
     \/ Mishap /\ Goto([probe EXCEPT !.stage = "head"])
     \/ Mishap /\ GiveUp
  /\ UNCHANGED <<node, candidates, cursor, sweep, prunes, restarts>>

\* The floor is kept in memory, then written; the write may fail.
SetHistoryFloor ==
  /\ pc = "probe" /\ probe.stage = "accept"
  /\ memory' = [floor |-> probe.floor, probed |-> TRUE]
  /\ \/ noise' = noise /\ stored' = memory'
     \/ Mishap /\ stored' = stored
  /\ probe' = NoProbe /\ pc' = Return(probe.caller)
  /\ UNCHANGED <<node, candidates, cursor, sweep, prunes, restarts>>

\* What the store reads back before a probe has been recorded.
Unprobed == [floor |-> 0, probed |-> FALSE]

BeginProbe(caller) == probe' = Fresh(caller) /\ pc' = "probe"

ShouldProbeFloor == DiscoveryEnabled \/ ~cursor.done

\* Run: a stored floor is adopted as it is.
AdoptStoredFloor ==
  /\ pc = "start"
  /\ \/ /\ Mishap
        /\ pc' = "idle" /\ UNCHANGED <<memory, probe>>
     \/ /\ noise' = noise
        /\ CASE stored.probed -> memory' = stored /\ pc' = "idle" /\ UNCHANGED probe
             [] ~stored.probed /\ ShouldProbeFloor ->
                  BeginProbe("startup") /\ UNCHANGED memory
             [] OTHER -> pc' = "idle" /\ UNCHANGED <<memory, probe>>
  /\ UNCHANGED <<node, candidates, stored, cursor, sweep, prunes, restarts>>

\* A backfill tick buys the floor first, if start-up did not.
EnsureHistoryFloor ==
  /\ pc = "idle" /\ ~cursor.done
  /\ IF memory.probed THEN pc' = "walk" /\ UNCHANGED probe ELSE BeginProbe("ensure")
  /\ UNCHANGED <<node, candidates, memory, stored, cursor, sweep, noise, prunes, restarts>>

BackfillFloor == Max({HintFromBlock, memory.floor})

\* Faulty variant of ReprobeHistoryFloor: a failed window is simply tried again.
RetrySameWindow == pc' = "idle" /\ UNCHANGED probe

ReprobeHistoryFloor == BeginProbe("reprobe")

\* The window a walk reads next.
WindowFrom == Max({BackfillFloor, cursor.next - BackfillWindow + 1})

\* A step of the walk, between the calls of the same goroutine.
Walking(at) ==
  /\ pc = at
  /\ UNCHANGED <<node, candidates, memory, stored, sweep, prunes, restarts>>

\* With nothing left above the floor the walk is done; otherwise the floor is stored before
\* a log is read.
BackfillAsset ==
  /\ Walking("walk")
  /\ IF cursor.next < BackfillFloor THEN pc' = "done" /\ UNCHANGED cursor
     ELSE pc' = "read" /\ cursor' = [cursor EXCEPT !.floor = BackfillFloor]
  /\ UNCHANGED <<probe, noise>>

\* A window that failed asks again how far back the node goes; the window is
\* tried again on the next tick, under the floor the answer left.
BackfillRead ==
  /\ Walking("read")
  /\ Call(WindowFrom, cursor.next, LAMBDA r :
       IF r.ok THEN pc' = "advance" /\ UNCHANGED probe ELSE ReprobeHistoryFloor)
  /\ UNCHANGED cursor

AdvanceBackfill ==
  LET done == WindowFrom <= BackfillFloor
  IN  /\ Walking("advance")
      /\ cursor' = [cursor EXCEPT !.next = Max({WindowFrom - 1, 0}), !.done = done]
      /\ pc' = IF done THEN "done" ELSE "idle"
      /\ UNCHANGED <<probe, noise>>

\* finishBackfill, first statement; no tick visits the asset again.
FinishDone ==
  /\ Walking("done")
  /\ cursor' = [cursor EXCEPT !.next = 0, !.done = TRUE]
  /\ pc' = "keep"
  /\ UNCHANGED <<probe, noise>>

\* ... second: the floor; the third is the asset's status, which is Indexer's.
FinishFloor ==
  /\ Walking("keep")
  /\ cursor' = [cursor EXCEPT !.floor = BackfillFloor]
  /\ pc' = "idle"
  /\ UNCHANGED <<probe, noise>>

\* One of the walk's statements fails.
FailBackfill ==
  /\ \E at \in {"walk", "advance", "done", "keep"} : Walking(at)
  /\ Mishap
  /\ pc' = "idle"
  /\ UNCHANGED <<cursor, probe>>

Restart ==
  /\ restarts < MaxRestarts
  /\ restarts' = restarts + 1
  /\ pc' = "start" /\ memory' = Unprobed
  /\ probe' = NoProbe
  /\ sweep' = IF sweep.state = "on" THEN [sweep EXCEPT !.state = "off"] ELSE sweep
  /\ UNCHANGED <<node, candidates, stored, cursor, noise, prunes>>

---------------------------------------------------------------------------
(* SweepLogs, as discovery calls it. *)

NoSweep == [state |-> "off", cursor |-> SweepFrom, window |-> WindowMax, seen |-> <<>>]

SweepBegin ==
  /\ DiscoveryEnabled /\ sweep.state = "off" /\ pc # "start"
  /\ sweep' = [NoSweep EXCEPT !.state = "on"]
  /\ UNCHANGED <<node, candidates, memory, stored, cursor, pc, probe, noise, prunes, restarts>>

Least(a, b) == Min({a, b})

\* Faulty variant of Advanced: on by the full window, whatever was really read.
AdvancedSkipping(end) ==
  [sweep EXCEPT !.cursor = sweep.cursor + WindowMax,
                !.seen = @ \o [i \in 1..(end - sweep.cursor + 1) |-> sweep.cursor + i - 1],
                !.window = Least(WindowMax, 2 * @),
                !.state = IF sweep.cursor + WindowMax > Tip THEN "done" ELSE "on"]

\* A sweep that is not finished goes on, with its window creeping back up.
Advanced(end) ==
  [sweep EXCEPT !.cursor = end + 1,
                !.seen = @ \o [i \in 1..(end - sweep.cursor + 1) |-> sweep.cursor + i - 1],
                !.window = Least(WindowMax, 2 * @),
                !.state = IF end + 1 > Tip THEN "done" ELSE "on"]

Halved == [sweep EXCEPT !.window = Max({WindowMin, @ \div 2})]

Aborted == [sweep EXCEPT !.state = "off"]

\* One window: too wide is halved, any other failure ends the sweep, and so does
\* a callback that could not store what was read.
SweepWindow ==
  LET end == Least(Tip, sweep.cursor + sweep.window - 1)
  IN  /\ sweep.state = "on"
      /\ \/ /\ Mishap
            /\ sweep' = Aborted /\ UNCHANGED candidates
         \/ Call(sweep.cursor, end, LAMBDA r :
              CASE r.ok -> /\ candidates' = candidates \cup Served(sweep.cursor, end)
                           /\ sweep' = Advanced(end)
                [] ~r.ok /\ sweep.window > WindowMin /\ IsRangeLimit(r.err) ->
                     sweep' = Halved /\ UNCHANGED candidates
                [] OTHER -> sweep' = Aborted /\ UNCHANGED candidates)
      /\ UNCHANGED <<node, memory, stored, cursor, pc, probe, prunes, restarts>>

---------------------------------------------------------------------------

HistoryInit ==
  /\ node \in Nodes
  /\ candidates = {}
  /\ memory = Unprobed /\ stored = Unprobed
  /\ cursor = [next |-> AnchorBlock - 1, floor |-> 0, done |-> FALSE]
  /\ pc = "start" /\ probe = NoProbe /\ sweep = NoSweep
  /\ noise = 0 /\ prunes = 0 /\ restarts = 0

BackfillStep ==
  \/ AdoptStoredFloor \/ EnsureHistoryFloor
  \/ BackfillAsset \/ BackfillRead \/ AdvanceBackfill \/ FinishDone \/ FinishFloor
  \/ ResolveBegin \/ RetryTransient \/ ProbeHead \/ ProbeGenesis \/ ProbeSearch
  \/ ProbeSample \/ ProbeBisect \/ ProbeAnchor \/ SetHistoryFloor

HistoryNext == BackfillStep \/ FailBackfill \/ SweepBegin \/ SweepWindow \/ Prune \/ Restart

HistorySpec == HistoryInit /\ [][HistoryNext]_historyVars

FairHistory == HistorySpec /\ WF_historyVars(BackfillStep)

---------------------------------------------------------------------------
(* What the floor is worth. *)

Honest == node.kind \in {"geth", "foreign"}

\* A node that refuses what it pruned is believed and nothing else is: a floor about
\* to be kept (history.go, ProbeHistoryFloor) is no lower than the node's cutoff was
\* when the probe began, and, unless the result says it rests on an answer nobody
\* recognised, no higher than the cutoff is now.  Pruning during the search, rate
\* limits, proxies' status pages and retries do not move it.
FloorIsHorizon ==
  probe.stage = "accept" /\ Honest =>
    /\ probe.since <= probe.floor
    /\ probe.boundary # "unknown" => probe.floor <= node.cutoff

\* A node that reports pruned blocks as empty is found out as far as discovery has
\* read: no floor at or below a candidate's block is kept unless the node still held
\* that block during the probe (history_anchor.go).
AnchorWasServed ==
  probe.stage = "accept" /\ probe.anchor # NoBlock /\ probe.floor <= probe.anchor
    => probe.since <= probe.anchor

\* The floor a probe is about to keep is the node's, of whichever kind the node is.
ProbeSound == FloorIsHorizon /\ AnchorWasServed

\* A sweep hands every block of its range to the callback once and in ascending
\* order, however its windows were halved and widened (source.go, SweepLogs).
SweepTiles ==
  /\ sweep.seen = [i \in 1..(sweep.cursor - SweepFrom) |-> SweepFrom + i - 1]
  /\ sweep.state = "done" => sweep.cursor = Tip + 1

\* A backfill ends, although the node prunes blocks under it, calls fail and the
\* process restarts with a floor that is out of date (service.go, backfillAsset),
\* against a node that refuses what it dropped and answers a whole window.
WalkEnds == Honest /\ node.span >= BackfillWindow ~> cursor.done
=============================================================================
