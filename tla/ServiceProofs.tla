---------------------------- MODULE ServiceProofs ----------------------------
(***************************************************************************)
(* Theorems about three components that share no state: the history floor  *)
(* probe and the sweep it serves (History), aliases and account hints      *)
(* (Names), and what is served of an epoch and comes back from its copies  *)
(* (Merkle, Artefacts, Recovery).                                          *)
(*                                                                         *)
(* History: for every node, tip, window and number of samples, however     *)
(* often calls fail, blocks are pruned and the process restarts.           *)
(*                                                                         *)
(* Names: for any accounts, labels, deadlines and number of requests.  The *)
(* last word of an account stands because every signature in circulation,  *)
(* kept by its reader, held by a request or waiting in the pool, names a   *)
(* nonce the account has not passed, and the nonce it names tells how many *)
(* withdrawals it had seen.                                                *)
(*                                                                         *)
(* Recovery: for any logs, accounts, assets, requests and batches, however *)
(* the rollup moves under a build, and through losses and restores.  A     *)
(* path of siblings leads to one leaf only, so an answer that verifies is  *)
(* about a leaf of the tree, and lists with one root have the same leaves, *)
(* so a copy that verifies is whole.  An index in order is determined by   *)
(* its leaves, so the tables a restore fills from such a copy give back    *)
(* both roots.                                                             *)
(***************************************************************************)
EXTENDS History, Names, Recovery, FiniteSetTheorems, WellFoundedInduction, TLAPS

-----------------------------------------------------------------------------
(* The sweep.                                                              *)

Sweep == [state : {"off", "on", "done"}, cursor : SweepFrom .. (Tip + 1),
          window : WindowMin .. WindowMax, seen : Seq(Int)]

\* SweepTiles is kept by a window that is at least one block wide and begins at or below
\* the tip, whatever its width has become.
SweepInv ==
  /\ sweep \in Sweep
  /\ sweep.state = "on" => sweep.cursor <= Tip
  /\ SweepTiles

-----------------------------------------------------------------------------
(* The probe.                                                              *)

Stages == {"off", "begin", "head", "genesis", "search", "sample", "bisect", "anchor", "accept"}

Probe ==
  [stage : Stages, caller : {"none", "startup", "ensure", "reprobe"}, lo : Nat, hi : Nat,
   tries : Nat, sample : Nat, bad : Int, floor : Nat,
   boundary : {"none", "history", "unknown"}, anchor : Int, since : Nat]

\* A node that refuses what it dropped.
Believed(n) == n.kind \in {"geth", "foreign"}

\* What a probe p knows of node n, stage by stage.
Knows(p, n) ==
  /\ p.stage # "off" => p.since <= n.cutoff
  /\ p.stage \in {"begin", "head", "genesis"} =>
       p.bad = NoBlock /\ p.floor = 0 /\ p.boundary = "none"
  /\ p.stage \in {"search", "bisect"} =>
       /\ p.hi - p.lo > 1 /\ p.hi <= Tip
       /\ Believed(n) => p.since <= p.hi /\ (p.boundary # "unknown" => p.lo < n.cutoff)
  /\ p.stage = "sample" =>
       /\ SampleAt(p.sample) \in 1 .. (Tip - 1)
       /\ p.floor = 0 /\ (p.bad = NoBlock => p.boundary = "none")
       /\ p.bad # NoBlock => p.bad \in 1 .. (Tip - 1) /\ p.boundary = "history"
       /\ Believed(n) => p.since = 0 /\ p.bad < n.cutoff
  /\ p.stage \in {"anchor", "accept"} /\ Believed(n) =>
       p.since <= p.floor /\ (p.boundary # "unknown" => p.floor <= n.cutoff)
  /\ p.stage = "accept" /\ p.anchor # NoBlock /\ p.floor <= p.anchor => p.since <= p.anchor

\* ProbeSound speaks of the last stage only; what makes it true there is what each answer
\* taught the probe on the way, none of which pruning takes back.
ProbeInv ==
  /\ node \in Node
  /\ candidates \subseteq Nat
  /\ probe \in Probe
  /\ Knows(probe, node)

-----------------------------------------------------------------------------
(* Facts about the smaller and the larger of two numbers.                  *)

\* A set of numbers has a least element.
LEMMA LeastOf ==
  ASSUME NEW B, B \subseteq Nat, B # {}
  PROVE  Min(B) \in B /\ \A m \in B : Min(B) <= m
<1>1. PICK n \in B : \A m \in B : ~(<<m, n>> \in OpToRel(<, Nat))
  BY NatLessThanWellFounded, WFMin
<1>2. \A m \in B : ~(m < n)
  BY <1>1 DEF OpToRel
<1>3. \A m \in B : n <= m
  BY <1>2
<1>4. \E x \in B : \A m \in B : x <= m
  BY <1>3
<1> QED BY <1>4 DEF Min

\* Least is the smaller of two numbers.
LEMMA LeastOfTwo ==
  ASSUME NEW a \in Int, NEW b \in Int
  PROVE  /\ Least(a, b) \in {a, b} /\ Least(a, b) <= a /\ Least(a, b) <= b
<1>1. \E x \in {a, b} : \A y \in {a, b} : x <= y
  OBVIOUS
<1> QED BY <1>1 DEF Least, Min

\* The larger of two numbers.
Largest(a, b) == Max({a, b})

LEMMA LargestOfTwo ==
  ASSUME NEW a \in Int, NEW b \in Int
  PROVE  /\ Largest(a, b) \in {a, b} /\ Largest(a, b) >= a /\ Largest(a, b) >= b
<1>1. \E x \in {a, b} : \A y \in {a, b} : x >= y
  OBVIOUS
<1> QED BY <1>1 DEF Largest, Max

-----------------------------------------------------------------------------
(* The sweep hands on every block once.                                    *)

\* The blocks from a up to but not including c.
Tiles(a, c) == [i \in 1 .. (c - a) |-> a + i - 1]

\* A window's blocks follow those handed on before.
LEMMA Tiled ==
  ASSUME NEW a \in Int, NEW c \in Int, NEW d \in Int, a <= c, c <= d
  PROVE  Tiles(a, c) \o Tiles(c, d) = Tiles(a, d) /\ Tiles(a, d) \in Seq(Int)
<1>1. PICK n \in Nat, m \in Nat : n = c - a /\ m = d - c
  <2>1. c - a \in Nat /\ d - c \in Nat
    OBVIOUS
  <2> QED BY <2>1
<1> DEFINE s == [i \in 1 .. n |-> a + i - 1]
           u == [i \in 1 .. m |-> c + i - 1]
           w == [i \in 1 .. (n + m) |-> a + i - 1]
<1>2. s \in Seq(Int) /\ Len(s) = n
  <2>1. \A i \in 1 .. n : a + i - 1 \in Int
    OBVIOUS
  <2> QED BY <2>1
<1>3. u \in Seq(Int) /\ Len(u) = m
  <2>1. \A i \in 1 .. m : c + i - 1 \in Int
    OBVIOUS
  <2> QED BY <2>1
<1>4. w \in Seq(Int) /\ Len(w) = n + m
  <2>1. \A i \in 1 .. (n + m) : a + i - 1 \in Int
    OBVIOUS
  <2> QED BY <2>1
<1>5. PICK v : v = s \o u
  OBVIOUS
<1>6. v \in Seq(Int) /\ Len(v) = n + m
  BY <1>2, <1>3, <1>5
<1>7. ASSUME NEW i \in 1 .. (n + m) PROVE v[i] = w[i]
  <2>1. w[i] = a + i - 1
    OBVIOUS
  <2>2. CASE i <= n
    <3>1. v[i] = s[i]
      BY <1>2, <1>3, <1>5, <2>2
    <3>2. s[i] = a + i - 1
      BY <1>2, <2>2
    <3> QED BY <2>1, <3>1, <3>2
  <2>3. CASE i > n
    <3>1. v[i] = u[i - n]
      BY <1>2, <1>3, <1>5, <2>3
    <3>2. i - n \in 1 .. m
      BY <2>3
    <3>3. u[i - n] = c + (i - n) - 1
      BY <3>2
    <3> QED BY <1>1, <2>1, <3>1, <3>3
  <2> QED BY <2>2, <2>3
<1>8. v = w
  BY <1>4, <1>6, <1>7
<1>9. s = Tiles(a, c) /\ u = Tiles(c, d)
  BY <1>1 DEF Tiles
<1>10. w = Tiles(a, d)
  <2>1. n + m = d - a
    BY <1>1
  <2> QED BY <2>1 DEF Tiles
<1> HIDE DEF s, u, w
<1> QED BY <1>4, <1>5, <1>8, <1>9, <1>10

\* A window that was read.
LEMMA AdvancedTiles ==
  ASSUME SweepInv, sweep.state = "on", NEW end,
         end = Least(Tip, sweep.cursor + sweep.window - 1), sweep' = Advanced(end)
  PROVE  SweepInv'
<1>1. /\ Tip \in Nat /\ SweepFrom \in Nat /\ SweepFrom <= Tip
      /\ WindowMin \in Nat /\ WindowMax \in Nat /\ 1 <= WindowMin /\ WindowMin <= WindowMax
  BY HistoryAssumption DEF Blocks
<1>2. PICK c \in SweepFrom .. (Tip + 1), w \in WindowMin .. WindowMax, s \in Seq(Int) :
        sweep = [state |-> "on", cursor |-> c, window |-> w, seen |-> s]
  BY DEF SweepInv, Sweep
<1>3. c <= Tip /\ s = [i \in 1 .. (c - SweepFrom) |-> SweepFrom + i - 1]
  BY <1>2 DEF SweepInv, SweepTiles
<1>4. end \in Int /\ c <= end /\ end <= Tip
  <2>1. sweep.cursor = c /\ sweep.window = w
    BY <1>2
  <2>2. c + w - 1 \in Int /\ c <= c + w - 1
    BY <1>1
  <2> QED BY <1>1, <1>3, <2>1, <2>2, LeastOfTwo
<1>5. PICK w1 : w1 = Least(WindowMax, 2 * w)
  OBVIOUS
<1>6. w1 \in WindowMin .. WindowMax
  <2>1. 2 * w \in Int /\ WindowMin <= 2 * w
    BY <1>1
  <2> QED BY <1>1, <1>5, <2>1, LeastOfTwo
<1>7. PICK s1 : s1 = s \o [i \in 1 .. (end - c + 1) |-> c + i - 1]
  OBVIOUS
<1>8. s1 = Tiles(SweepFrom, end + 1) /\ s1 \in Seq(Int)
  <2>1. s = Tiles(SweepFrom, c)
    BY <1>3 DEF Tiles
  <2>2. PICK d \in Int : d = end + 1 /\ d - c = end - c + 1 /\ c <= d
    BY <1>4
  <2>3. [i \in 1 .. (end - c + 1) |-> c + i - 1] = Tiles(c, d)
    BY <2>2 DEF Tiles
  <2>4. SweepFrom \in Int /\ c \in Int /\ SweepFrom <= c
    BY <1>1
  <2>5. s1 = Tiles(SweepFrom, c) \o Tiles(c, d)
    <3>1. s1 = s \o Tiles(c, d)
      BY <1>7, <2>3, Zenon
    <3> QED BY <2>1, <3>1, Zenon
  <2>6. s1 = Tiles(SweepFrom, d) /\ Tiles(SweepFrom, d) \in Seq(Int)
    BY ONLY <2>2, <2>4, <2>5, Tiled, d \in Int
  <2> QED BY <2>2, <2>6
<1>9. PICK x \in {"done", "on"} : x = IF end + 1 > Tip THEN "done" ELSE "on"
  OBVIOUS
<1>10. sweep' = [state |-> x, cursor |-> end + 1, window |-> w1, seen |-> s1]
  <2>1. sweep' = [sweep EXCEPT !.cursor = end + 1, !.seen = s1, !.window = w1, !.state = x]
    BY <1>2, <1>5, <1>7, <1>9 DEF Advanced
  <2> QED BY <1>2, <2>1
<1>11. sweep' \in Sweep
  <2>1. end + 1 \in SweepFrom .. (Tip + 1) /\ x \in {"off", "on", "done"} /\ s1 \in Seq(Int)
    BY <1>1, <1>4, <1>8
  <2> QED BY ONLY <1>6, <1>10, <2>1 DEF Sweep
<1>12. sweep'.state = x /\ sweep'.cursor = end + 1 /\ sweep'.seen = s1
  BY <1>10
<1>13. (x = "on" => end + 1 <= Tip) /\ (x = "done" => end + 1 = Tip + 1)
  BY <1>1, <1>4, <1>9
<1>14. SweepTiles'
  <2>1. sweep'.seen = Tiles(SweepFrom, sweep'.cursor)
    BY <1>8, <1>12
  <2>2. sweep'.seen = [i \in 1 .. (sweep'.cursor - SweepFrom) |-> SweepFrom + i - 1]
    BY <2>1 DEF Tiles
  <2> QED BY <1>12, <1>13, <2>2 DEF SweepTiles
<1> QED BY <1>11, <1>12, <1>13, <1>14 DEF SweepInv

\* A sweep hands every block of its range to the callback once and in ascending order,
\* however its windows are halved and widened, the node refuses or the process restarts
\* (source.go, SweepLogs), for every tip, window and start.
THEOREM SweepAlwaysTiles == HistorySpec => []SweepTiles
<1>1. /\ Tip \in Nat /\ SweepFrom \in Nat /\ SweepFrom <= Tip
      /\ WindowMin \in Nat /\ WindowMax \in Nat /\ 1 <= WindowMin /\ WindowMin <= WindowMax
  BY HistoryAssumption DEF Blocks
<1>2. /\ NoSweep \in Sweep /\ NoSweep.state = "off" /\ NoSweep.cursor = SweepFrom
      /\ NoSweep.seen = <<>> /\ NoSweep.window = WindowMax
  BY <1>1 DEF NoSweep, Sweep
<1>3. <<>> = [i \in 1 .. (SweepFrom - SweepFrom) |-> SweepFrom + i - 1]
  BY <1>1
<1>4. HistoryInit => SweepInv
  BY <1>2, <1>3 DEF HistoryInit, SweepInv, SweepTiles
<1>5. SweepInv /\ [HistoryNext]_historyVars => SweepInv'
  <2> SUFFICES ASSUME SweepInv, [HistoryNext]_historyVars PROVE SweepInv'
    OBVIOUS
  <2>1. ASSUME sweep' = sweep PROVE SweepInv'
    BY <2>1 DEF SweepInv, SweepTiles
  <2>2. CASE BackfillStep \/ FailBackfill \/ Prune \/ UNCHANGED historyVars
    <3>1. sweep' = sweep
      BY <2>2 DEF BackfillStep, AdoptStoredFloor, EnsureHistoryFloor, BackfillAsset, BackfillRead,
        AdvanceBackfill, FinishDone, FinishFloor, FailBackfill, Walking, ResolveBegin, RetryTransient, ProbeHead, ProbeGenesis, ProbeSearch, ProbeSample,
        ProbeBisect, ProbeAnchor, SetHistoryFloor, Learn, Prune, historyVars
    <3> QED BY <2>1, <3>1
  <2>3. PICK x \in {"off", "on", "done"}, c \in SweepFrom .. (Tip + 1), w \in WindowMin .. WindowMax,
             s \in Seq(Int) : sweep = [state |-> x, cursor |-> c, window |-> w, seen |-> s]
    BY DEF SweepInv, Sweep
  <2>4. /\ s = [i \in 1 .. (c - SweepFrom) |-> SweepFrom + i - 1]
        /\ (x = "on" => c <= Tip) /\ (x = "done" => c = Tip + 1)
    BY <2>3 DEF SweepInv, SweepTiles
  <2>5. ASSUME NEW y \in {"off", "on"}, y = "on" => x = "on", NEW w1 \in WindowMin .. WindowMax,
               sweep' = [state |-> y, cursor |-> c, window |-> w1, seen |-> s]
        PROVE  SweepInv'
    <3>1. sweep' \in Sweep /\ sweep'.state = y /\ sweep'.cursor = c /\ sweep'.seen = s
      BY <2>5 DEF Sweep
    <3> QED BY <2>4, <2>5, <3>1 DEF SweepInv, SweepTiles
  <2>6. CASE SweepBegin
    <3>1. sweep' = [state |-> "on", cursor |-> SweepFrom, window |-> WindowMax, seen |-> <<>>]
      BY <2>6 DEF SweepBegin, NoSweep
    <3>2. /\ sweep' \in Sweep /\ sweep'.state = "on" /\ sweep'.cursor = SweepFrom
          /\ sweep'.seen = <<>>
      BY <1>1, <3>1 DEF Sweep
    <3> QED BY <1>1, <1>3, <3>2 DEF SweepInv, SweepTiles
  <2>7. CASE Restart
    <3>1. CASE x = "on"
      <4>1. sweep' = [state |-> "off", cursor |-> c, window |-> w, seen |-> s]
        BY <2>3, <2>7, <3>1 DEF Restart
      <4> QED BY <2>5, <4>1
    <3>2. CASE x # "on"
      BY <2>1, <2>3, <2>7, <3>2 DEF Restart
    <3> QED BY <3>1, <3>2
  <2>8. CASE SweepWindow
    <3> DEFINE end == Least(Tip, sweep.cursor + sweep.window - 1)
    <3>1. sweep.state = "on" /\ (sweep' = Aborted \/ sweep' = Halved \/ sweep' = Advanced(end))
      BY <2>8 DEF SweepWindow, Call
    <3>2. CASE sweep' = Aborted
      <4>1. sweep' = [state |-> "off", cursor |-> c, window |-> w, seen |-> s]
        BY <2>3, <3>2 DEF Aborted
      <4> QED BY <2>5, <4>1
    <3>3. CASE sweep' = Halved
      <4>1. PICK w1 : w1 = Max({WindowMin, w \div 2})
        OBVIOUS
      <4>2. w1 \in WindowMin .. WindowMax
        <5>1. PICK h : h \in Int /\ h = w \div 2 /\ h <= WindowMax
          <6>1. w \in Nat /\ w <= WindowMax
            BY <1>1
          <6>2. w \div 2 \in Int /\ w \div 2 <= WindowMax
            BY <1>1, <6>1
          <6> QED BY <6>2
        <5>2. w1 = Largest(WindowMin, h)
          BY <4>1, <5>1 DEF Largest
        <5>3. w1 \in {WindowMin, h} /\ w1 >= WindowMin
          BY ONLY <1>1, <5>1, <5>2, LargestOfTwo
        <5> QED BY <1>1, <5>1, <5>3
      <4>3. sweep' = [state |-> x, cursor |-> c, window |-> w1, seen |-> s] /\ x = "on"
        BY <2>3, <3>1, <3>3, <4>1 DEF Halved
      <4> QED BY <2>5, <4>2, <4>3
    <3>4. CASE sweep' = Advanced(end)
      BY <3>1, <3>4, AdvancedTiles
    <3> QED BY <3>1, <3>2, <3>3, <3>4
  <2> QED BY <2>2, <2>6, <2>7, <2>8 DEF HistoryNext
<1>6. SweepInv => SweepTiles
  BY DEF SweepInv
<1> QED BY <1>4, <1>5, <1>6, PTL DEF HistorySpec

-----------------------------------------------------------------------------
(* What an answer teaches.                                                 *)

\* Everything a call about one block may bring.
Replies(b) == Logs(b, b) \cup {Failed(e) : e \in Glitches}

\* No disturbance is mistaken for an answer about the block.
LEMMA GlitchesTeachNothing ==
  ASSUME NEW e \in Glitches
  PROVE  ClassifyLogsError(e) \in {"transient", "unknown"}
  BY DEF Glitches, Error, ClassifyLogsError, StatusIsTransient, SaysHistory, SaysTransient,
         IsConnection

\* A refusal in words the classifier knows, or in words nobody recognises.
LEMMA RefusalsClassified ==
  ASSUME NEW kind, NEW e \in Refusals(kind)
  PROVE  ClassifyLogsError(e) \in {"history", "unknown"}
<1>1. e.code = 4444 \/ e.code = -32000
  BY SMT DEF Refusals, Error
<1>2. e.http = 0
  BY SMT DEF Refusals, Error
<1>3. e.ctx = FALSE /\ e.net = FALSE
  BY SMT DEF Refusals, Error
<1>4. e.says = {} \/ "history" \in e.says
  BY SMT DEF Refusals, Error
<1>5. ~StatusIsTransient(e) /\ ~IsConnection(e)
  BY <1>2, <1>3, SMT DEF StatusIsTransient, IsConnection
<1>6. SaysHistory(e) \/ (~SaysTransient(e) /\ ~SaysHistory(e))
  BY <1>4, SMT DEF SaysHistory, SaysTransient
<1>7. \/ e.code = 4444
      \/ e.code # 4444 /\ e.code \notin {-32002, -32005} /\ e.code \notin {-32601, -32600}
  BY <1>1, SMT
<1> QED BY <1>3, <1>5, <1>6, <1>7, SMT DEF ClassifyLogsError

\* A node that finds one block too many to ask about says nothing about it.
LEMMA TooWideTeachesNothing == ClassifyLogsError(TooWide) = "unknown"
  BY DEF TooWide, Error, ClassifyLogsError, StatusIsTransient, SaysHistory, SaysTransient,
         IsConnection

\* An answer is one the node holds the block for; only a refusal reads as missing history.
LEMMA ReplyMeans ==
  ASSUME NEW b \in Int, NEW r \in Replies(b), Kind(r) # "transient"
  PROVE  /\ r.ok => ~Refused(b) /\ Kind(r) = "none"
         /\ ~r.ok => Kind(r) \in {"history", "unknown"}
         /\ ~r.ok /\ Kind(r) = "history" => Refused(b)
<1>1. \A n \in b .. b : n = b
  OBVIOUS
<1>2. b \in b .. b
  OBVIOUS
<1>3. CASE r = Answered /\ ~Refused(b)
  BY <1>3 DEF Answered, Kind
<1>4. ASSUME NEW e \in Refusals(node.kind), r = Failed(e), Refused(b)
      PROVE  ~r.ok /\ Kind(r) \in {"history", "unknown"}
  BY <1>4, RefusalsClassified DEF Failed, Kind
<1>5. CASE r = Failed(TooWide)
  BY <1>5, TooWideTeachesNothing DEF Failed, Kind
<1>6. ASSUME NEW e \in Glitches, r = Failed(e)
      PROVE  ~r.ok /\ Kind(r) = "unknown"
  BY <1>6, GlitchesTeachNothing DEF Failed, Kind
<1>7. CASE \E e \in Glitches : r = Failed(e)
  BY <1>6, <1>7
<1>8. CASE r \in Logs(b, b)
  <2>1. CASE Refused(b)
    <3>1. r \in {Failed(e) : e \in Refusals(node.kind)}
      BY <1>2, <1>8, <2>1 DEF Logs
    <3> QED BY <1>4, <2>1, <3>1
  <2>2. CASE ~Refused(b)
    <3>1. r = Failed(TooWide) \/ r = Answered
      BY <1>1, <1>8, <2>2 DEF Logs
    <3> QED BY <1>3, <1>5, <2>2, <3>1
  <2> QED BY <2>1, <2>2
<1> QED BY <1>7, <1>8 DEF Replies

\* A node that refuses what it dropped holds what it answers and only that.
LEMMA BelievedMeans ==
  ASSUME node \in Node, NEW b \in Nat
  PROVE  /\ Refused(b) => b < node.cutoff
         /\ Believed(node) /\ ~Refused(b) => node.cutoff <= b
         /\ ~Refused(b) /\ Served(b, b) # {} => node.cutoff <= b
<1>1. node.cutoff \in Nat
  BY DEF Node, Blocks
<1>2. Refused(b) => b < node.cutoff
  BY DEF Refused
<1>3. Believed(node) /\ ~Refused(b) => node.cutoff <= b
  BY <1>1 DEF Refused, Believed
<1>4. ASSUME ~Refused(b), Served(b, b) # {} PROVE node.cutoff <= b
  <2>1. PICK n \in node.logs \cap (b .. b) : node.kind = "quiet" => n >= node.cutoff
    BY <1>4 DEF Served
  <2>2. n = b /\ b \in node.logs
    OBVIOUS
  <2> QED BY <1>1, <1>4, <2>1, <2>2 DEF Refused
<1> QED BY <1>2, <1>3, <1>4

-----------------------------------------------------------------------------
(* What the probe's helpers keep.                                          *)

\* Where a claim is checked last, or accepted.
LEMMA AnchoredKnows ==
  ASSUME NEW p \in Probe, NEW n \in Node, p.stage # "off", p.since <= n.cutoff,
         Believed(n) => p.since <= p.floor /\ (p.boundary # "unknown" => p.floor <= n.cutoff)
  PROVE  Anchored(p) \in Probe /\ Knows(Anchored(p), n) /\ Anchored(p).caller = p.caller
<1>1. PICK x \in {"anchor", "accept"} :
        x = IF p.anchor # NoBlock /\ p.anchor <= Tip /\ p.anchor >= p.floor
            THEN "anchor" ELSE "accept"
  OBVIOUS
<1>2. PICK q : q = [p EXCEPT !.stage = x]
  OBVIOUS
<1>3. /\ q \in Probe /\ q.stage = x /\ q.since = p.since /\ q.floor = p.floor
      /\ q.boundary = p.boundary /\ q.anchor = p.anchor /\ q.caller = p.caller
  BY <1>2 DEF Probe, Stages
<1>4. p.since \in Nat /\ p.floor \in Nat /\ p.anchor \in Int /\ n.cutoff \in 0 .. Tip /\ Tip \in Nat
  BY HistoryAssumption DEF Probe, Node, Blocks
<1>5. x = "accept" /\ p.anchor # NoBlock /\ p.floor <= p.anchor => p.since <= p.anchor
  BY <1>1, <1>4
<1>6. Knows(q, n)
  BY <1>1, <1>3, <1>5 DEF Knows
<1>7. Anchored(p) = q
  BY <1>1, <1>2 DEF Anchored
<1> QED BY <1>3, <1>6, <1>7

\* A search that goes on, or has met.
LEMMA NarrowedKnows ==
  ASSUME NEW p \in Probe, NEW n \in Node, p.stage \in {"search", "bisect"},
         p.since <= n.cutoff, p.hi <= Tip, p.hi > p.lo,
         Believed(n) => p.since <= p.hi /\ (p.boundary # "unknown" => p.lo < n.cutoff)
  PROVE  Narrowed(p) \in Probe /\ Knows(Narrowed(p), n) /\ Narrowed(p).caller = p.caller
<1>1. p.lo \in Nat /\ p.hi \in Nat /\ n.cutoff \in Nat
  BY DEF Probe, Node, Blocks
<1>2. CASE p.hi - p.lo > 1
  <2>1. Narrowed(p) = p
    BY <1>2 DEF Narrowed
  <2>2. Knows(p, n)
    BY <1>2 DEF Knows
  <2> QED BY <2>1, <2>2
<1>3. CASE ~(p.hi - p.lo > 1)
  <2>1. PICK q : q = [p EXCEPT !.floor = p.hi]
    OBVIOUS
  <2>2. /\ q \in Probe /\ q.stage = p.stage /\ q.since = p.since /\ q.floor = p.hi
        /\ q.boundary = p.boundary /\ q.caller = p.caller
    BY <1>1, <2>1 DEF Probe
  <2>3. p.hi = p.lo + 1
    BY <1>1, <1>3
  <2>4. Believed(n) => q.since <= q.floor /\ (q.boundary # "unknown" => q.floor <= n.cutoff)
    BY <1>1, <2>2, <2>3
  <2>5. Narrowed(p) = Anchored(q)
    BY <1>3, <2>1 DEF Narrowed
  <2> QED BY <2>2, <2>4, <2>5, AnchoredKnows
<1> QED BY <1>2, <1>3

\* One answer of the search: the half it leaves is still bounded by a refusal below and a
\* block that was served above.
LEMMA SearchedKnows ==
  ASSUME ProbeInv, probe.stage \in {"search", "bisect"},
         NEW r \in Replies(Mid(probe)), Kind(r) # "transient"
  PROVE  /\ Searched(probe, r.ok, Kind(r)) \in Probe
         /\ Knows(Searched(probe, r.ok, Kind(r)), node)
         /\ Searched(probe, r.ok, Kind(r)).caller = probe.caller
<1>1. /\ probe \in Probe /\ node \in Node /\ probe.since <= node.cutoff
      /\ probe.hi - probe.lo > 1 /\ probe.hi <= Tip
      /\ Believed(node) => /\ probe.since <= probe.hi
                           /\ probe.boundary # "unknown" => probe.lo < node.cutoff
  BY DEF ProbeInv, Knows
<1>2. probe.lo \in Nat /\ probe.hi \in Nat /\ node.cutoff \in Nat /\ probe.since \in Nat /\ Tip \in Nat
  BY <1>1, HistoryAssumption DEF Probe, Node, Blocks
<1>3. PICK m \in Nat : m = Mid(probe) /\ probe.lo < m /\ m < probe.hi
  <2>1. PICK h \in Int : h = (probe.hi - probe.lo) \div 2 /\ h > 0 /\ h < probe.hi - probe.lo
    BY <1>1, <1>2
  <2>2. Mid(probe) = probe.lo + h
    BY <2>1 DEF Mid
  <2>3. probe.lo + h \in Nat /\ probe.lo < probe.lo + h /\ probe.lo + h < probe.hi
    BY <1>2, <2>1
  <2> QED BY <2>2, <2>3
<1>4. /\ r.ok => ~Refused(m)
      /\ ~r.ok => Kind(r) \in {"history", "unknown"}
      /\ ~r.ok /\ Kind(r) = "history" => Refused(m)
  BY <1>3, ReplyMeans
<1>5. /\ Refused(m) => m < node.cutoff
      /\ Believed(node) /\ ~Refused(m) => node.cutoff <= m
  BY <1>1, BelievedMeans
<1>6. CASE r.ok
  <2>1. PICK q : q = [probe EXCEPT !.hi = m]
    OBVIOUS
  <2>2. /\ q \in Probe /\ q.stage = probe.stage /\ q.since = probe.since /\ q.hi = m
        /\ q.lo = probe.lo /\ q.boundary = probe.boundary /\ q.caller = probe.caller
    BY <1>1, <2>1 DEF Probe
  <2>3. Searched(probe, r.ok, Kind(r)) = Narrowed(q)
    BY <1>3, <1>6, <2>1 DEF Searched
  <2>4. Believed(node) => q.since <= q.hi /\ (q.boundary # "unknown" => q.lo < node.cutoff)
    BY <1>1, <1>2, <1>4, <1>5, <1>6, <2>2
  <2>5. q.hi <= Tip /\ q.hi > q.lo /\ q.since <= node.cutoff /\ q.stage \in {"search", "bisect"}
    BY <1>1, <1>2, <1>3, <2>2
  <2> QED BY <1>1, <2>2, <2>3, <2>4, <2>5, NarrowedKnows
<1>7. CASE ~r.ok
  <2>1. PICK k \in {"history", "unknown"} : k = Kind(r)
    BY <1>4, <1>7
  <2>2. PICK q : q = [probe EXCEPT !.lo = m, !.boundary = k]
    OBVIOUS
  <2>3. /\ q \in Probe /\ q.stage = probe.stage /\ q.since = probe.since /\ q.lo = m
        /\ q.hi = probe.hi /\ q.boundary = k /\ q.caller = probe.caller
    BY <1>1, <2>1, <2>2 DEF Probe
  <2>4. Searched(probe, r.ok, Kind(r)) = Narrowed(q)
    BY <1>3, <1>7, <2>1, <2>2 DEF Searched
  <2>5. Believed(node) => q.since <= q.hi /\ (q.boundary # "unknown" => q.lo < node.cutoff)
    BY <1>1, <1>2, <1>4, <1>5, <1>7, <2>1, <2>3
  <2>6. q.hi <= Tip /\ q.hi > q.lo /\ q.since <= node.cutoff /\ q.stage \in {"search", "bisect"}
    BY <1>1, <1>2, <1>3, <2>3
  <2> QED BY <1>1, <2>3, <2>4, <2>5, <2>6, NarrowedKnows
<1> QED BY <1>6, <1>7

\* The samples left, or the search above what one of them found missing.
LEMMA SamplingKnows ==
  ASSUME NEW p \in Probe, NEW n \in Node, NEW i \in Nat, p.stage # "off",
         p.since <= n.cutoff, p.floor = 0,
         p.bad = NoBlock => p.boundary = "none",
         p.bad # NoBlock => p.bad \in 1 .. (Tip - 1) /\ p.boundary = "history",
         Believed(n) => p.since = 0 /\ p.bad < n.cutoff
  PROVE  Sampling(p, i) \in Probe /\ Knows(Sampling(p, i), n) /\ Sampling(p, i).caller = p.caller
<1>1. MonotonicitySamples \in Nat /\ Tip \in Nat /\ n.cutoff \in 0 .. Tip /\ p.since \in Nat
  BY HistoryAssumption DEF Node, Blocks, Probe
<1> DEFINE open == {j \in i .. MonotonicitySamples : SampleAt(j) \in 1 .. (Tip - 1)}
<1>2. CASE open # {}
  <2>1. open \subseteq Nat
    BY <1>1
  <2>2. PICK j : j = Min(open) /\ j \in open
    <3> HIDE DEF open
    <3> QED BY <1>2, <2>1, LeastOf
  <2>3. j \in Nat /\ SampleAt(j) \in 1 .. (Tip - 1)
    BY <2>1, <2>2
  <2>4. PICK q : q = [p EXCEPT !.stage = "sample", !.sample = j]
    OBVIOUS
  <2>5. /\ q \in Probe /\ q.stage = "sample" /\ q.sample = j /\ q.since = p.since
        /\ q.floor = p.floor /\ q.bad = p.bad /\ q.boundary = p.boundary /\ q.caller = p.caller
    BY <2>3, <2>4 DEF Probe, Stages
  <2>6. Sampling(p, i) = q
    BY <1>2, <2>2, <2>4 DEF Sampling
  <2>7. Knows(q, n)
    BY <2>3, <2>5 DEF Knows
  <2> QED BY <2>5, <2>6, <2>7
<1>3. CASE open = {} /\ p.bad = NoBlock
  <2>1. Sampling(p, i) = Anchored(p)
    BY <1>3 DEF Sampling
  <2>2. Believed(n) => p.since <= p.floor /\ (p.boundary # "unknown" => p.floor <= n.cutoff)
    BY <1>1, <1>3
  <2> QED BY <2>1, <2>2, AnchoredKnows
<1>4. CASE open = {} /\ p.bad # NoBlock
  <2>1. PICK q : q = [p EXCEPT !.stage = "bisect", !.lo = p.bad, !.hi = Tip]
    OBVIOUS
  <2>2. p.bad \in Nat /\ p.bad < Tip
    BY <1>1, <1>4
  <2>3. /\ q \in Probe /\ q.stage = "bisect" /\ q.lo = p.bad /\ q.hi = Tip /\ q.since = p.since
        /\ q.boundary = p.boundary /\ q.caller = p.caller
    BY <1>1, <2>1, <2>2 DEF Probe, Stages
  <2>4. Sampling(p, i) = Narrowed(q)
    BY <1>4, <2>1 DEF Sampling
  <2>5. Believed(n) => q.since <= q.hi /\ (q.boundary # "unknown" => q.lo < n.cutoff)
    BY <1>1, <2>3
  <2>6. q.hi <= Tip /\ q.hi > q.lo /\ q.since <= n.cutoff
    BY <1>1, <2>2, <2>3
  <2> QED BY <2>3, <2>4, <2>5, <2>6, NarrowedKnows
<1> QED BY <1>2, <1>3, <1>4

\* One sample: only a definite answer counts against the claim.
LEMMA SampleKnows ==
  ASSUME ProbeInv, probe.stage = "sample",
         NEW r \in Replies(SampleAt(probe.sample)), Kind(r) # "transient"
  PROVE  /\ HighestUnservable(probe, r.ok, Kind(r)) \in Probe
         /\ Knows(HighestUnservable(probe, r.ok, Kind(r)), node)
<1>1. /\ probe \in Probe /\ node \in Node /\ probe.since <= node.cutoff
      /\ SampleAt(probe.sample) \in 1 .. (Tip - 1)
      /\ probe.floor = 0 /\ (probe.bad = NoBlock => probe.boundary = "none")
      /\ probe.bad # NoBlock => probe.bad \in 1 .. (Tip - 1) /\ probe.boundary = "history"
      /\ Believed(node) => probe.since = 0 /\ probe.bad < node.cutoff
  BY DEF ProbeInv, Knows
<1>2. PICK b \in Nat : b = SampleAt(probe.sample) /\ b \in 1 .. (Tip - 1)
  BY <1>1, HistoryAssumption
<1>3. probe.sample + 1 \in Nat
  BY <1>1 DEF Probe
<1>4. ~r.ok /\ Kind(r) = "history" => b < node.cutoff
  BY <1>1, <1>2, ReplyMeans, BelievedMeans
<1>5. CASE ~r.ok /\ Kind(r) = "history"
  <2>1. PICK q : q = [probe EXCEPT !.bad = b, !.boundary = "history"]
    OBVIOUS
  <2>2. /\ q \in Probe /\ q.stage = probe.stage /\ q.since = probe.since /\ q.floor = probe.floor
        /\ q.bad = b /\ q.boundary = "history"
    <3>1. PICK o : o = [probe EXCEPT !.bad = b]
      OBVIOUS
    <3>2. /\ o \in Probe /\ o.stage = probe.stage /\ o.since = probe.since
          /\ o.floor = probe.floor /\ o.bad = b
      BY <1>1, <3>1 DEF Probe
    <3>3. q = [o EXCEPT !.boundary = "history"]
      BY <2>1, <3>1
    <3> QED BY <3>2, <3>3 DEF Probe
  <2>3. HighestUnservable(probe, r.ok, Kind(r)) = Sampling(q, probe.sample + 1)
    BY <1>2, <1>5, <2>1 DEF HighestUnservable
  <2>4. b # NoBlock
    BY <1>2 DEF NoBlock
  <2>5. /\ q.bad = NoBlock => q.boundary = "none"
        /\ q.bad # NoBlock => q.bad \in 1 .. (Tip - 1) /\ q.boundary = "history"
        /\ Believed(node) => q.since = 0 /\ q.bad < node.cutoff
        /\ q.stage # "off" /\ q.since <= node.cutoff /\ q.floor = 0
    <3>1. q.bad # NoBlock /\ q.bad \in 1 .. (Tip - 1)
      BY ONLY <1>2, <2>2, <2>4
    <3>2. q.bad < node.cutoff
      BY ONLY <1>4, <1>5, <2>2
    <3>3. q.stage # "off" /\ q.since <= node.cutoff /\ q.floor = 0
      BY <1>1, <2>2
    <3>4. Believed(node) => q.since = 0
      BY ONLY <1>1, <2>2
    <3> QED BY ONLY <2>2, <3>1, <3>2, <3>3, <3>4
  <2> QED BY <1>1, <1>3, <2>2, <2>3, <2>5, SamplingKnows
<1>6. CASE ~(~r.ok /\ Kind(r) = "history")
  <2>1. HighestUnservable(probe, r.ok, Kind(r)) = Sampling(probe, probe.sample + 1)
    BY <1>6 DEF HighestUnservable
  <2> QED BY <1>1, <1>3, <2>1, SamplingKnows
<1> QED BY <1>5, <1>6

\* Resetting the retries of a probe changes nothing it knows.
LEMMA GotoKnows ==
  ASSUME NEW p \in Probe, Knows(p, node), Goto(p), ProbeInv, UNCHANGED <<node, candidates>>
  PROVE  ProbeInv'
<1>1. PICK q : q = [p EXCEPT !.tries = 1]
  OBVIOUS
<1>2. q \in Probe
  BY <1>1 DEF Probe
<1>3. /\ q.stage = p.stage /\ q.since = p.since /\ q.bad = p.bad /\ q.floor = p.floor
      /\ q.boundary = p.boundary /\ q.hi = p.hi /\ q.lo = p.lo /\ q.sample = p.sample
      /\ q.anchor = p.anchor
  BY <1>1 DEF Probe
<1>4. Knows(q, node)
  BY <1>3 DEF Knows
<1>5. probe' = q /\ node' = node
  BY <1>1 DEF Goto
<1> QED BY <1>2, <1>4, <1>5 DEF ProbeInv

\* Nothing is being probed.
LEMMA NoProbeKnows ==
  ASSUME NEW n
  PROVE  NoProbe \in Probe /\ Knows(NoProbe, n)
<1>1. NoProbe \in Probe /\ NoProbe.stage = "off"
  BY DEF NoProbe, Probe, Stages, NoBlock
<1> QED BY <1>1 DEF Knows

-----------------------------------------------------------------------------
(* The floor a probe keeps is the node's.                                  *)

\* A probe that begins.
LEMMA FreshKnows ==
  ASSUME node \in Node, NEW caller \in {"startup", "ensure", "reprobe"}
  PROVE  Fresh(caller) \in Probe /\ Knows(Fresh(caller), node)
<1>1. node.cutoff \in Nat
  BY DEF Node, Blocks
<1>2. /\ Fresh(caller) \in Probe /\ Fresh(caller).stage = "begin"
      /\ Fresh(caller).since = node.cutoff /\ Fresh(caller).bad = NoBlock
      /\ Fresh(caller).floor = 0 /\ Fresh(caller).boundary = "none"
  <2>1. NoProbe \in Probe
    BY NoProbeKnows
  <2>2. NoProbe.bad = NoBlock /\ NoProbe.floor = 0 /\ NoProbe.boundary = "none"
    BY DEF NoProbe
  <2>3. PICK p : p = [NoProbe EXCEPT !.stage = "begin"]
    OBVIOUS
  <2>4. PICK q : q = [p EXCEPT !.caller = caller]
    OBVIOUS
  <2>5. Fresh(caller) = [q EXCEPT !.since = node.cutoff]
    BY <2>3, <2>4 DEF Fresh
  <2>6. /\ p \in Probe /\ p.stage = "begin" /\ p.bad = NoBlock /\ p.floor = 0
        /\ p.boundary = "none"
    BY <2>1, <2>2, <2>3 DEF Probe, Stages
  <2>7. /\ q \in Probe /\ q.stage = "begin" /\ q.bad = NoBlock /\ q.floor = 0
        /\ q.boundary = "none"
    BY <2>4, <2>6 DEF Probe
  <2> QED BY <1>1, <2>5, <2>7 DEF Probe
<1> QED BY <1>1, <1>2 DEF Knows

\* The oldest candidate's block, or none.
LEMMA OldestTyped ==
  ASSUME candidates \subseteq Nat
  PROVE  OldestCandidateBlock \in Int
<1>1. CASE candidates = {}
  BY <1>1 DEF OldestCandidateBlock, NoBlock
<1>2. CASE candidates # {}
  <2>1. PICK m : m = Min(candidates)
    OBVIOUS
  <2>2. m \in Nat
    BY <1>2, <2>1, LeastOf
  <2>3. OldestCandidateBlock = m
    BY <1>2, <2>1, Zenon DEF OldestCandidateBlock
  <2> QED BY <2>2, <2>3
<1> QED BY <1>1, <1>2

\* The probe's own steps.
LEMMA ProbeStepKnows ==
  ASSUME ProbeInv,
         ResolveBegin \/ RetryTransient \/ ProbeHead \/ ProbeGenesis \/ ProbeSearch
           \/ ProbeSample \/ ProbeBisect \/ ProbeAnchor \/ SetHistoryFloor
  PROVE  ProbeInv'
<1>1. probe \in Probe /\ node \in Node /\ candidates \subseteq Nat /\ Knows(probe, node)
  BY DEF ProbeInv
<1>2. UNCHANGED <<node, candidates>>
  <2>1. CASE ResolveBegin \/ RetryTransient \/ SetHistoryFloor
    BY <2>1 DEF ResolveBegin, RetryTransient, SetHistoryFloor
  <2>2. CASE ProbeHead \/ ProbeGenesis \/ ProbeSearch
    BY <2>2 DEF ProbeHead, ProbeGenesis, ProbeSearch, Learn
  <2>3. CASE ProbeSample \/ ProbeBisect \/ ProbeAnchor
    BY <2>3 DEF ProbeSample, ProbeBisect, ProbeAnchor, Learn
  <2> QED BY <2>1, <2>2, <2>3
<1>3. ASSUME probe' = NoProbe PROVE ProbeInv'
  BY <1>1, <1>2, <1>3, NoProbeKnows DEF ProbeInv
<1>4. ASSUME GiveUp PROVE ProbeInv'
  BY <1>3, <1>4 DEF GiveUp
<1>5. Tip \in Nat /\ node.cutoff \in 0 .. Tip /\ probe.since \in Nat
  BY <1>1, HistoryAssumption DEF Node, Blocks, Probe
<1>6. CASE ResolveBegin
  <2>1. PICK a \in Int : Goto([probe EXCEPT !.stage = "head", !.anchor = a]) \/ GiveUp
    <3>1. CASE Goto([probe EXCEPT !.stage = "head", !.anchor = OldestCandidateBlock])
      BY <1>1, <3>1, OldestTyped
    <3>2. CASE Goto([probe EXCEPT !.stage = "head"])
      <4>1. probe.anchor \in Int
        BY <1>1 DEF Probe
      <4>2. [probe EXCEPT !.stage = "head"] = [probe EXCEPT !.stage = "head", !.anchor = probe.anchor]
        BY <1>1 DEF Probe
      <4> QED BY <3>2, <4>1, <4>2
    <3>3. CASE GiveUp
      BY <3>3
    <3> QED BY <1>6, <3>1, <3>2, <3>3 DEF ResolveBegin
  <2>2. PICK q : q = [probe EXCEPT !.stage = "head", !.anchor = a]
    OBVIOUS
  <2>3. /\ q \in Probe /\ q.stage = "head" /\ q.since = probe.since /\ q.bad = probe.bad
        /\ q.floor = probe.floor /\ q.boundary = probe.boundary
    BY <1>1, <2>2 DEF Probe, Stages
  <2>4. probe.stage = "begin"
    BY <1>6 DEF ResolveBegin
  <2>5. Knows(q, node)
    BY <1>1, <2>3, <2>4 DEF Knows
  <2> QED BY <1>2, <1>4, <2>1, <2>2, <2>3, <2>5, GotoKnows
<1>7. CASE RetryTransient
  <2>1. GiveUp \/ probe' = [probe EXCEPT !.tries = probe.tries + 1]
    BY <1>7 DEF RetryTransient
  <2>2. CASE probe' = [probe EXCEPT !.tries = probe.tries + 1]
    <3>1. PICK q : q = [probe EXCEPT !.tries = probe.tries + 1]
      OBVIOUS
    <3>2. /\ q \in Probe /\ q.stage = probe.stage /\ q.since = probe.since /\ q.bad = probe.bad
          /\ q.floor = probe.floor /\ q.boundary = probe.boundary /\ q.hi = probe.hi
          /\ q.lo = probe.lo /\ q.sample = probe.sample /\ q.anchor = probe.anchor
      BY <1>1, <3>1 DEF Probe
    <3>3. Knows(q, node)
      BY <1>1, <3>2 DEF Knows
    <3> QED BY <1>1, <1>2, <2>2, <3>1, <3>2, <3>3 DEF ProbeInv
  <2> QED BY <1>4, <2>1, <2>2
<1>8. CASE ProbeHead
  <2>1. probe.stage = "head" /\ (Goto([probe EXCEPT !.stage = "genesis"]) \/ GiveUp)
    BY <1>8 DEF ProbeHead, Learn, Call
  <2>2. PICK q : q = [probe EXCEPT !.stage = "genesis"]
    OBVIOUS
  <2>3. /\ q \in Probe /\ q.stage = "genesis" /\ q.since = probe.since /\ q.bad = probe.bad
        /\ q.floor = probe.floor /\ q.boundary = probe.boundary
    BY <1>1, <2>2 DEF Probe, Stages
  <2>4. Knows(q, node)
    BY <1>1, <2>1, <2>3 DEF Knows
  <2> QED BY <1>2, <1>4, <2>1, <2>2, <2>3, <2>4, GotoKnows
<1>9. CASE ProbeGenesis
  <2>1. probe.stage = "genesis" /\ Asked(probe) = 0
    BY <1>9 DEF ProbeGenesis, Learn, Asked
  <2>2. PICK r \in Replies(0) :
          /\ Kind(r) # "transient"
          /\ Goto(IF r.ok THEN Sampling(probe, 1)
                  ELSE Narrowed([probe EXCEPT !.stage = "search", !.lo = 0, !.hi = Tip,
                                              !.boundary = Kind(r)]))
    BY <1>9, <2>1 DEF ProbeGenesis, Learn, Call, Replies
  <2>3. /\ r.ok => ~Refused(0)
        /\ ~r.ok => Kind(r) \in {"history", "unknown"}
        /\ ~r.ok /\ Kind(r) = "history" => Refused(0)
    BY <2>2, ReplyMeans
  <2>4. /\ Refused(0) => 0 < node.cutoff
        /\ Believed(node) /\ ~Refused(0) => node.cutoff <= 0
    BY <1>1, BelievedMeans
  <2>5. /\ probe.since <= node.cutoff /\ probe.bad = NoBlock /\ probe.floor = 0
        /\ probe.boundary = "none"
    BY <1>1, <2>1 DEF Knows
  <2>6. CASE r.ok
    <3>1. Believed(node) => probe.since = 0 /\ probe.bad < node.cutoff
      BY <1>5, <2>3, <2>4, <2>5, <2>6 DEF NoBlock
    <3>2. Sampling(probe, 1) \in Probe /\ Knows(Sampling(probe, 1), node)
      BY <1>1, <2>1, <2>5, <3>1, SamplingKnows
    <3>3. Goto(Sampling(probe, 1))
      BY <2>2, <2>6
    <3> QED BY <1>2, <3>2, <3>3, GotoKnows
  <2>7. CASE ~r.ok
    <3>1. PICK k \in {"history", "unknown"} : k = Kind(r)
      BY <2>3, <2>7
    <3>2. PICK q : q = [probe EXCEPT !.stage = "search", !.lo = 0, !.hi = Tip, !.boundary = k]
      OBVIOUS
    <3>3. /\ q \in Probe /\ q.stage = "search" /\ q.lo = 0 /\ q.hi = Tip /\ q.boundary = k
          /\ q.since = probe.since
      BY <1>1, <1>5, <3>2 DEF Probe, Stages
    <3>4. Goto(Narrowed(q))
      BY <2>2, <2>7, <3>1, <3>2
    <3>5. /\ q.since <= node.cutoff /\ q.hi <= Tip /\ q.hi > q.lo
          /\ Believed(node) => q.since <= q.hi /\ (q.boundary # "unknown" => q.lo < node.cutoff)
      <4>1. Tip > 0
        BY HistoryAssumption
      <4>2. k # "unknown" => 0 < node.cutoff
        BY <2>3, <2>4, <2>7, <3>1
      <4>3. probe.since <= Tip
        BY <1>5, <2>5
      <4> QED BY <1>5, <2>5, <3>3, <4>1, <4>2, <4>3
    <3>6. Narrowed(q) \in Probe /\ Knows(Narrowed(q), node)
      BY <1>1, <3>3, <3>5, NarrowedKnows
    <3> QED BY <1>2, <3>4, <3>6, GotoKnows
  <2> QED BY <2>6, <2>7
<1>10. CASE ProbeSearch \/ ProbeBisect
  <2>1. probe.stage \in {"search", "bisect"} /\ Asked(probe) = Mid(probe)
    BY <1>10 DEF ProbeSearch, ProbeBisect, Learn, Asked
  <2>2. PICK r \in Replies(Mid(probe)) :
          Kind(r) # "transient" /\ Goto(Searched(probe, r.ok, Kind(r)))
    BY <1>10, <2>1 DEF ProbeSearch, ProbeBisect, Learn, Call, Replies
  <2>3. PICK q : q = Searched(probe, r.ok, Kind(r))
    OBVIOUS
  <2>4. q \in Probe /\ Knows(q, node)
    BY <2>1, <2>2, <2>3, SearchedKnows
  <2> QED BY <1>2, <2>2, <2>3, <2>4, GotoKnows
<1>11. CASE ProbeSample
  <2>1. probe.stage = "sample" /\ Asked(probe) = SampleAt(probe.sample)
    BY <1>11 DEF ProbeSample, Learn, Asked
  <2>2. PICK r \in Replies(SampleAt(probe.sample)) :
          Kind(r) # "transient" /\ Goto(HighestUnservable(probe, r.ok, Kind(r)))
    BY <1>11, <2>1 DEF ProbeSample, Learn, Call, Replies
  <2>3. PICK q : q = HighestUnservable(probe, r.ok, Kind(r))
    OBVIOUS
  <2>4. q \in Probe /\ Knows(q, node)
    BY <2>1, <2>2, <2>3, SampleKnows
  <2> QED BY <1>2, <2>2, <2>3, <2>4, GotoKnows
<1>12. CASE ProbeAnchor
  <2>1. probe.stage = "anchor" /\ Asked(probe) = probe.anchor
    BY <1>12 DEF ProbeAnchor, Learn, Asked
  <2>2. PICK r \in Replies(probe.anchor) :
          /\ Kind(r) # "transient"
          /\ IF r.ok /\ Served(probe.anchor, probe.anchor) # {}
             THEN Goto([probe EXCEPT !.stage = "accept"]) ELSE GiveUp
    BY <1>12, <2>1 DEF ProbeAnchor, Learn, Call, Replies
  <2>3. CASE r.ok /\ Served(probe.anchor, probe.anchor) # {}
    <3>1. PICK q : q = [probe EXCEPT !.stage = "accept"]
      OBVIOUS
    <3>2. /\ q \in Probe /\ q.stage = "accept" /\ q.since = probe.since /\ q.floor = probe.floor
          /\ q.boundary = probe.boundary /\ q.anchor = probe.anchor
      BY <1>1, <3>1 DEF Probe, Stages
    <3>3. probe.anchor \in Int /\ probe.floor \in Nat
      BY <1>1 DEF Probe
    <3>4. ASSUME probe.floor <= probe.anchor PROVE probe.since <= probe.anchor
      <4>1. probe.anchor \in Nat
        BY <3>3, <3>4
      <4>2. ~Refused(probe.anchor)
        BY <2>2, <2>3, <3>3, ReplyMeans
      <4>3. node.cutoff <= probe.anchor
        BY <1>1, <2>3, <4>1, <4>2, BelievedMeans
      <4>4. probe.since <= node.cutoff
        BY <1>1, <2>1 DEF Knows
      <4> QED BY <1>5, <3>3, <4>3, <4>4
    <3>5. Knows(q, node)
      BY <1>1, <2>1, <3>2, <3>4 DEF Knows
    <3> QED BY <1>2, <2>2, <2>3, <3>1, <3>2, <3>5, GotoKnows
  <2>4. CASE ~(r.ok /\ Served(probe.anchor, probe.anchor) # {})
    BY <1>4, <2>2, <2>4
  <2> QED BY <2>3, <2>4
<1>13. CASE SetHistoryFloor
  BY <1>3, <1>13 DEF SetHistoryFloor
<1> QED BY <1>6, <1>7, <1>8, <1>9, <1>10, <1>11, <1>12, <1>13

\* A block being pruned takes nothing back: the horizon only rises.
LEMMA PruneKnows ==
  ASSUME ProbeInv, Prune
  PROVE  ProbeInv'
<1>1. PICK k \in {"geth", "foreign", "quiet", "light"}, c \in Blocks, l \in SUBSET Blocks, s \in Nat :
        node = [kind |-> k, cutoff |-> c, logs |-> l, span |-> s]
  BY DEF ProbeInv, Node
<1>2. node' = [kind |-> k, cutoff |-> c + 1, logs |-> l, span |-> s] /\ c < Tip
  BY <1>1 DEF Prune
<1>3. c \in Nat /\ c + 1 \in Blocks
  BY <1>2, HistoryAssumption DEF Blocks
<1>4. node' \in Node
  BY <1>2, <1>3 DEF Node
<1>5. node.cutoff = c /\ node'.cutoff = c + 1 /\ (Believed(node') <=> Believed(node))
  BY <1>1, <1>2 DEF Believed
<1>6. /\ probe.since \in Nat /\ probe.lo \in Nat /\ probe.bad \in Int /\ probe.floor \in Nat
      /\ probe \in Probe
  BY DEF ProbeInv, Probe
<1>7. /\ probe.since <= c => probe.since <= c + 1
      /\ probe.lo < c => probe.lo < c + 1
      /\ probe.bad < c => probe.bad < c + 1
      /\ probe.floor <= c => probe.floor <= c + 1
  BY <1>3, <1>6
<1>8. Knows(probe, node)
  BY DEF ProbeInv
<1>9. Knows(probe, node')
  BY <1>5, <1>7, <1>8 DEF Knows
<1>10. probe' = probe /\ candidates' = candidates
  BY DEF Prune
<1> QED BY <1>4, <1>6, <1>9, <1>10 DEF ProbeInv

\* The floor a probe is about to keep is the node's, of whichever kind the node is: no
\* lower than its horizon was when the probe began, no higher than it is now unless the
\* result says so, and never at or below a block the node reports as empty (history.go,
\* ProbeHistoryFloor; history_anchor.go), for every node, number of samples and attempts.
THEOREM ProbeAlwaysSound == HistorySpec => []ProbeSound
<1>1. HistoryInit => ProbeInv
  BY HistoryAssumption, NoProbeKnows DEF HistoryInit, ProbeInv
<1>2. ProbeInv /\ [HistoryNext]_historyVars => ProbeInv'
  <2> SUFFICES ASSUME ProbeInv, [HistoryNext]_historyVars PROVE ProbeInv'
    OBVIOUS
  <2>1. probe \in Probe /\ node \in Node /\ candidates \subseteq Nat /\ Knows(probe, node)
    BY DEF ProbeInv
  <2>2. ASSUME UNCHANGED <<node, candidates>>,
               \/ probe' = probe \/ probe' = NoProbe
               \/ \E caller \in {"startup", "ensure", "reprobe"} : BeginProbe(caller)
        PROVE  ProbeInv'
    <3>1. CASE probe' = probe
      BY <2>1, <2>2, <3>1 DEF ProbeInv
    <3>2. CASE probe' = NoProbe
      BY <2>1, <2>2, <3>2, NoProbeKnows DEF ProbeInv
    <3>3. ASSUME NEW caller \in {"startup", "ensure", "reprobe"}, BeginProbe(caller)
          PROVE  ProbeInv'
      BY <2>1, <2>2, <3>3, FreshKnows DEF ProbeInv, BeginProbe
    <3> QED BY <2>2, <3>1, <3>2, <3>3
  <2>3. CASE AdoptStoredFloor
    BY <2>2, <2>3 DEF AdoptStoredFloor
  <2>4. CASE EnsureHistoryFloor
    BY <2>2, <2>4 DEF EnsureHistoryFloor
  <2>5. CASE BackfillAsset \/ AdvanceBackfill \/ FinishDone \/ FinishFloor \/ FailBackfill
    BY <2>2, <2>5 DEF BackfillAsset, AdvanceBackfill, FinishDone, FinishFloor, FailBackfill, Walking
  <2>6. CASE SweepBegin \/ Restart
    BY <2>2, <2>6 DEF SweepBegin, Restart
  <2>7. CASE SweepWindow
    <3>1. node' = node /\ probe' = probe
      BY <2>7 DEF SweepWindow
    <3>2. \/ candidates' = candidates
          \/ \E a, b : candidates' = candidates \cup Served(a, b)
      BY <2>7 DEF SweepWindow, Call
    <3>3. \A a, b : Served(a, b) \subseteq Nat
      BY <2>1 DEF Served, Node, Blocks
    <3>4. candidates' \subseteq Nat
      BY <2>1, <3>2, <3>3
    <3> QED BY <2>1, <3>1, <3>4 DEF ProbeInv
  <2>8. CASE Prune
    BY <2>8, PruneKnows
  <2>9. CASE UNCHANGED historyVars
    BY <2>2, <2>9 DEF historyVars
  <2>10. CASE BackfillRead
    BY <2>2, <2>10 DEF BackfillRead, Walking, Call, ReprobeHistoryFloor
  <2> QED
    BY <2>3, <2>4, <2>5, <2>6, <2>7, <2>8, <2>9, <2>10, ProbeStepKnows DEF HistoryNext, BackfillStep
<1>3. ProbeInv => ProbeSound
  BY DEF ProbeInv, Knows, ProbeSound, FloorIsHorizon, AnchorWasServed, Honest, Believed
<1> QED BY <1>1, <1>2, <1>3, PTL DEF HistorySpec

-----------------------------------------------------------------------------
(* Names: aliases and hints.                                               *)

Sig == [kind : {"claim", "release"}, label : Labels, account : Accounts, deadline : Nat,
        nonce : Nat, after : Nat]
Hint == [account : Accounts, digest : Digests, deadline : Nat]

AliasType ==
  /\ accountOfLabel \in [Labels -> Accounts \cup {None}]
  /\ labelOfAccount \in [Accounts -> Labels \cup {None}]
  /\ nonces \in [Accounts -> Nat]
  /\ withdrawals \in [Accounts -> Nat]
  /\ DOMAIN author = Accounts

\* Requests and transactions carry what somebody signed.
Carried(sigs, txs, reqs) ==
  /\ sigs \subseteq Sig
  /\ \A t \in txs : t.sig \in sigs
  /\ DOMAIN reqs = Slots
  /\ \A i \in Slots : reqs[i].pc # "free" => reqs[i].sig \in sigs

\* A signature for the account's present nonce has seen every withdrawal.
UpToDate(sigs, ns, ws) ==
  \A s \in sigs : /\ s.nonce <= ns[s.account]
                  /\ s.nonce = ns[s.account] => s.after = ws[s.account]

AliasInv ==
  /\ AliasType /\ Carried(signed, pool, requests) /\ UpToDate(signed, nonces, withdrawals)
  /\ NamesInverse /\ WithdrawnStaysWithdrawn

\* The stored deadline of a hint only rises.
HintInv ==
  /\ signedHints \subseteq Hint
  /\ DOMAIN posts = Slots /\ DOMAIN hints = Accounts /\ DOMAIN replaced = Accounts
  /\ \A i \in Slots : posts[i].pc # "free" =>
       posts[i].account \in Accounts /\ posts[i].deadline \in Nat
  /\ \A a \in Accounts : hints[a].deadline \in Int
  /\ \A a \in Accounts : \A h \in replaced[a] :
       h.deadline \in Int /\ h.deadline < hints[a].deadline

-----------------------------------------------------------------------------
(* The alias resolver.                                                     *)

LEMMA AliasInitially == Init => AliasInv
BY NamesAssumption
   DEF Init, AliasInv, AliasType, Carried, UpToDate, NamesInverse, WithdrawnStaysWithdrawn,
       Free, NoSig, NoTx, Sig

\* A claim the resolver accepts, from a signature in circulation.
LEMMA ClaimKeeps ==
  ASSUME AliasInv, NEW s \in signed, Accepts(s), s.kind = "claim", ClaimFor(s), UNCHANGED signed
  PROVE  /\ AliasType' /\ UpToDate(signed', nonces', withdrawals')
         /\ NamesInverse' /\ WithdrawnStaysWithdrawn'
<1> DEFINE a == s.account  l == s.label
<1>1. a \in Accounts /\ l \in Labels /\ s.nonce = nonces[a] /\ s.after \in Nat
      /\ s.nonce \in Nat
  BY DEF AliasInv, Carried, Sig, Accepts, Authorize
<1>2. s.after = withdrawals[a]
  BY <1>1 DEF AliasInv, UpToDate
<1>3. accountOfLabel[l] \in {None, a}
  BY DEF Accepts, NameHolder
<1>4. AliasType'
  BY <1>1 DEF AliasInv, AliasType, ClaimFor
<1>5. UpToDate(signed', nonces', withdrawals')
  <2> SUFFICES ASSUME NEW r \in signed
               PROVE  /\ r.nonce <= nonces'[r.account]
                      /\ r.nonce = nonces'[r.account] => r.after = withdrawals'[r.account]
    BY DEF UpToDate
  <2>1. r.account \in Accounts /\ r.nonce \in Nat /\ nonces[r.account] \in Nat
        /\ r.nonce <= nonces[r.account]
        /\ (r.nonce = nonces[r.account] => r.after = withdrawals[r.account])
    BY DEF AliasInv, AliasType, Carried, Sig, UpToDate
  <2>2. nonces'[r.account] = IF r.account = a THEN nonces[a] + 1 ELSE nonces[r.account]
    BY <1>1, <2>1 DEF ClaimFor, AliasInv, AliasType
  <2> QED BY <2>1, <2>2 DEF ClaimFor
<1>6. NamesInverse'
  <2> SUFFICES ASSUME NEW b \in Accounts, NEW m \in Labels
               PROVE  labelOfAccount'[b] = m <=> accountOfLabel'[m] = b
    BY DEF NamesInverse
  <2>1. labelOfAccount'[b] = IF b = a THEN l ELSE labelOfAccount[b]
    BY <1>1 DEF ClaimFor, AliasInv, AliasType
  <2>2. accountOfLabel'[m] = IF m = l THEN a ELSE IF labelOfAccount[a] = m THEN None
                             ELSE accountOfLabel[m]
    BY DEF ClaimFor
  <2>3. \A c \in Accounts, k \in Labels : labelOfAccount[c] = k <=> accountOfLabel[k] = c
    BY DEF AliasInv, NamesInverse
  <2> HIDE DEF a, l
  <2> QED BY <1>1, <1>3, <2>1, <2>2, <2>3, NamesAssumption
<1>7. WithdrawnStaysWithdrawn'
  <2> SUFFICES ASSUME NEW b \in Accounts, labelOfAccount'[b] # None
               PROVE  author'[b].after = withdrawals'[b]
    BY DEF WithdrawnStaysWithdrawn
  <2>1. CASE b = a
    BY <1>1, <1>2, <2>1 DEF ClaimFor, AliasInv, AliasType
  <2>2. CASE b # a
    BY <1>1, <2>2 DEF ClaimFor, AliasInv, AliasType, WithdrawnStaysWithdrawn
  <2> QED BY <2>1, <2>2
<1> QED BY <1>4, <1>5, <1>6, <1>7

LEMMA ReleaseKeeps ==
  ASSUME AliasInv, NEW s \in signed, Accepts(s), s.kind # "claim", ReleaseFor(s), UNCHANGED signed
  PROVE  /\ AliasType' /\ UpToDate(signed', nonces', withdrawals')
         /\ NamesInverse' /\ WithdrawnStaysWithdrawn'
<1> DEFINE a == s.account  l == s.label
<1>1. a \in Accounts /\ l \in Labels /\ s.nonce = nonces[a]
  BY DEF AliasInv, Carried, Sig, Accepts, Authorize
<1>2. accountOfLabel[l] = a
  BY DEF Accepts, NameHolder
<1>3. AliasType'
  BY <1>1 DEF AliasInv, AliasType, ReleaseFor
<1>4. UpToDate(signed', nonces', withdrawals')
  <2> SUFFICES ASSUME NEW r \in signed
               PROVE  /\ r.nonce <= nonces'[r.account]
                      /\ r.nonce = nonces'[r.account] => r.after = withdrawals'[r.account]
    BY DEF UpToDate
  <2>1. r.account \in Accounts /\ r.nonce \in Nat /\ nonces[r.account] \in Nat
        /\ r.nonce <= nonces[r.account]
        /\ (r.nonce = nonces[r.account] => r.after = withdrawals[r.account])
    BY DEF AliasInv, AliasType, Carried, Sig, UpToDate
  <2>2. /\ nonces'[r.account] = IF r.account = a THEN nonces[a] + 1 ELSE nonces[r.account]
        /\ r.account # a => withdrawals'[r.account] = withdrawals[r.account]
    BY <1>1, <2>1 DEF ReleaseFor, AliasInv, AliasType
  <2> QED BY <2>1, <2>2
<1>5. NamesInverse'
  <2> SUFFICES ASSUME NEW b \in Accounts, NEW m \in Labels
               PROVE  labelOfAccount'[b] = m <=> accountOfLabel'[m] = b
    BY DEF NamesInverse
  <2>1. labelOfAccount'[b] = IF b = a THEN None ELSE labelOfAccount[b]
    BY <1>1 DEF ReleaseFor, AliasInv, AliasType
  <2>2. accountOfLabel'[m] = IF m = l THEN None ELSE accountOfLabel[m]
    BY <1>1 DEF ReleaseFor, AliasInv, AliasType
  <2>3. \A c \in Accounts, k \in Labels : labelOfAccount[c] = k <=> accountOfLabel[k] = c
    BY DEF AliasInv, NamesInverse
  <2> HIDE DEF a, l
  <2> QED BY <1>1, <1>2, <2>1, <2>2, <2>3, NamesAssumption
<1>6. WithdrawnStaysWithdrawn'
  <2> SUFFICES ASSUME NEW b \in Accounts, labelOfAccount'[b] # None
               PROVE  author'[b].after = withdrawals'[b]
    BY DEF WithdrawnStaysWithdrawn
  <2>1. b # a
    BY <1>1 DEF ReleaseFor, AliasInv, AliasType
  <2> QED BY <1>1, <2>1 DEF ReleaseFor, AliasInv, AliasType, WithdrawnStaysWithdrawn
<1> QED BY <1>3, <1>4, <1>5, <1>6

\* Mining a signature: a claim, a release, or nothing.
LEMMA ExecuteKeeps ==
  ASSUME AliasInv, NEW s \in signed, Execute(s), UNCHANGED signed
  PROVE  /\ AliasType' /\ UpToDate(signed', nonces', withdrawals')
         /\ NamesInverse' /\ WithdrawnStaysWithdrawn'
<1>1. CASE ~Accepts(s)
  BY <1>1 DEF Execute, contract, AliasInv, AliasType, NamesInverse, WithdrawnStaysWithdrawn
<1>2. CASE Accepts(s) /\ s.kind = "claim"
  <2> ClaimFor(s) BY <1>2 DEF Execute
  <2> QED BY <1>2, ClaimKeeps
<1>3. CASE Accepts(s) /\ s.kind # "claim"
  <2> ReleaseFor(s) BY <1>3 DEF Execute
  <2> QED BY <1>3, ReleaseKeeps
<1> QED BY <1>1, <1>2, <1>3

\* The actions that leave the resolver and the signatures alone.
LEMMA AliasUntouched ==
  ASSUME AliasInv, UNCHANGED <<contract, signed, pool, requests>>
  PROVE  AliasInv'
BY DEF AliasInv, AliasType, NamesInverse, WithdrawnStaysWithdrawn, Carried, UpToDate, contract

LEMMA AliasStep == AliasInv /\ [Next]_vars => AliasInv'
<1> SUFFICES ASSUME AliasInv, [Next]_vars PROVE AliasInv'
  OBVIOUS
<1>1. ASSUME NEW kind \in {"claim", "release"}, NEW l \in Labels, NEW a \in Accounts,
             NEW d \in 0..MaxTime, Sign(kind, l, a, d)
      PROVE  AliasInv'
  <2> PICK s : s = [kind |-> kind, label |-> l, account |-> a, deadline |-> d,
                    nonce |-> nonces[a], after |-> withdrawals[a]]
    OBVIOUS
  <2>1. signed' = signed \cup {s} /\ UNCHANGED <<contract, pool, requests>>
    BY <1>1 DEF Sign, NameInfo, NameNonce, relay
  <2>2. s \in Sig /\ s.nonce <= nonces[s.account] /\ s.after = withdrawals[s.account]
    BY NamesAssumption DEF Sig, AliasInv, AliasType
  <2>3. Carried(signed', pool', requests')
    BY <2>1, <2>2 DEF AliasInv, Carried
  <2>4. UpToDate(signed', nonces', withdrawals')
    BY <2>1, <2>2 DEF AliasInv, UpToDate, contract
  <2> QED BY <2>1, <2>3, <2>4 DEF AliasInv, AliasType, NamesInverse, WithdrawnStaysWithdrawn, contract
<1>2. ASSUME NEW s \in signed, CarriedByOther(s) PROVE AliasInv'
  <2>1. Execute(s) /\ UNCHANGED <<signed, pool, requests>>
    BY <1>2 DEF CarriedByOther, relay
  <2>2. /\ AliasType' /\ UpToDate(signed', nonces', withdrawals')
        /\ NamesInverse' /\ WithdrawnStaysWithdrawn'
    BY <2>1, ExecuteKeeps
  <2> QED BY <2>1, <2>2 DEF AliasInv, Carried
<1>3. ASSUME NEW s \in signed, NEW i \in Slots, RelayName(i, s) PROVE AliasInv'
  <2>1. /\ UNCHANGED <<contract, signed, pool>>
        /\ requests' = [requests EXCEPT ![i] = [pc |-> "simulate", sig |-> s, tx |-> NoTx]]
    BY <1>3 DEF RelayName
  <2>2. Carried(signed', pool', requests')
    BY <2>1 DEF AliasInv, Carried
  <2> QED BY <2>1, <2>2 DEF AliasInv, AliasType, UpToDate, NamesInverse, WithdrawnStaysWithdrawn, contract
<1>4. ASSUME NEW t \in pool, MinePool(t) PROVE AliasInv'
  <2>1. t.sig \in signed /\ Execute(t.sig) /\ UNCHANGED signed
    BY <1>4 DEF MinePool, AliasInv, Carried
  <2>2. /\ AliasType' /\ UpToDate(signed', nonces', withdrawals')
        /\ NamesInverse' /\ WithdrawnStaysWithdrawn'
    BY <2>1, ExecuteKeeps
  <2>3. Carried(signed', pool', requests')
    <3>1. pool' \subseteq pool /\ DOMAIN requests' = Slots /\ UNCHANGED signed
      BY <1>4 DEF MinePool
    <3>2. ASSUME NEW i \in Slots, requests'[i].pc # "free" PROVE requests'[i].sig \in signed
      <4>1. CASE requests[i].pc = "wait" /\ requests[i].tx = t
        <5>1. requests'[i] = [requests[i] EXCEPT !.pc = "mined"]
          BY <1>4, <4>1 DEF MinePool
        <5>2. requests'[i].sig = requests[i].sig
          BY <5>1
        <5> QED BY <4>1, <5>2 DEF AliasInv, Carried
      <4>2. CASE ~(requests[i].pc = "wait" /\ requests[i].tx = t)
        BY <1>4, <3>2, <4>2 DEF MinePool, AliasInv, Carried
      <4> QED BY <4>1, <4>2
    <3> QED BY <3>1, <3>2 DEF AliasInv, Carried
  <2> QED BY <2>2, <2>3 DEF AliasInv
<1>5. ASSUME NEW t \in pool, DropPool(t) PROVE AliasInv'
  <2>1. pool' \subseteq pool /\ UNCHANGED <<contract, signed, requests>>
    BY <1>5 DEF DropPool, relay
  <2>2. Carried(signed', pool', requests')
    BY <2>1 DEF AliasInv, Carried
  <2> QED BY <2>1, <2>2 DEF AliasInv, AliasType, UpToDate, NamesInverse, WithdrawnStaysWithdrawn, contract
<1>6. ASSUME NEW i \in Slots, SimulateName(i) PROVE AliasInv'
  <2>1. UNCHANGED <<contract, signed, pool>> /\ requests[i].pc # "free"
    BY <1>6 DEF SimulateName
  <2>2. \/ requests' = [requests EXCEPT ![i].pc = "send"]
        \/ requests' = [requests EXCEPT ![i] = Free]
    BY <1>6 DEF SimulateName
  <2>3. Carried(signed', pool', requests')
    <3>1. DOMAIN requests' = Slots
      BY <2>2 DEF AliasInv, Carried
    <3>2. ASSUME NEW k \in Slots, requests'[k].pc # "free" PROVE requests'[k].sig \in signed
      <4>1. CASE k # i
        BY <2>2, <3>2, <4>1 DEF AliasInv, Carried
      <4>2. CASE k = i
        <5>1. requests'[i] = [requests[i] EXCEPT !.pc = "send"] \/ requests'[i] = Free
          BY <2>2 DEF AliasInv, Carried
        <5>2. requests'[i] = [requests[i] EXCEPT !.pc = "send"]
          BY <3>2, <4>2, <5>1 DEF Free
        <5>3. requests'[i].sig = requests[i].sig
          BY <5>2
        <5> QED BY <2>1, <4>2, <5>3 DEF AliasInv, Carried
      <4> QED BY <4>1, <4>2
    <3> QED BY <2>1, <3>1, <3>2 DEF AliasInv, Carried
  <2> QED BY <2>1, <2>3 DEF AliasInv, AliasType, UpToDate, NamesInverse, WithdrawnStaysWithdrawn, contract
<1>7. ASSUME NEW i \in Slots, SendName(i) PROVE AliasInv'
  <2> PICK t : t = [id |-> <<i, trouble.seen["requests"]>>, sig |-> requests[i].sig]
    OBVIOUS
  <2>1. UNCHANGED <<contract, signed>> /\ requests[i].pc # "free" /\ t.sig = requests[i].sig
    BY <1>7 DEF SendName
  <2>2. \/ /\ requests' = [requests EXCEPT ![i].pc = "wait", ![i].tx = t]
           /\ pool' = pool \cup {t}
        \/ requests' = [requests EXCEPT ![i] = Free] /\ pool' = pool
    BY <1>7 DEF SendName
  <2>3. Carried(signed', pool', requests')
    <3>1. DOMAIN requests' = Slots /\ \A r \in pool' : r.sig \in signed
      BY <2>1, <2>2 DEF AliasInv, Carried
    <3>2. ASSUME NEW k \in Slots, requests'[k].pc # "free" PROVE requests'[k].sig \in signed
      <4>1. CASE k # i
        BY <2>2, <3>2, <4>1 DEF AliasInv, Carried
      <4>2. CASE k = i
        <5>1. requests'[i] = [requests[i] EXCEPT !.pc = "wait", !.tx = t] \/ requests'[i] = Free
          BY <2>2 DEF AliasInv, Carried
        <5>2. requests'[i] = [requests[i] EXCEPT !.pc = "wait", !.tx = t]
          BY <3>2, <4>2, <5>1 DEF Free
        <5>3. requests'[i].sig = requests[i].sig
          BY <5>2
        <5> QED BY <2>1, <4>2, <5>3 DEF AliasInv, Carried
      <4> QED BY <4>1, <4>2
    <3> QED BY <2>1, <3>1, <3>2 DEF AliasInv, Carried
  <2> QED BY <2>1, <2>3 DEF AliasInv, AliasType, UpToDate, NamesInverse, WithdrawnStaysWithdrawn, contract
<1>8. ASSUME NEW i \in Slots, AnswerName(i) PROVE AliasInv'
  <2>1. UNCHANGED <<contract, signed, pool>> /\ requests' = [requests EXCEPT ![i] = Free]
    BY <1>8 DEF AnswerName
  <2>2. Carried(signed', pool', requests')
    BY <2>1 DEF AliasInv, Carried, Free
  <2> QED BY <2>1, <2>2 DEF AliasInv, AliasType, UpToDate, NamesInverse, WithdrawnStaysWithdrawn, contract
<1>9. CASE \/ ToolStep \/ LinkByHand \/ ChangeGoal \/ MineOutbox \/ DropOutbox \/ Tick
           \/ UNCHANGED vars
  <2>1. UNCHANGED <<contract, signed, pool, requests>>
    <3>1. ToolStep => UNCHANGED <<contract, signed, pool, requests>>
      BY DEF ToolStep, DeployResolver, DeployResolverWait, Attach, DeployProxyWait, SetSubregistry,
             SetSubregistryWait, PointLabel, PointLabelWait, ReadBack, LinkByHandWait, Wait, relay
    <3>2. CASE LinkByHand \/ ChangeGoal \/ MineOutbox \/ DropOutbox \/ Tick \/ UNCHANGED vars
      BY <3>2 DEF LinkByHand, ChangeGoal, MineOutbox, DropOutbox, Tick, vars, relay
    <3> QED BY <1>9, <3>1, <3>2
  <2> QED BY <2>1, AliasUntouched
<1>10. ASSUME NEW a \in Accounts, NEW g \in Digests, NEW d \in 0..MaxTime, SignHint(a, g, d)
       PROVE  AliasInv'
  BY <1>10, AliasUntouched DEF SignHint, relay
<1>11. ASSUME NEW i \in Slots, PutAccountHint(i) PROVE AliasInv'
  BY <1>11, AliasUntouched DEF PutAccountHint, relay
<1>12. ASSUME NEW i \in Slots, NEW h \in signedHints, PostAccountHint(i, h) PROVE AliasInv'
  BY <1>12, AliasUntouched DEF PostAccountHint, relay
<1> QED
  BY <1>1, <1>2, <1>3, <1>4, <1>5, <1>6, <1>7, <1>8, <1>9, <1>10, <1>11, <1>12 DEF Next

-----------------------------------------------------------------------------
(* The hint store.                                                         *)

LEMMA HintInitially == Init => HintInv
BY DEF Init, HintInv, NoHint, NoPost

LEMMA HintUntouched == ASSUME HintInv, UNCHANGED hinting PROVE HintInv'
BY DEF HintInv, hinting

LEMMA PutKeeps == ASSUME HintInv, NEW i \in Slots, PutAccountHint(i) PROVE HintInv'
<1> DEFINE p == posts[i]  old == hints[p.account]
<1>1. p.pc = "put" /\ p.account \in Accounts /\ p.deadline \in Nat /\ UNCHANGED signedHints
  BY DEF PutAccountHint, HintInv
<1>2. posts' = [posts EXCEPT ![i] = NoPost]
  BY DEF PutAccountHint
<1>3. /\ DOMAIN posts' = Slots
      /\ \A k \in Slots : posts'[k].pc # "free" =>
           posts'[k].account \in Accounts /\ posts'[k].deadline \in Nat
  BY <1>2 DEF HintInv, NoPost
<1>4. CASE ~Rises(p.account, p.deadline)
  BY <1>1, <1>3, <1>4 DEF PutAccountHint, HintInv
<1>5. CASE Rises(p.account, p.deadline)
  <2> PICK new : new = [digest |-> p.digest, deadline |-> p.deadline, at |-> now]
    OBVIOUS
  <2> PICK was : was = [digest |-> old.digest, deadline |-> old.deadline]
    OBVIOUS
  <2>1. hints' = [hints EXCEPT ![p.account] = new]
    BY <1>5 DEF PutAccountHint
  <2>2. \/ replaced' = replaced
        \/ replaced' = [replaced EXCEPT ![p.account] = @ \cup {was}]
    BY <1>5 DEF PutAccountHint
  <2>3. /\ new.deadline = p.deadline /\ was.deadline = hints[p.account].deadline
        /\ hints[p.account].deadline < p.deadline /\ hints[p.account].deadline \in Int
    BY <1>1, <1>5 DEF Rises, HintInv
  <2> HIDE DEF p, old
  <2>4. ASSUME NEW a \in Accounts
        PROVE  /\ hints'[a].deadline \in Int
               /\ \A h \in replaced'[a] : h.deadline \in Int /\ h.deadline < hints'[a].deadline
    <3>1. CASE a = p.account
      <4>1. hints'[a].deadline = p.deadline
        BY <2>1, <2>3, <3>1 DEF HintInv
      <4>2. ASSUME NEW h \in replaced'[a] PROVE h \in replaced[a] \/ h = was
        BY <2>2, <3>1, <4>2 DEF HintInv
      <4>3. ASSUME NEW h \in replaced'[a] PROVE h.deadline \in Int /\ h.deadline < hints'[a].deadline
        <5>1. CASE h = was
          BY <1>1, <2>3, <4>1, <5>1
        <5>2. CASE h \in replaced[a]
          BY <1>1, <2>3, <3>1, <4>1, <5>2 DEF HintInv
        <5> QED BY <4>2, <4>3, <5>1, <5>2
      <4> QED BY <1>1, <4>1, <4>3
    <3>2. CASE a # p.account
      BY <2>1, <2>2, <3>2 DEF HintInv
    <3> QED BY <3>1, <3>2
  <2>5. DOMAIN hints' = Accounts /\ DOMAIN replaced' = Accounts
    BY <2>1, <2>2 DEF HintInv
  <2> QED BY <1>1, <1>3, <2>4, <2>5 DEF HintInv
<1> QED BY <1>4, <1>5

LEMMA HintStep == HintInv /\ [Next]_vars => HintInv'
<1> SUFFICES ASSUME HintInv, [Next]_vars PROVE HintInv'
  OBVIOUS
<1>1. ASSUME NEW a \in Accounts, NEW g \in Digests, NEW d \in 0..MaxTime, SignHint(a, g, d)
      PROVE  HintInv'
  BY <1>1, NamesAssumption DEF SignHint, HintInv, Hint
<1>2. ASSUME NEW i \in Slots, PutAccountHint(i) PROVE HintInv'
  BY <1>2, PutKeeps
<1>3. ASSUME NEW i \in Slots, NEW h \in signedHints, PostAccountHint(i, h) PROVE HintInv'
  <2>1. h.account \in Accounts /\ h.deadline \in Nat
    BY DEF HintInv, Hint
  <2> PICK p : p = [pc |-> "put", account |-> h.account, digest |-> h.digest,
                    deadline |-> h.deadline]
    OBVIOUS
  <2>2. posts' = [posts EXCEPT ![i] = p] /\ UNCHANGED <<hints, signedHints, replaced>>
    BY <1>3 DEF PostAccountHint
  <2> QED BY <2>1, <2>2 DEF HintInv
<1>4. CASE \/ ToolStep \/ LinkByHand \/ ChangeGoal \/ MineOutbox \/ DropOutbox \/ Tick
           \/ UNCHANGED vars
  <2>1. ToolStep => UNCHANGED hinting
    BY DEF ToolStep, DeployResolver, DeployResolverWait, Attach, DeployProxyWait, SetSubregistry,
           SetSubregistryWait, PointLabel, PointLabelWait, ReadBack, LinkByHandWait, Wait
  <2>2. CASE LinkByHand \/ ChangeGoal \/ MineOutbox \/ DropOutbox \/ Tick \/ UNCHANGED vars
    BY <2>2, HintUntouched DEF LinkByHand, ChangeGoal, MineOutbox, DropOutbox, Tick, vars
  <2> QED BY <1>4, <2>1, <2>2, HintUntouched
<1>5. ASSUME \/ \E kind \in {"claim", "release"}, l \in Labels, a \in Accounts, d \in 0..MaxTime :
                  Sign(kind, l, a, d)
             \/ \E s \in signed : CarriedByOther(s) \/ \E i \in Slots : RelayName(i, s)
             \/ \E t \in pool : MinePool(t) \/ DropPool(t)
             \/ \E i \in Slots : SimulateName(i) \/ SendName(i) \/ AnswerName(i)
      PROVE  HintInv'
  <2>1. UNCHANGED hinting
    BY <1>5 DEF Sign, CarriedByOther, RelayName, MinePool, DropPool, SimulateName, SendName, AnswerName
  <2> QED BY <2>1, HintUntouched
<1> QED BY <1>1, <1>2, <1>3, <1>4, <1>5 DEF Next

-----------------------------------------------------------------------------

\* What an account said of itself last stands (names.go, accounthint.go and
\* HintAliasResolver.sol): whatever signatures are relayed, carried by others, kept in the
\* pool or posted again, in any order and number, a withdrawn name and a replaced hint do
\* not come back, and the two mappings of the resolver are inverse.
THEOREM NamesLastWord == FairSpec => []LastWordStands
<1>1. AliasInv /\ HintInv => LastWordStands
  <2> SUFFICES ASSUME AliasInv, HintInv PROVE LastWordStands
    OBVIOUS
  <2>1. ReplacedHintIsGone
    BY DEF HintInv, ReplacedHintIsGone
  <2> QED BY <2>1 DEF AliasInv, LastWordStands
<1>2. FairSpec => [](AliasInv /\ HintInv)
  BY AliasInitially, AliasStep, HintInitially, HintStep, PTL DEF FairSpec, Spec
<1> QED BY <1>1, <1>2, PTL

-----------------------------------------------------------------------------
(* Counting upwards, and the library's recursive definitions.              *)

\* Induction, of a set: the library's principle takes an operator.
LEMMA Upwards ==
  ASSUME NEW G, 0 \in G, \A m \in Nat : m \in G => m + 1 \in G
  PROVE  \A m \in Nat : m \in G
<1> SUFFICES ASSUME NEW k \in Nat, k \notin G PROVE FALSE
  OBVIOUS
<1>1. PICK B : B = {m \in Nat : m \notin G}
  OBVIOUS
<1>2. B \subseteq Nat /\ B # {}
  BY <1>1
<1>3. Min(B) \in B /\ \A m \in B : Min(B) <= m
  BY <1>2, LeastOf
<1>4. PICK n \in B : \A m \in B : n <= m
  BY <1>3
<1>5. n \in Nat /\ n \notin G /\ n # 0
  BY <1>1
<1>6. n - 1 \in Nat /\ n - 1 \notin B /\ n = (n - 1) + 1
  BY <1>4, <1>5
<1>7. n - 1 \in G
  BY <1>1, <1>6
<1> QED BY <1>5, <1>6, <1>7

\* A set of small numbers has a greatest element.
LEMMA GreatestOf ==
  ASSUME NEW n \in Nat, NEW B, B \subseteq 0 .. n, B # {}
  PROVE  Max(B) \in B /\ \A m \in B : Max(B) >= m
<1>1. PICK M : M = {n - m : m \in B}
  OBVIOUS
<1>2. \A m \in B : m \in 0 .. n /\ n - m \in Nat
  OBVIOUS
<1>3. M \subseteq Nat /\ M # {}
  BY <1>1, <1>2
<1>4. PICK k \in M : \A m \in M : k <= m
  BY <1>3, LeastOf
<1>5. PICK b \in B : k = n - b
  BY <1>1, <1>4
<1>6. \A m \in B : n - b <= n - m
  BY <1>1, <1>4, <1>5
<1>7. \A m \in B : b >= m
  BY <1>2, <1>6
<1>8. \E x \in B : \A m \in B : x >= m
  BY <1>7
<1> QED BY <1>8 DEF Max

\* A list by its length.
IsList(s, n) == n \in Nat /\ s = [i \in 1 .. n |-> s[i]]

LEMMA ListLength ==
  ASSUME NEW n, NEW s, IsList(s, n)
  PROVE  /\ n \in Nat /\ DOMAIN s = 1 .. n /\ Len(s) = n
         /\ \A S : (\A i \in 1 .. n : s[i] \in S) => s \in Seq(S)
<1>1. n \in Nat /\ s = [i \in 1 .. n |-> s[i]]
  BY DEF IsList
<1>2. \A S : (\A i \in 1 .. n : s[i] \in S) => s \in [1 .. n -> S]
  BY <1>1
<1>3. \A S : s \in [1 .. n -> S] => s \in Seq(S)
  BY <1>1
<1>4. PICK S : S = {s[i] : i \in 1 .. n}
  OBVIOUS
<1>5. s \in Seq(S) /\ DOMAIN s = 1 .. n
  BY <1>1, <1>2, <1>3, <1>4
<1>6. Len(s) = n
  BY <1>1, <1>5
<1> QED BY <1>1, <1>2, <1>3, <1>5, <1>6

LEMMA ElementsOf ==
  ASSUME NEW S, NEW s \in Seq(S)
  PROVE  Len(s) \in Nat /\ DOMAIN s = 1 .. Len(s) /\ \A i \in DOMAIN s : s[i] \in S
  OBVIOUS

\* One more at the end.
LEMMA Longer ==
  ASSUME NEW n \in Nat, NEW s, NEW x, IsList(s, n)
  PROVE  /\ IsList(Append(s, x), n + 1) /\ Append(s, x)[n + 1] = x
         /\ \A i \in 1 .. n : Append(s, x)[i] = s[i]
         /\ s \o <<x>> = Append(s, x)
<1>1. PICK S : S = {s[i] : i \in 1 .. n} \cup {x}
  OBVIOUS
<1>2. s \in Seq(S) /\ Len(s) = n /\ x \in S
  BY <1>1, ListLength
<1> QED BY <1>2 DEF IsList

-----------------------------------------------------------------------------
(* Verify walks a proof: the fold of a list of siblings.                    *)

Walk(b, s) == FoldLeft(HashPair, b, s)

\* g tabulates the fold over the sets of positions.
WalkTable(b, s, g) ==
  g = [u \in SUBSET DOMAIN s |->
         IF u = {} THEN b ELSE HashPair(g[u \ {Max(u)}], s[Max(u)])]

LEMMA WalkIsTable ==
  ASSUME NEW b, NEW s
  PROVE  Walk(b, s) = (CHOOSE g : WalkTable(b, s, g))[DOMAIN s]
  BY DEF Walk, FoldLeft, MapThenFoldSet, WalkTable

\* The table exists, by the size of the sets it is right about.
LEMMA WalkTableExists ==
  ASSUME NEW b, NEW n \in Nat, NEW s, DOMAIN s = 1 .. n
  PROVE  \E g : WalkTable(b, s, g)
<1> DEFINE Value(g, u) == IF u = {} THEN b ELSE HashPair(g[u \ {Max(u)}], s[Max(u)])
           Right(m, g) == \A u \in SUBSET (1 .. n) : u \subseteq 1 .. m => g[u] = Value(g, u)
           Tabulated(m) == \E g : Right(m, g)
           G == {m \in Nat : Tabulated(m)}
<1>1. ASSUME NEW u \in SUBSET (1 .. n), u # {} PROVE Max(u) \in u /\ \A k \in u : Max(u) >= k
  <2>1. 1 .. n \subseteq 0 .. n
    OBVIOUS
  <2>2. u \subseteq 0 .. n
    BY <2>1
  <2> QED BY <1>1, <2>2, GreatestOf
<1>2. Tabulated(0)
  <2>1. \A u \in SUBSET (1 .. n) : u \subseteq 1 .. 0 => u = {}
    OBVIOUS
  <2>2. PICK g : g = [u \in SUBSET (1 .. n) |-> b]
    OBVIOUS
  <2>3. Right(0, g)
    BY <2>1, <2>2
  <2> QED BY <2>3
<1>3. ASSUME NEW m \in Nat, Tabulated(m) PROVE Tabulated(m + 1)
  <2>1. PICK g : Right(m, g)
    BY <1>3
  <2>2. PICK h : h = [u \in SUBSET (1 .. n) |-> IF u \subseteq 1 .. m THEN g[u] ELSE Value(g, u)]
    OBVIOUS
  <2>3. ASSUME NEW u \in SUBSET (1 .. n), u \subseteq 1 .. (m + 1) PROVE h[u] = Value(h, u)
    <3>1. CASE u = {}
      <4>1. u \subseteq 1 .. m
        BY <3>1
      <4>2. g[u] = b
        BY <2>1, <3>1, <4>1
      <4> QED BY <2>2, <3>1, <4>1, <4>2
    <3>2. CASE u # {}
      <4>1. PICK t : t = u \ {Max(u)}
        OBVIOUS
      <4>2. Max(u) \in u /\ \A k \in u : Max(u) >= k
        BY <1>1, <3>2
      <4>3. t \in SUBSET (1 .. n) /\ t \subseteq 1 .. m
        <5>1. PICK k \in u : k = Max(u) /\ \A j \in u : k >= j
          BY <4>2
        <5>2. k \in 1 .. (m + 1) /\ \A j \in u : j \in 1 .. (m + 1)
          BY <2>3, <5>1
        <5>3. \A j \in t : j \in u /\ j # k
          BY <4>1, <5>1
        <5>4. ASSUME NEW j \in t PROVE j \in 1 .. m
          <6>1. j \in u /\ j # k /\ k >= j /\ k \in 1 .. (m + 1) /\ j \in 1 .. (m + 1)
            BY <5>1, <5>2, <5>3
          <6> QED BY ONLY <6>1, m \in Nat
        <5> QED BY <4>1, <5>4
      <4>4. h[t] = g[t]
        BY <2>2, <4>3
      <4>5. h[u] = Value(g, u)
        <5>1. CASE u \subseteq 1 .. m
          BY <2>1, <2>2, <5>1
        <5>2. CASE ~(u \subseteq 1 .. m)
          BY <2>2, <5>2
        <5> QED BY <5>1, <5>2
      <4> QED BY <3>2, <4>1, <4>4, <4>5
    <3> QED BY <3>1, <3>2
  <2>4. Right(m + 1, h)
    BY <2>3
  <2> HIDE DEF Right
  <2> QED BY <2>4
<1>4. Tabulated(n)
  <2> HIDE DEF Tabulated
  <2>1. \A m \in Nat : m \in G
    <3>1. 0 \in G /\ \A m \in Nat : m \in G => m + 1 \in G
      BY <1>2, <1>3
    <3> HIDE DEF G
    <3> QED BY <3>1, Upwards
  <2> QED BY <2>1
<1>5. PICK g : Right(n, g)
  BY <1>4
<1>6. PICK h : h = [u \in SUBSET (1 .. n) |-> g[u]]
  OBVIOUS
<1>7. \A u \in SUBSET (1 .. n) : h[u] = Value(h, u)
  <2> SUFFICES ASSUME NEW u \in SUBSET (1 .. n) PROVE h[u] = Value(h, u)
    OBVIOUS
  <2>1. u \ {Max(u)} \in SUBSET (1 .. n)
    OBVIOUS
  <2>2. h[u] = g[u] /\ g[u] = Value(g, u)
    BY <1>5, <1>6
  <2>3. h[u \ {Max(u)}] = g[u \ {Max(u)}]
    BY <1>6, <2>1
  <2> QED BY <2>2, <2>3
<1>8. h = [u \in SUBSET (1 .. n) |-> Value(h, u)]
  BY <1>6, <1>7
<1> QED BY <1>8 DEF WalkTable

\* acc holds what Verify has after each sibling.
Steps(b, s, n, acc) == acc[0] = b /\ \A k \in 1 .. n : acc[k] = HashPair(acc[k - 1], s[k])

LEMMA WalkSteps ==
  ASSUME NEW b, NEW n \in Nat, NEW s, DOMAIN s = 1 .. n
  PROVE  \E acc : Steps(b, s, n, acc) /\ Walk(b, s) = acc[n]
<1>1. PICK g : g = CHOOSE h : WalkTable(b, s, h)
  OBVIOUS
<1>2. WalkTable(b, s, g)
  BY <1>1, WalkTableExists
<1>3. \A u \in SUBSET (1 .. n) :
        g[u] = IF u = {} THEN b ELSE HashPair(g[u \ {Max(u)}], s[Max(u)])
  BY <1>2 DEF WalkTable
<1>4. PICK acc : acc = [k \in 0 .. n |-> g[1 .. k]]
  OBVIOUS
<1>5. acc[0] = b
  <2>1. 1 .. 0 = {} /\ 1 .. 0 \in SUBSET (1 .. n)
    OBVIOUS
  <2>2. g[1 .. 0] = b
    BY <1>3, <2>1
  <2> QED BY <1>4, <2>2
<1>6. ASSUME NEW k \in 1 .. n PROVE acc[k] = HashPair(acc[k - 1], s[k])
  <2>1. 1 .. k \in SUBSET (1 .. n) /\ 1 .. k # {} /\ 1 .. k \subseteq 0 .. n
    <3>1. 1 \in 1 .. k /\ 1 .. k \subseteq 1 .. n /\ 1 .. n \subseteq 0 .. n
      OBVIOUS
    <3> QED BY <3>1
  <2>2. Max(1 .. k) \in 1 .. k /\ \A m \in 1 .. k : Max(1 .. k) >= m
    BY <2>1, GreatestOf
  <2>3. k \in 1 .. k
    OBVIOUS
  <2>4. Max(1 .. k) = k
    BY <2>2, <2>3
  <2>5. (1 .. k) \ {k} = 1 .. (k - 1)
    OBVIOUS
  <2>6. g[1 .. k] = HashPair(g[1 .. (k - 1)], s[k])
    BY <1>3, <2>1, <2>4, <2>5
  <2>7. acc[k] = g[1 .. k] /\ acc[k - 1] = g[1 .. (k - 1)]
    BY <1>4
  <2> QED BY <2>6, <2>7
<1>7. Walk(b, s) = acc[n]
  BY <1>1, <1>4, WalkIsTable
<1> QED BY <1>5, <1>6, <1>7 DEF Steps

\* Two walks over the same siblings agree as far as both go.
LEMMA StepsAgree ==
  ASSUME NEW b, NEW n \in Nat, NEW s, NEW t, \A k \in 1 .. n : s[k] = t[k],
         NEW acc, NEW bcc, Steps(b, s, n, acc), Steps(b, t, n, bcc)
  PROVE  \A k \in 0 .. n : acc[k] = bcc[k]
<1> DEFINE G == {k \in Nat : k <= n => acc[k] = bcc[k]}
<1>1. 0 \in G
  BY DEF Steps
<1>2. ASSUME NEW m \in Nat, m \in G PROVE m + 1 \in G
  <2> SUFFICES ASSUME m + 1 <= n PROVE acc[m + 1] = bcc[m + 1]
    OBVIOUS
  <2>1. m + 1 \in 1 .. n /\ (m + 1) - 1 = m /\ acc[m] = bcc[m]
    BY <1>2
  <2>2. acc[m + 1] = HashPair(acc[m], s[m + 1]) /\ bcc[m + 1] = HashPair(bcc[m], t[m + 1])
    BY <2>1 DEF Steps
  <2> QED BY <2>1, <2>2
<1>3. \A k \in Nat : k \in G
  <2> HIDE DEF G
  <2> QED BY <1>1, <1>2, Upwards
<1> QED BY <1>3

\* No sibling leaves the node as it is.
LEMMA WalkNowhere == ASSUME NEW b PROVE Walk(b, <<>>) = b
<1>1. DOMAIN <<>> = 1 .. 0
  OBVIOUS
<1>2. PICK acc : Steps(b, <<>>, 0, acc) /\ Walk(b, <<>>) = acc[0]
  BY <1>1, WalkSteps
<1> QED BY <1>2 DEF Steps

\* One more sibling is hashed in last.
LEMMA WalkFurther ==
  ASSUME NEW b, NEW n \in Nat, NEW s, NEW x, IsList(s, n)
  PROVE  Walk(b, Append(s, x)) = HashPair(Walk(b, s), x)
<1>1. DOMAIN s = 1 .. n /\ DOMAIN Append(s, x) = 1 .. (n + 1) /\ Append(s, x)[n + 1] = x
      /\ \A k \in 1 .. n : Append(s, x)[k] = s[k]
  BY Longer, ListLength
<1>2. PICK acc : Steps(b, s, n, acc) /\ Walk(b, s) = acc[n]
  BY <1>1, WalkSteps
<1>3. PICK bcc : Steps(b, Append(s, x), n + 1, bcc) /\ Walk(b, Append(s, x)) = bcc[n + 1]
  <2>1. PICK m \in Nat : m = n + 1
    OBVIOUS
  <2>2. PICK t : t = Append(s, x)
    OBVIOUS
  <2>3. DOMAIN t = 1 .. m
    BY <1>1, <2>1, <2>2
  <2>4. PICK bcc : Steps(b, t, m, bcc) /\ Walk(b, t) = bcc[m]
    BY ONLY <2>3, m \in Nat, WalkSteps
  <2> QED BY <2>1, <2>2, <2>4
<1>4. Steps(b, Append(s, x), n, bcc)
  <2>1. \A k \in 1 .. n : k \in 1 .. (n + 1)
    OBVIOUS
  <2> QED BY <1>3, <2>1 DEF Steps
<1>5. acc[n] = bcc[n]
  <2>1. PICK t : t = Append(s, x)
    OBVIOUS
  <2>2. \A k \in 1 .. n : s[k] = t[k]
    BY <1>1, <2>1
  <2>3. \A k \in 0 .. n : acc[k] = bcc[k]
    <3>1. Steps(b, s, n, acc) /\ Steps(b, t, n, bcc)
      BY <1>2, <1>4, <2>1
    <3> QED BY ONLY <3>1, <2>2, n \in Nat, StepsAgree
  <2> QED BY <2>3
<1>6. n + 1 \in 1 .. (n + 1) /\ (n + 1) - 1 = n
  OBVIOUS
<1>7. bcc[n + 1] = HashPair(bcc[n], x)
  BY <1>1, <1>3, <1>6 DEF Steps
<1> QED BY <1>2, <1>3, <1>5, <1>7

\* Hashing in a sibling loses nothing of the node.
LEMMA PairDetermines ==
  ASSUME NEW a, NEW b, NEW c, HashPair(a, c) = HashPair(b, c)
  PROVE  a = b
<1>1. {a, c} = {b, c}
  BY DEF HashPair
<1> QED BY <1>1

LEMMA PairSymmetric == ASSUME NEW a, NEW b PROVE HashPair(a, b) = HashPair(b, a)
<1>1. {a, b} = {b, a}
  OBVIOUS
<1> QED BY <1>1 DEF HashPair

\* So a proof verifies for one leaf only.
LEMMA WalkDetermines ==
  ASSUME NEW a, NEW b, NEW n \in Nat, NEW s, DOMAIN s = 1 .. n, Walk(a, s) = Walk(b, s)
  PROVE  a = b
<1>1. PICK acc : Steps(a, s, n, acc) /\ Walk(a, s) = acc[n]
  BY WalkSteps
<1>2. PICK bcc : Steps(b, s, n, bcc) /\ Walk(b, s) = bcc[n]
  BY WalkSteps
<1> DEFINE G == {m \in Nat : m <= n => acc[n - m] = bcc[n - m]}
<1>3. 0 \in G
  <2>1. acc[n] = bcc[n]
    BY <1>1, <1>2, Zenon
  <2>2. n - 0 = n
    OBVIOUS
  <2> QED BY <2>1, <2>2
<1>4. ASSUME NEW m \in Nat, m \in G PROVE m + 1 \in G
  <2> SUFFICES ASSUME m + 1 <= n PROVE acc[n - (m + 1)] = bcc[n - (m + 1)]
    OBVIOUS
  <2>1. n - m \in 1 .. n /\ (n - m) - 1 = n - (m + 1) /\ acc[n - m] = bcc[n - m]
    BY <1>4
  <2>2. PICK k \in 1 .. n : k = n - m
    BY <2>1
  <2>3. acc[k] = HashPair(acc[k - 1], s[k]) /\ bcc[k] = HashPair(bcc[k - 1], s[k])
    BY <1>1, <1>2 DEF Steps
  <2>4. acc[k - 1] = bcc[k - 1]
    <3>1. HashPair(acc[k - 1], s[k]) = HashPair(bcc[k - 1], s[k])
      BY <2>1, <2>2, <2>3
    <3> QED BY ONLY <3>1, PairDetermines
  <2> QED BY <2>1, <2>2, <2>4
<1>5. n \in G
  <2> HIDE DEF G
  <2> QED BY <1>3, <1>4, Upwards
<1> QED BY <1>1, <1>2, <1>5 DEF Steps

-----------------------------------------------------------------------------
(* FlattenSeq joins lists from left to right.                              *)

FlatTable(q, n, fl) == fl = [i \in 1 .. n |-> IF i = 1 THEN q[i] ELSE fl[i - 1] \o q[i]]

LEMMA FlatIsTable ==
  ASSUME NEW q, NEW n \in Nat \ {0}, IsList(q, n)
  PROVE  FlattenSeq(q) = (CHOOSE fl : FlatTable(q, n, fl))[n]
<1>1. Len(q) = n /\ ~(n = 0)
  BY ListLength
<1> QED BY <1>1, Zenon DEF FlattenSeq, FlatTable

LEMMA FlatTableExists ==
  ASSUME NEW q, NEW n \in Nat
  PROVE  \E fl : FlatTable(q, n, fl)
<1> DEFINE Tabulated(m) == \E fl : FlatTable(q, m, fl)
           G == {m \in Nat : Tabulated(m)}
<1>1. Tabulated(0)
  <2>1. PICK fl : fl = [i \in 1 .. 0 |-> q[i]]
    OBVIOUS
  <2>2. fl = [i \in 1 .. 0 |-> IF i = 1 THEN q[i] ELSE fl[i - 1] \o q[i]]
    BY <2>1
  <2> QED BY <2>2 DEF FlatTable
<1>2. ASSUME NEW m \in Nat, Tabulated(m) PROVE Tabulated(m + 1)
  <2>1. PICK fl : FlatTable(q, m, fl)
    BY <1>2
  <2>2. PICK gl : gl = [i \in 1 .. (m + 1) |-> IF i = 1 THEN q[i] ELSE fl[i - 1] \o q[i]]
    OBVIOUS
  <2>3. \A i \in 1 .. m : gl[i] = fl[i]
    <3> SUFFICES ASSUME NEW i \in 1 .. m PROVE gl[i] = fl[i]
      OBVIOUS
    <3>1. i \in 1 .. (m + 1)
      OBVIOUS
    <3> QED BY <2>1, <2>2, <3>1 DEF FlatTable
  <2>4. \A i \in 1 .. (m + 1) : i # 1 => gl[i - 1] = fl[i - 1]
    <3>1. \A i \in 1 .. (m + 1) : i # 1 => i - 1 \in 1 .. m
      OBVIOUS
    <3> QED BY <2>3, <3>1
  <2>5. gl = [i \in 1 .. (m + 1) |-> IF i = 1 THEN q[i] ELSE gl[i - 1] \o q[i]]
    BY <2>2, <2>4
  <2>6. FlatTable(q, m + 1, gl)
    BY <2>5 DEF FlatTable
  <2> QED BY <2>6
<1> HIDE DEF Tabulated
<1>3. 0 \in G /\ \A m \in Nat : m \in G => m + 1 \in G
  BY <1>1, <1>2
<1>4. n \in G
  <2> HIDE DEF G
  <2> QED BY <1>3, Upwards
<1> QED BY <1>4 DEF Tabulated

\* fl is the join of the first k lists, for each k.
Joins(q, n, fl) == fl[0] = <<>> /\ \A k \in 1 .. n : fl[k] = fl[k - 1] \o q[k]

LEMMA FlattenJoins ==
  ASSUME NEW n, NEW q, IsList(q, n), \A k \in 1 .. n : \E m : IsList(q[k], m)
  PROVE  \E fl : Joins(q, n, fl) /\ FlattenSeq(q) = fl[n]
<1>1. n \in Nat /\ DOMAIN q = 1 .. n /\ Len(q) = n
  BY ListLength
<1>2. CASE n = 0
  <2>1. q = <<>>
    BY <1>1, <1>2 DEF IsList
  <2>2. PICK fl : fl = [k \in 0 .. 0 |-> <<>>]
    OBVIOUS
  <2>3. FlattenSeq(q) = q
    BY <1>1, <1>2 DEF FlattenSeq
  <2> QED BY <1>2, <2>1, <2>2, <2>3 DEF Joins
<1>3. CASE n # 0
  <2>1. n \in Nat \ {0}
    BY <1>1, <1>3
  <2>2. PICK gl : gl = CHOOSE fl : FlatTable(q, n, fl)
    OBVIOUS
  <2>3. FlatTable(q, n, gl)
    BY <1>1, <2>2, FlatTableExists
  <2>4. \A i \in 1 .. n : gl[i] = IF i = 1 THEN q[i] ELSE gl[i - 1] \o q[i]
    BY <2>3 DEF FlatTable
  <2>5. FlattenSeq(q) = gl[n]
    BY <2>1, <2>2, FlatIsTable
  <2>6. PICK fl : fl = [k \in 0 .. n |-> IF k = 0 THEN <<>> ELSE gl[k]]
    OBVIOUS
  <2>7. fl[0] = <<>> /\ \A k \in 1 .. n : fl[k] = gl[k]
    BY <1>1, <2>6
  <2>8. ASSUME NEW k \in 1 .. n PROVE fl[k] = fl[k - 1] \o q[k]
    <3>1. CASE k = 1
      <4>1. PICK m : IsList(q[k], m)
        OBVIOUS
      <4>2. q[k] \in Seq({q[k][i] : i \in 1 .. m})
        BY <4>1, ListLength
      <4>3. <<>> \o q[k] = q[k]
        BY <4>2
      <4>4. k - 1 = 0 /\ gl[k] = q[k]
        BY <2>4, <3>1
      <4> QED BY <2>7, <4>3, <4>4
    <3>2. CASE k # 1
      <4>1. k - 1 \in 1 .. n
        BY <1>1, <3>2
      <4> QED BY <2>4, <2>7, <3>2, <4>1
    <3> QED BY <3>1, <3>2
  <2>9. fl[n] = gl[n]
    BY <2>1, <2>7
  <2> QED BY <2>5, <2>7, <2>8, <2>9 DEF Joins
<1> QED BY <1>2, <1>3

\* Lists of things make a list of things.
LEMMA FlattenTyped ==
  ASSUME NEW n, NEW q, IsList(q, n), NEW S, \A k \in 1 .. n : q[k] \in Seq(S)
  PROVE  FlattenSeq(q) \in Seq(S)
<1>1. \A k \in 1 .. n : \E m : IsList(q[k], m)
  BY DEF IsList
<1>2. PICK fl : Joins(q, n, fl) /\ FlattenSeq(q) = fl[n]
  BY <1>1, FlattenJoins
<1> DEFINE G == {k \in Nat : k <= n => fl[k] \in Seq(S)}
<1>3. 0 \in G
  <2>1. fl[0] = <<>> /\ <<>> \in Seq(S)
    BY <1>2 DEF Joins
  <2> QED BY <2>1
<1>4. n \in Nat
  BY ListLength
<1>5. ASSUME NEW m \in Nat, m \in G PROVE m + 1 \in G
  <2> SUFFICES ASSUME m + 1 <= n PROVE fl[m + 1] \in Seq(S)
    OBVIOUS
  <2>1. m + 1 \in 1 .. n /\ (m + 1) - 1 = m /\ fl[m] \in Seq(S)
    BY <1>4, <1>5
  <2>2. fl[m + 1] = fl[m] \o q[m + 1] /\ q[m + 1] \in Seq(S)
    BY <1>2, <2>1 DEF Joins
  <2> QED BY <2>1, <2>2
<1>6. n \in G
  <2>1. 0 \in G /\ \A m \in Nat : m \in G => m + 1 \in G
    BY <1>3, <1>5
  <2> HIDE DEF G
  <2> QED BY <1>4, <2>1, Upwards
<1> QED BY <1>2, <1>4, <1>6

\* The walk over joined siblings, of which each part holds one or none.
WalksParts(b, q, n, w) ==
  /\ w[0] = b
  /\ \A d \in 1 .. n :
       w[d] = IF q[d] = <<>> THEN w[d - 1] ELSE HashPair(w[d - 1], q[d][1])
  /\ Walk(b, FlattenSeq(q)) = w[n]

LEMMA WalkJoined ==
  ASSUME NEW b, NEW n, NEW q, IsList(q, n),
         \A d \in 1 .. n : q[d] = <<>> \/ \E x : q[d] = <<x>>
  PROVE  /\ \E m : IsList(FlattenSeq(q), m)
         /\ \E w : WalksParts(b, q, n, w)
<1>1. n \in Nat
  BY ListLength
<1>2. IsList(<<>>, 0) /\ \A x : IsList(<<x>>, 1)
  BY DEF IsList
<1>3. \A d \in 1 .. n : \E m : IsList(q[d], m)
  BY <1>2
<1>4. PICK fl : Joins(q, n, fl) /\ FlattenSeq(q) = fl[n]
  BY <1>3, FlattenJoins
<1> DEFINE Listed(k) == \E m : IsList(fl[k], m)
           G == {k \in Nat : k <= n => Listed(k)}
<1>5. Listed(0)
  BY <1>2, <1>4 DEF Joins
<1>6. ASSUME NEW d \in 1 .. n, Listed(d - 1)
      PROVE  /\ Listed(d)
             /\ Walk(b, fl[d]) = IF q[d] = <<>> THEN Walk(b, fl[d - 1])
                                 ELSE HashPair(Walk(b, fl[d - 1]), q[d][1])
  <2>1. PICK m : IsList(fl[d - 1], m)
    BY <1>6
  <2>2. fl[d] = fl[d - 1] \o q[d]
    BY <1>4 DEF Joins
  <2>3. m \in Nat /\ fl[d - 1] \in Seq({fl[d - 1][i] : i \in 1 .. m})
    BY <2>1, ListLength
  <2>4. CASE q[d] = <<>>
    <3>1. fl[d] = fl[d - 1]
      BY <2>2, <2>3, <2>4
    <3> QED BY <2>1, <2>4, <3>1
  <2>5. CASE q[d] # <<>>
    <3>1. PICK x : q[d] = <<x>>
      BY <2>5
    <3>2. fl[d] = Append(fl[d - 1], x) /\ IsList(Append(fl[d - 1], x), m + 1)
      BY <2>1, <2>2, <2>3, <3>1, Longer
    <3>3. Walk(b, fl[d]) = HashPair(Walk(b, fl[d - 1]), x)
      <4>1. PICK s : s = fl[d - 1]
        OBVIOUS
      <4>2. IsList(s, m) /\ fl[d] = Append(s, x)
        BY <2>1, <3>2, <4>1
      <4>3. Walk(b, Append(s, x)) = HashPair(Walk(b, s), x)
        <5>1. m \in Nat /\ IsList(s, m)
          BY <2>3, <4>2
        <5> QED BY ONLY <5>1, WalkFurther
      <4> QED BY <4>1, <4>2, <4>3
    <3>4. q[d][1] = x
      BY <3>1
    <3> QED BY <2>5, <3>2, <3>3, <3>4
  <2> QED BY <2>4, <2>5
<1>7. \A k \in 0 .. n : Listed(k)
  <2>1. ASSUME NEW k \in Nat, k \in G PROVE k + 1 \in G
    <3> HIDE DEF Listed
    <3> SUFFICES ASSUME k + 1 <= n PROVE Listed(k + 1)
      OBVIOUS
    <3>1. k + 1 \in 1 .. n /\ (k + 1) - 1 = k /\ Listed(k)
      BY <1>1, <2>1
    <3> QED BY <1>6, <3>1
  <2>2. 0 \in G
    BY <1>5
  <2>3. \A k \in Nat : k \in G
    <3> HIDE DEF G
    <3> QED BY <2>1, <2>2, Upwards
  <2> QED BY <2>3
<1>8. PICK w : w = [k \in 0 .. n |-> Walk(b, fl[k])]
  OBVIOUS
<1>9. w[0] = b
  <2>2. Walk(b, <<>>) = b
    BY WalkNowhere
  <2>3. w[0] = Walk(b, fl[0])
    BY <1>1, <1>8
  <2>4. fl[0] = <<>>
    BY <1>4 DEF Joins
  <2> QED BY <2>2, <2>3, <2>4
<1>10. ASSUME NEW d \in 1 .. n
       PROVE  w[d] = IF q[d] = <<>> THEN w[d - 1] ELSE HashPair(w[d - 1], q[d][1])
  <2>1. w[d] = Walk(b, fl[d]) /\ w[d - 1] = Walk(b, fl[d - 1]) /\ d - 1 \in 0 .. n
    BY <1>1, <1>8
  <2>2. Listed(d - 1)
    BY <1>7, <2>1
  <2> HIDE DEF Listed
  <2> QED BY <1>6, <2>1, <2>2
<1>11. Walk(b, FlattenSeq(q)) = w[n]
  BY <1>1, <1>4, <1>8
<1>12. Listed(n)
  BY <1>1, <1>7
<1> QED BY <1>4, <1>9, <1>10, <1>11, <1>12 DEF WalksParts

-----------------------------------------------------------------------------
(* Build: the levels of a tree.                                            *)

\* up holds the levels above a list of leaves, as far as n.
Levels(leaves, n, up) ==
  up = [d \in 0 .. n |-> IF d = 0 THEN leaves ELSE NextLevel(up[d - 1])]

LEMMA LevelsExist ==
  ASSUME NEW leaves, NEW n \in Nat
  PROVE  \E up : Levels(leaves, n, up)
<1> DEFINE Tabulated(m) == \E up : Levels(leaves, m, up)
           G == {m \in Nat : Tabulated(m)}
<1>1. Tabulated(0)
  <2>1. PICK up : up = [d \in 0 .. 0 |-> leaves]
    OBVIOUS
  <2>2. up = [d \in 0 .. 0 |-> IF d = 0 THEN leaves ELSE NextLevel(up[d - 1])]
    BY <2>1
  <2> QED BY <2>2 DEF Levels
<1>2. ASSUME NEW m \in Nat, Tabulated(m) PROVE Tabulated(m + 1)
  <2>1. PICK up : Levels(leaves, m, up)
    BY <1>2
  <2>2. PICK tp : tp = [d \in 0 .. (m + 1) |-> IF d = 0 THEN leaves ELSE NextLevel(up[d - 1])]
    OBVIOUS
  <2>3. \A d \in 0 .. m : tp[d] = up[d]
    <3> SUFFICES ASSUME NEW d \in 0 .. m PROVE tp[d] = up[d]
      OBVIOUS
    <3>1. d \in 0 .. (m + 1)
      OBVIOUS
    <3> QED BY <2>1, <2>2, <3>1 DEF Levels
  <2>4. \A d \in 0 .. (m + 1) : d # 0 => tp[d - 1] = up[d - 1]
    <3>1. \A d \in 0 .. (m + 1) : d # 0 => d - 1 \in 0 .. m
      OBVIOUS
    <3> QED BY <2>3, <3>1
  <2>5. tp = [d \in 0 .. (m + 1) |-> IF d = 0 THEN leaves ELSE NextLevel(tp[d - 1])]
    BY <2>2, <2>4
  <2>6. Levels(leaves, m + 1, tp)
    BY <2>5 DEF Levels
  <2> QED BY <2>6
<1> HIDE DEF Tabulated
<1>3. 0 \in G /\ \A m \in Nat : m \in G => m + 1 \in G
  BY <1>1, <1>2
<1>4. n \in G
  <2> HIDE DEF G
  <2> QED BY <1>3, Upwards
<1> QED BY <1>4 DEF Tabulated

\* A level holds half the nodes of the one below, rounded up.
LEMMA NextLevelIs ==
  ASSUME NEW n \in Nat, NEW l, IsList(l, n)
  PROVE  /\ IsList(NextLevel(l), (n + 1) \div 2)
         /\ \A i \in 1 .. ((n + 1) \div 2) :
              NextLevel(l)[i] = IF 2 * i > n THEN l[2 * i - 1] ELSE HashPair(l[2 * i - 1], l[2 * i])
<1>1. Len(l) = n /\ (n + 1) \div 2 \in Nat
  BY ListLength
<1>2. PICK k \in Nat : k = (n + 1) \div 2
  BY <1>1
<1> QED BY <1>1, <1>2 DEF NextLevel, IsList

\* Build's local functions.
LevelsOf(leaves) == CHOOSE up : Levels(leaves, Len(leaves), up)
TopOf(leaves, up) ==
  CHOOSE d \in 0 .. Len(leaves) : Len(up[d]) <= 1 /\ \A e \in 0 .. d - 1 : Len(up[e]) > 1

LEMMA BuildIs ==
  ASSUME NEW leaves
  PROVE  Build(leaves) =
           [d \in 0 .. TopOf(leaves, LevelsOf(leaves)) |-> LevelsOf(leaves)[d]]
  BY Zenon DEF Build, Levels, LevelsOf, TopOf

\* The levels of a tree: every one but the last has two nodes or more, the last has one.
IsTree(tree, leaves, n, h) ==
  /\ h \in Nat /\ DOMAIN tree = 0 .. h /\ tree[0] = leaves
  /\ \A d \in 1 .. h : tree[d] = NextLevel(tree[d - 1])
  /\ \A d \in 0 .. h : \E m \in Nat \ {0} : IsList(tree[d], m) /\ (m = 1 <=> d = h)

LEMMA TreeIs ==
  ASSUME NEW n \in Nat \ {0}, NEW leaves, IsList(leaves, n)
  PROVE  \E h : /\ IsTree(Build(leaves), leaves, n, h)
                /\ Height(Build(leaves)) = h
                /\ Root(leaves) = Build(leaves)[h][1]
<1>1. n \in Nat /\ DOMAIN leaves = 1 .. n /\ Len(leaves) = n
  BY ListLength
<1>2. PICK up : up = LevelsOf(leaves)
  OBVIOUS
<1>3. Levels(leaves, n, up)
  BY <1>1, <1>2, LevelsExist DEF LevelsOf
<1>4. up[0] = leaves /\ \A d \in 1 .. n : up[d] = NextLevel(up[d - 1])
  BY <1>1, <1>3 DEF Levels
<1>5. \A m \in Nat \ {0} : (m + 1) \div 2 \in Nat \ {0} /\ (m > 1 => (m + 1) \div 2 < m)
  OBVIOUS
<1> DEFINE Short(d) == \E m \in Nat \ {0} : IsList(up[d], m) /\ (m = 1 \/ m + d <= n)
           G == {d \in Nat : d <= n => Short(d)}
<1>6. Short(0)
  BY <1>1, <1>4
<1>7. ASSUME NEW d \in Nat, d + 1 <= n, Short(d) PROVE Short(d + 1)
  <2>1. PICK m \in Nat \ {0} : IsList(up[d], m) /\ (m = 1 \/ m + d <= n)
    BY <1>7
  <2>2. d + 1 \in 1 .. n /\ (d + 1) - 1 = d
    BY <1>1, <1>7
  <2>3. PICK k \in Nat \ {0} : k = (m + 1) \div 2 /\ (m > 1 => k < m) /\ (m = 1 => k = 1)
    BY <1>5
  <2>4. IsList(up[d + 1], k)
    BY <1>4, <2>1, <2>2, <2>3, NextLevelIs
  <2>5. k = 1 \/ k + (d + 1) <= n
    BY <1>1, <2>1, <2>3
  <2> QED BY <2>4, <2>5
<1>8. \A d \in 0 .. n : Short(d)
  <2> HIDE DEF Short
  <2>1. 0 \in G /\ \A m \in Nat : m \in G => m + 1 \in G
    BY <1>1, <1>6, <1>7
  <2>2. \A d \in Nat : d \in G
    <3> HIDE DEF G
    <3> QED BY <2>1, Upwards
  <2> QED BY <1>1, <2>2
<1>9. \A d \in 0 .. n : Len(up[d]) \in Nat \ {0} /\ IsList(up[d], Len(up[d]))
  BY <1>8, ListLength
<1>10. Len(up[n]) = 1
  <2>1. PICK m \in Nat \ {0} : IsList(up[n], m) /\ (m = 1 \/ m + n <= n)
    BY <1>1, <1>8
  <2>2. m = 1
    BY <1>1, <2>1
  <2> QED BY <2>1, <2>2, ListLength
<1>11. PICK B : B = {d \in 0 .. n : Len(up[d]) <= 1}
  OBVIOUS
<1>12. B \subseteq Nat /\ B # {}
  <2>1. n \in 0 .. n /\ Len(up[n]) <= 1
    BY <1>1, <1>10
  <2>2. n \in B
    BY <1>11, <2>1
  <2> QED BY <1>11, <2>2
<1>13. PICK t \in B : \A m \in B : t <= m
  BY <1>12, LeastOf
<1>14. \E d \in 0 .. n : Len(up[d]) <= 1 /\ \A e \in 0 .. d - 1 : Len(up[e]) > 1
  <2>1. t \in 0 .. n /\ Len(up[t]) <= 1
    BY <1>11
  <2>2. ASSUME NEW e \in 0 .. t - 1 PROVE Len(up[e]) > 1
    <3>1. e \in 0 .. n /\ e \notin B
      BY <1>1, <1>13, <2>1
    <3>2. Len(up[e]) \in Nat /\ ~(Len(up[e]) <= 1)
      BY <1>9, <1>11, <3>1
    <3> QED BY <3>2
  <2> QED BY <2>1, <2>2
<1>15. PICK h : h = TopOf(leaves, up)
  OBVIOUS
<1>16. h \in 0 .. n /\ Len(up[h]) <= 1 /\ \A e \in 0 .. h - 1 : Len(up[e]) > 1
  BY <1>1, <1>14, <1>15 DEF TopOf
<1>17. Build(leaves) = [d \in 0 .. h |-> up[d]]
  BY <1>2, <1>15, BuildIs
<1>18. PICK tree : tree = Build(leaves)
  OBVIOUS
<1>19. h \in Nat /\ DOMAIN tree = 0 .. h /\ tree[0] = leaves /\ \A d \in 0 .. h : tree[d] = up[d] /\ d \in 0 .. n
  BY <1>1, <1>4, <1>16, <1>17, <1>18
<1>20. IsTree(tree, leaves, n, h)
  <2>1. ASSUME NEW d \in 1 .. h PROVE tree[d] = NextLevel(tree[d - 1])
    <3>1. d \in 0 .. h /\ d - 1 \in 0 .. h /\ d \in 1 .. n
      BY <1>16, <1>19
    <3> QED BY <1>4, <1>19, <3>1
  <2>2. ASSUME NEW d \in 0 .. h
        PROVE  \E m \in Nat \ {0} : IsList(tree[d], m) /\ (m = 1 <=> d = h)
    <3>1. PICK m \in Nat \ {0} : m = Len(up[d]) /\ IsList(up[d], m)
      BY <1>9, <1>19
    <3>2. CASE d = h
      BY <1>16, <1>19, <3>1, <3>2
    <3>3. CASE d # h
      <4>1. d \in 0 .. h - 1
        BY <1>19, <3>3
      <4>2. m > 1
        BY <1>16, <3>1, <4>1
      <4> QED BY <1>19, <3>1, <3>3, <4>2
    <3> QED BY <3>2, <3>3
  <2> QED BY <1>19, <2>1, <2>2 DEF IsTree
<1>21. Height(tree) = h
  <2>1. Cardinality(0 .. h) = h + 1
    BY <1>19, FS_Interval
  <2> QED BY <1>19, <2>1 DEF Height
<1>22. Root(leaves) = tree[h][1]
  <2>1. leaves # <<>>
    BY <1>1
  <2> QED BY <1>18, <1>21, <2>1 DEF Root
<1> QED BY <1>18, <1>20, <1>21, <1>22

-----------------------------------------------------------------------------
(* Proof: the siblings on the way up.                                      *)

\* at holds the position of the path at each level.
Positions(i, h, at) == at = [d \in 0 .. h |-> IF d = 0 THEN i ELSE at[d - 1] \div 2]
PositionsOf(i, h) == CHOOSE at : Positions(i, h, at)

LEMMA PositionsExist ==
  ASSUME NEW i, NEW h \in Nat
  PROVE  \E at : Positions(i, h, at)
<1> DEFINE Tabulated(m) == \E at : Positions(i, m, at)
           G == {m \in Nat : Tabulated(m)}
<1>1. Tabulated(0)
  <2>1. PICK at : at = [d \in 0 .. 0 |-> i]
    OBVIOUS
  <2>2. at = [d \in 0 .. 0 |-> IF d = 0 THEN i ELSE at[d - 1] \div 2]
    BY <2>1
  <2> QED BY <2>2 DEF Positions
<1>2. ASSUME NEW m \in Nat, Tabulated(m) PROVE Tabulated(m + 1)
  <2>1. PICK at : Positions(i, m, at)
    BY <1>2
  <2>2. PICK bt : bt = [d \in 0 .. (m + 1) |-> IF d = 0 THEN i ELSE at[d - 1] \div 2]
    OBVIOUS
  <2>3. \A d \in 0 .. m : bt[d] = at[d]
    <3> SUFFICES ASSUME NEW d \in 0 .. m PROVE bt[d] = at[d]
      OBVIOUS
    <3>1. d \in 0 .. (m + 1)
      OBVIOUS
    <3> QED BY <2>1, <2>2, <3>1 DEF Positions
  <2>4. \A d \in 0 .. (m + 1) : d # 0 => bt[d - 1] = at[d - 1]
    <3>1. \A d \in 0 .. (m + 1) : d # 0 => d - 1 \in 0 .. m
      OBVIOUS
    <3> QED BY <2>3, <3>1
  <2>5. bt = [d \in 0 .. (m + 1) |-> IF d = 0 THEN i ELSE bt[d - 1] \div 2]
    BY <2>2, <2>4
  <2>6. Positions(i, m + 1, bt)
    BY <2>5 DEF Positions
  <2> QED BY <2>6
<1> HIDE DEF Tabulated
<1>3. 0 \in G /\ \A m \in Nat : m \in G => m + 1 \in G
  BY <1>1, <1>2
<1>4. h \in G
  <2> HIDE DEF G
  <2> QED BY <1>3, Upwards
<1> QED BY <1>4 DEF Tabulated

\* The part of a proof that comes from one level.
SiblingAt(tree, at, d) ==
  IF Sibling(at[d - 1]) < Len(tree[d - 1]) THEN <<tree[d - 1][Sibling(at[d - 1]) + 1]>> ELSE <<>>

LEMMA ProofIs ==
  ASSUME NEW tree, NEW i
  PROVE  Proof(tree, i) =
           FlattenSeq([d \in 1 .. Height(tree) |-> SiblingAt(tree, PositionsOf(i, Height(tree)), d)])
  BY Zenon DEF Proof, Positions, PositionsOf, SiblingAt

\* The node a path reaches one level up is its node hashed with the sibling, when there
\* is one.
ParentOf(l, m, x) ==
  IF Sibling(x) < m THEN HashPair(l[x + 1], l[Sibling(x) + 1]) ELSE l[x + 1]

LEMMA OneLevelUp ==
  ASSUME NEW m \in Nat, NEW l, NEW x \in 0 .. (m - 1), m >= 2, IsList(l, m)
  PROVE  /\ x \div 2 \in 0 .. (((m + 1) \div 2) - 1)
         /\ NextLevel(l)[x \div 2 + 1] = ParentOf(l, m, x)
<1>1. PICK y \in Nat : y = x \div 2 /\ (x = 2 * y \/ x = 2 * y + 1)
  OBVIOUS
<1>2. PICK k \in Nat : k = (m + 1) \div 2 /\ (m = 2 * k \/ m = 2 * k - 1)
  OBVIOUS
<1>3. y \in 0 .. (k - 1) /\ y + 1 \in 1 .. k
  BY <1>1, <1>2
<1>4. NextLevel(l)[y + 1] =
        IF 2 * (y + 1) > m THEN l[2 * (y + 1) - 1] ELSE HashPair(l[2 * (y + 1) - 1], l[2 * (y + 1)])
  BY <1>2, <1>3, NextLevelIs
<1>5. CASE x = 2 * y
  <2>1. x % 2 = 0
    BY <1>1, <1>5
  <2>2. Sibling(x) = x + 1
    BY <2>1 DEF Sibling
  <2>3. 2 * (y + 1) - 1 = x + 1 /\ 2 * (y + 1) = (x + 1) + 1 /\ (2 * (y + 1) > m <=> ~(x + 1 < m))
    BY <1>1, <1>5
  <2>4. NextLevel(l)[y + 1] = IF x + 1 < m THEN HashPair(l[x + 1], l[(x + 1) + 1]) ELSE l[x + 1]
    BY <1>4, <2>3
  <2> QED BY <1>1, <1>2, <1>3, <2>2, <2>4 DEF ParentOf
<1>6. CASE x = 2 * y + 1
  <2>1. ~(x % 2 = 0)
    BY <1>1, <1>6
  <2>2. Sibling(x) = x - 1
    BY <2>1 DEF Sibling
  <2>3. 2 * (y + 1) - 1 = (x - 1) + 1 /\ 2 * (y + 1) = x + 1 /\ ~(2 * (y + 1) > m) /\ x - 1 < m
        /\ x - 1 \in Nat
    BY <1>1, <1>6
  <2>4. NextLevel(l)[y + 1] = HashPair(l[(x - 1) + 1], l[x + 1])
    BY <1>4, <2>3
  <2>5. NextLevel(l)[y + 1] = HashPair(l[x + 1], l[(x - 1) + 1])
    BY <2>4, PairSymmetric
  <2> QED BY <1>1, <1>2, <1>3, <2>2, <2>3, <2>5 DEF ParentOf
<1> QED BY <1>1, <1>5, <1>6

\* The path of each leaf leads to the root.
LEMMA ProofLeadsUp ==
  ASSUME NEW n \in Nat \ {0}, NEW leaves, NEW i \in 1 .. n, IsList(leaves, n)
  PROVE  /\ Walk(leaves[i], Proof(Build(leaves), i - 1)) = Root(leaves)
         /\ \E m : IsList(Proof(Build(leaves), i - 1), m)
<1>1. PICK tree : tree = Build(leaves)
  OBVIOUS
<1>2. PICK h : IsTree(tree, leaves, n, h) /\ Height(tree) = h /\ Root(leaves) = tree[h][1]
  BY <1>1, TreeIs
<1>3. h \in Nat /\ tree[0] = leaves /\ \A d \in 1 .. h : tree[d] = NextLevel(tree[d - 1])
  BY <1>2 DEF IsTree
<1>4. PICK at : at = PositionsOf(i - 1, h)
  OBVIOUS
<1>5. at = [d \in 0 .. h |-> IF d = 0 THEN i - 1 ELSE at[d - 1] \div 2]
  <2>1. Positions(i - 1, h, at)
    BY <1>3, <1>4, PositionsExist DEF PositionsOf
  <2> QED BY <2>1 DEF Positions
<1>6. PICK q : q = [d \in 1 .. h |-> SiblingAt(tree, at, d)]
  OBVIOUS
<1>7. Proof(tree, i - 1) = FlattenSeq(q)
  BY <1>2, <1>4, <1>6, ProofIs
<1>8. IsList(q, h) /\ \A d \in 1 .. h : q[d] = SiblingAt(tree, at, d)
  BY <1>3, <1>6 DEF IsList
<1>9. \A d \in 1 .. h : q[d] = <<>> \/ \E x : q[d] = <<x>>
  BY <1>8 DEF SiblingAt
<1>10. PICK w : WalksParts(leaves[i], q, h, w)
  BY <1>8, <1>9, WalkJoined
<1>11. /\ w[0] = leaves[i]
       /\ \A d \in 1 .. h :
            w[d] = IF q[d] = <<>> THEN w[d - 1] ELSE HashPair(w[d - 1], q[d][1])
       /\ Walk(leaves[i], FlattenSeq(q)) = w[h]
  BY <1>10 DEF WalksParts
<1>16. \E m : IsList(FlattenSeq(q), m)
  BY <1>8, <1>9, WalkJoined
<1> DEFINE OnPath(d) == \E m \in Nat \ {0} : IsList(tree[d], m) /\ at[d] \in 0 .. (m - 1)
                                             /\ w[d] = tree[d][at[d] + 1]
           G == {d \in Nat : d <= h => OnPath(d)}
<1>12. OnPath(0)
  <2>1. at[0] = i - 1 /\ (i - 1) + 1 = i /\ i - 1 \in 0 .. (n - 1)
    BY <1>3, <1>5
  <2> QED BY <1>3, <1>11, <2>1
<1>13. ASSUME NEW d \in Nat, d + 1 <= h, OnPath(d) PROVE OnPath(d + 1)
  <2>1. PICK m \in Nat \ {0} : IsList(tree[d], m) /\ at[d] \in 0 .. (m - 1) /\ w[d] = tree[d][at[d] + 1]
    BY <1>13
  <2>2. d + 1 \in 1 .. h /\ (d + 1) - 1 = d /\ d \in 0 .. h /\ d # h /\ d + 1 \in 0 .. h
    BY <1>3, <1>13
  <2>3. m # 1
    <3>1. PICK k \in Nat \ {0} : IsList(tree[d], k) /\ (k = 1 <=> d = h)
      BY <1>2, <2>2 DEF IsTree
    <3>2. k = m
      BY <2>1, <3>1, ListLength
    <3> QED BY <2>2, <3>1, <3>2
  <2>4. PICK x \in 0 .. (m - 1) : x = at[d]
    BY <2>1
  <2>5. PICK l : l = tree[d]
    OBVIOUS
  <2>6. IsList(l, m) /\ m \in Nat /\ m >= 2 /\ Len(l) = m
    BY <2>1, <2>3, <2>5, ListLength
  <2>7. /\ x \div 2 \in 0 .. (((m + 1) \div 2) - 1)
        /\ NextLevel(l)[x \div 2 + 1] = ParentOf(l, m, x)
    BY <2>6, OneLevelUp
  <2>8. at[d + 1] = x \div 2
    BY <1>5, <2>2, <2>4
  <2>9. tree[d + 1] = NextLevel(l)
    BY <1>3, <2>2, <2>5
  <2>10. q[d + 1] = IF Sibling(x) < m THEN <<l[Sibling(x) + 1]>> ELSE <<>>
    BY <1>8, <2>2, <2>4, <2>5, <2>6 DEF SiblingAt
  <2>11. w[d + 1] = NextLevel(l)[x \div 2 + 1]
    <3>1. w[d + 1] = IF q[d + 1] = <<>> THEN l[x + 1] ELSE HashPair(l[x + 1], q[d + 1][1])
      BY <1>11, <2>1, <2>2, <2>4, <2>5
    <3>2. CASE Sibling(x) < m
      BY <2>7, <2>10, <3>1, <3>2 DEF ParentOf
    <3>3. CASE ~(Sibling(x) < m)
      BY <2>7, <2>10, <3>1, <3>3 DEF ParentOf
    <3> QED BY <3>2, <3>3
  <2>12. (m + 1) \div 2 \in Nat \ {0} /\ IsList(NextLevel(l), (m + 1) \div 2)
    BY <2>6, NextLevelIs
  <2> QED BY <2>7, <2>8, <2>9, <2>11, <2>12
<1>14. OnPath(h)
  <2> HIDE DEF OnPath
  <2>1. 0 \in G /\ \A d \in Nat : d \in G => d + 1 \in G
    BY <1>3, <1>12, <1>13
  <2>2. h \in G
    <3> HIDE DEF G
    <3> QED BY <1>3, <2>1, Upwards
  <2> QED BY <1>3, <2>2
<1>15. w[h] = tree[h][1]
  <2>1. PICK m \in Nat \ {0} : IsList(tree[h], m) /\ at[h] \in 0 .. (m - 1) /\ w[h] = tree[h][at[h] + 1]
    BY <1>14
  <2>2. PICK k \in Nat \ {0} : IsList(tree[h], k) /\ k = 1
    BY <1>2, <1>3 DEF IsTree
  <2>3. k = m
    BY <2>1, <2>2, ListLength
  <2>4. at[h] + 1 = 1
    BY <2>1, <2>2, <2>3
  <2> QED BY <2>1, <2>4
<1> QED BY <1>1, <1>2, <1>7, <1>11, <1>15, <1>16

\* merkle.go and _verify of HintRegistry.sol: in a tree of any size, odd levels included,
\* the proof made for a leaf verifies for that leaf and for no other.
LEMMA ProofVerifies ==
  ASSUME NEW n \in Nat, NEW leaves, NEW i \in 1 .. n, NEW leaf, IsList(leaves, n)
  PROVE  Verify(Root(leaves), leaf, Proof(Build(leaves), i - 1)) <=> leaf = leaves[i]
<1>1. PICK p : p = Proof(Build(leaves), i - 1)
  OBVIOUS
<1>2. n \in Nat \ {0}
  OBVIOUS
<1>3. Walk(leaves[i], p) = Root(leaves)
  BY <1>1, <1>2, ProofLeadsUp
<1>4. PICK m : IsList(p, m)
  BY <1>1, <1>2, ProofLeadsUp
<1>5. m \in Nat /\ DOMAIN p = 1 .. m
  BY <1>4, ListLength
<1>6. Verify(Root(leaves), leaf, p) <=> Walk(leaf, p) = Root(leaves)
  BY Zenon DEF Verify, Walk
<1>7. Walk(leaf, p) = Walk(leaves[i], p) => leaf = leaves[i]
  BY <1>5, WalkDetermines
<1> QED BY <1>1, <1>3, <1>6, <1>7

\* TreesProve looks at every shape of tree up to nine leaves (merkle.go): the proof Build
\* and Proof make for a leaf is accepted by Verify for that leaf alone, for any number of
\* leaves.
THEOREM PathsAlwaysVerify == \A n \in Nat : PathsVerify(n)
<1> SUFFICES ASSUME NEW n \in Nat PROVE PathsVerify(n)
  OBVIOUS
<1>1. PICK leaves : leaves = [i \in 1 .. n |-> [leaf |-> i]]
  OBVIOUS
<1>2. IsList(leaves, n)
  BY <1>1 DEF IsList
<1>3. ASSUME NEW i \in 1 .. n, NEW j \in 1 .. n
      PROVE  Verify(Root(leaves), leaves[j], Proof(Build(leaves), i - 1)) <=> i = j
  <2>1. Verify(Root(leaves), leaves[j], Proof(Build(leaves), i - 1)) <=> leaves[j] = leaves[i]
    BY <1>2, ProofVerifies
  <2>2. leaves[j] = leaves[i] <=> i = j
    BY <1>1
  <2> QED BY <2>1, <2>2
<1> QED BY <1>1, <1>3 DEF PathsVerify

-----------------------------------------------------------------------------
(* What holds of the artefacts.                                            *)

\* The rollup: blocks in order.
RowsSound(t) ==
  /\ DOMAIN t \subseteq Account \X Asset
  /\ \A p \in DOMAIN t :
       t[p].first \in 0 .. Top /\ t[p].last \in 0 .. Top /\ t[p].first <= t[p].last

Cursor == [next : Nat \cup {-1}, done : BOOLEAN, floor : Nat, tail : Nat]

IndexInv ==
  /\ logs \subseteq [account : Account, asset : Asset, block : 0 .. Top]
  /\ head \in 0 .. Top
  /\ RowsSound(rows)
  /\ DOMAIN cursors \subseteq Asset
  /\ \A a \in DOMAIN cursors : cursors[a] \in Cursor

\* The rollup holds what is listed for an account.
InRows(account, assets) == \A a \in assets : <<account, a>> \in DOMAIN rows

\* What SnapshotIndex returns: each account once and in order, with what it touched.
SetsSound(sets) ==
  /\ sets \in Seq([account : Account, assets : SUBSET Asset])
  /\ \A i, j \in DOMAIN sets : i < j => sets[i].account < sets[j].account
  /\ \A i \in DOMAIN sets : sets[i].assets # {} /\ InRows(sets[i].account, sets[i].assets)

BuildingInv ==
  building # Absent =>
    /\ building.from \in 0 .. Top /\ building.to \in 0 .. Top /\ building.from <= building.to
    /\ building.stage \in {"range", "rows"}
    /\ building.stage = "rows" => SetsSound(building.sets)

\* What CoverageFromCursors returns: each asset once and in order, with its range.
CoverageSound(coverage, to) ==
  /\ coverage \in Seq([asset : Asset, from : Nat, to : Nat])
  /\ \A i, j \in DOMAIN coverage : i < j => coverage[i].asset < coverage[j].asset
  /\ \A i \in DOMAIN coverage :
       /\ 0 < coverage[i].to /\ coverage[i].to <= to
       /\ coverage[i].from <= coverage[i].to

\* The leaves of an epoch's tree, the pairs they commit.
TreeLeaves(leaves) == [j \in DOMAIN leaves |-> LeafHash(leaves[j].account, leaves[j].hash)]
Committed(leaves) ==
  UNION {{<<leaves[i].account, a>> : a \in leaves[i].hash} : i \in DOMAIN leaves}

EpochSound(e) ==
  /\ DOMAIN e = {"from", "to", "root", "coverage", "leaves", "filter", "onchain", "status"}
  /\ e.from \in Nat /\ e.to \in 0 .. Top /\ e.from <= e.to
  /\ CoverageSound(e.coverage, e.to)
  /\ e.leaves \in Seq([account : Account, hash : SUBSET Asset, assets : SUBSET Asset])
  /\ \A i, j \in DOMAIN e.leaves : i < j => e.leaves[i].account < e.leaves[j].account
  /\ \A i \in DOMAIN e.leaves : e.leaves[i].hash # {} /\ e.leaves[i].assets \in {{}, e.leaves[i].hash}
  /\ e.root = Root(TreeLeaves(e.leaves))
  /\ e.filter # Absent => e.filter = [pairs |-> Committed(e.leaves), to |-> e.to]

\* The rollup still holds what an epoch's leaves commit.
Indexed(e) == \A i \in DOMAIN e.leaves : InRows(e.leaves[i].account, e.leaves[i].hash)

EntrySound(on) ==
  /\ DOMAIN on = {"root", "coverage", "to", "uri", "status"}
  /\ on.status \in {"proposed", "finalized", "rejected"}

\* An epoch that is on chain is there under the id it was given, with the roots it has here.
OnChain(i, e) ==
  /\ e.status \in {"built", "published", "finalized", "rejected"}
  /\ e.status = "built" <=> e.onchain = 0
  /\ e.onchain # 0 =>
       /\ e.onchain \in DOMAIN registry
       /\ registry[e.onchain].uri = i
       /\ registry[e.onchain].root = e.root
       /\ registry[e.onchain].coverage = Root(e.coverage)
       /\ registry[e.onchain].to = e.to
  /\ e.status \in {"finalized", "rejected"} => registry[e.onchain].status = e.status

EpochsInv ==
  /\ IsList(epochs, Len(epochs)) /\ IsList(registry, Len(registry))
  /\ \A i \in DOMAIN epochs : EpochSound(epochs[i]) /\ Indexed(epochs[i]) /\ OnChain(i, epochs[i])
  /\ \A k \in DOMAIN registry : EntrySound(registry[k])

\* As long as the database that named it is there, an uri names the epoch it was for.
UrisInv ==
  daemon = "up" /\ ~Restored =>
    \A k \in DOMAIN registry :
      registry[k].uri # 0 =>
        registry[k].uri \in DOMAIN epochs /\ epochs[registry[k].uri].onchain = k

\* Filters reach no further than the chain.
FiltersInv ==
  /\ cache # Absent => cache.to \in 0 .. Top
  /\ DOMAIN gets = Requester
  /\ \A r \in Requester :
       gets[r] # Absent =>
         /\ gets[r].stage = "read" => gets[r].to \in 0 .. Top
         /\ gets[r].stage = "store" => gets[r].filter # Absent /\ gets[r].filter.to \in 0 .. Top

\* An answer for the callback carries a proof against the root of its epoch, an answer the
\* gateway signed the list of the account's leaf there.
AnswerInv ==
  answer # Absent /\ answer.stage = "answered" =>
    /\ answer.via = "ccip" =>
         /\ answer.epoch = answer.latest /\ answer.latest \in DOMAIN registry
         /\ Verify(registry[answer.latest].root, LeafHash(answer.account, AssetsHash(answer.assets)),
                   answer.proof)
    /\ answer.via # "ccip" /\ answer.assets # {} =>
         \E i \in DOMAIN epochs :
           /\ epochs[i].onchain = answer.latest /\ answer.latest # 0
           /\ \E j \in DOMAIN epochs[i].leaves :
                epochs[i].leaves[j].account = answer.account
                /\ epochs[i].leaves[j].hash = answer.assets

\* A copy: sound rows, of an epoch that is not on chain or is there under its id.
DocSound(d) ==
  /\ DOMAIN d = {"onchain", "from", "to", "root", "coverageRoot", "leafCount", "assetCount",
                 "coverage", "leaves"}
  /\ d.from \in Nat /\ d.to \in 0 .. Top /\ d.from <= d.to
  /\ CoverageSound(d.coverage, d.to)
  /\ d.leaves \in Seq([account : Account, assets : SUBSET Asset])
  /\ \A i, j \in DOMAIN d.leaves : i < j => d.leaves[i].account < d.leaves[j].account
  /\ d.onchain \in 0 .. Len(registry)
  /\ d.onchain # 0 => registry[d.onchain].to = d.to

\* A restore is at a statement of a document that was mirrored.
JobInv ==
  /\ DOMAIN job = {"doc", "asset", "stmt", "batch"}
  /\ Restored => /\ job.doc \in copies /\ job.batch \in Nat
                 /\ job.asset \in 1 .. (Len(job.doc.coverage) + 1)

CopiesInv ==
  /\ \A d \in copies : DocSound(d)
  /\ daemon \in {"up", "lost", "restoring", "failed", "restored"}
  /\ daemon \notin {"up", "lost"} => Restored
  /\ daemon # "up" => epochs = <<>> /\ file = Absent

RecoveryInv ==
  /\ IndexInv /\ BuildingInv /\ EpochsInv /\ UrisInv
  /\ FiltersInv /\ AnswerInv /\ CopiesInv /\ JobInv

-----------------------------------------------------------------------------
(* ORDER BY: a finite set of numbers as a list.                            *)

\* s lists the numbers of S, from the least to the greatest.
Ordered(s, S, n) ==
  /\ IsList(s, n)
  /\ \A i \in 1 .. n : s[i] \in S
  /\ \A i, j \in 1 .. n : i < j => s[i] < s[j]
  /\ \A x \in S : \E i \in 1 .. n : s[i] = x

Increasing(s, S, n) ==
  s \in [1 .. n -> S] /\ \A i, j \in 1 .. n : i < j => s[i] < s[j]

LEMMA IncreasingExists ==
  ASSUME NEW n \in Nat, NEW S, S \subseteq Nat, IsFiniteSet(S), Cardinality(S) = n
  PROVE  \E s : Increasing(s, S, n)
<1> DEFINE Can(m) == \A T : T \subseteq Nat /\ IsFiniteSet(T) /\ Cardinality(T) = m
                              => \E s : Increasing(s, T, m)
           G == {m \in Nat : Can(m)}
<1>1. Can(0)
  <2> SUFFICES ASSUME NEW T PROVE \E s : Increasing(s, T, 0)
    OBVIOUS
  <2>1. PICK s : s = [i \in 1 .. 0 |-> 0]
    OBVIOUS
  <2>2. Increasing(s, T, 0)
    BY <2>1 DEF Increasing
  <2> QED BY <2>2
<1>2. ASSUME NEW m \in Nat, Can(m) PROVE Can(m + 1)
  <2> SUFFICES ASSUME NEW T, T \subseteq Nat, IsFiniteSet(T), Cardinality(T) = m + 1
               PROVE  \E s : Increasing(s, T, m + 1)
    OBVIOUS
  <2>1. T # {}
    <3>1. Cardinality({}) = 0
      BY ONLY FS_EmptySet
    <3>2. Cardinality(T) = m + 1 /\ m \in Nat
      OBVIOUS
    <3> QED BY ONLY <3>1, <3>2
  <2>2. PICK x : x \in T /\ \A y \in T : x <= y
    BY <2>1, LeastOf
  <2>3. PICK R : R = T \ {x}
    OBVIOUS
  <2>4. IsFiniteSet(R) /\ Cardinality(R) = m /\ R \subseteq Nat
    <3>1. IsFiniteSet(T) /\ Cardinality(T) = m + 1 /\ m \in Nat /\ T \subseteq Nat
      OBVIOUS
    <3>2. IsFiniteSet(R) /\ Cardinality(R) = IF x \in T THEN Cardinality(T) - 1 ELSE Cardinality(T)
      BY ONLY <2>3, <3>1, FS_RemoveElement
    <3> QED BY ONLY <2>2, <2>3, <3>1, <3>2
  <2>5. PICK r : Increasing(r, R, m)
    BY <1>2, <2>4
  <2>6. PICK s : s = [i \in 1 .. (m + 1) |-> IF i = 1 THEN x ELSE r[i - 1]]
    OBVIOUS
  <2>7. \A i \in 1 .. (m + 1) : i # 1 => i - 1 \in 1 .. m
    OBVIOUS
  <2>8. \A i \in 1 .. (m + 1) : i # 1 => s[i] = r[i - 1] /\ s[i] \in T /\ x < s[i]
    <3>1. \A k \in 1 .. m : r[k] \in T /\ x < r[k]
      <4>1. \A k \in 1 .. m : r[k] \in R
        BY <2>5 DEF Increasing
      <4>2. \A y \in R : y \in T /\ x < y
        BY <2>2, <2>3
      <4> QED BY <4>1, <4>2
    <3> QED BY <2>6, <2>7, <3>1
  <2>9. s[1] = x
    BY <2>6
  <2>10. s \in [1 .. (m + 1) -> T]
    BY <2>2, <2>6, <2>8, <2>9
  <2>11. ASSUME NEW i \in 1 .. (m + 1), NEW j \in 1 .. (m + 1), i < j PROVE s[i] < s[j]
    <3>1. CASE i = 1
      BY <2>8, <2>9, <2>11, <3>1
    <3>2. CASE i # 1
      <4>1. j # 1 /\ i - 1 \in 1 .. m /\ j - 1 \in 1 .. m /\ i - 1 < j - 1
        BY <2>11, <3>2
      <4>2. r[i - 1] < r[j - 1]
        BY <2>5, <4>1 DEF Increasing
      <4> QED BY <2>8, <3>2, <4>1, <4>2
    <3> QED BY <3>1, <3>2
  <2>12. Increasing(s, T, m + 1)
    BY <2>10, <2>11 DEF Increasing
  <2> QED BY <2>12
<1> HIDE DEF Can
<1>3. 0 \in G /\ \A m \in Nat : m \in G => m + 1 \in G
  BY <1>1, <1>2
<1>4. n \in G
  <2> HIDE DEF G
  <2> QED BY <1>3, Upwards
<1> QED BY <1>4 DEF Can

LEMMA InOrderIs ==
  ASSUME NEW S, S \subseteq Nat, IsFiniteSet(S)
  PROVE  \E n : Ordered(InOrder(S), S, n)
<1>1. PICK n : n = Cardinality(S) /\ n \in Nat
  BY FS_CardinalityType
<1>2. PICK r : Increasing(r, S, n)
  BY <1>1, IncreasingExists
<1>3. PICK s : s = InOrder(S)
  OBVIOUS
<1>4. r \in [1 .. n -> S] /\ \A i, j \in DOMAIN r : i < j => r[i] < r[j]
  BY <1>2 DEF Increasing
<1>5. s \in [1 .. n -> S] /\ \A i, j \in DOMAIN s : i < j => s[i] < s[j]
  BY <1>1, <1>3, <1>4, Zenon DEF InOrder
<1>6. \A i, j \in 1 .. n : i < j => s[i] < s[j]
  BY <1>5
<1>7. \A i \in 1 .. n : s[i] \in S /\ s[i] \in Nat
  BY <1>5
<1>8. s \in Injection(1 .. n, S)
  <2>1. \A i, j \in 1 .. n : s[i] = s[j] => i = j
    <3>1. \A i, j \in 1 .. n : i < j \/ j < i \/ i = j
      BY <1>1
    <3>2. \A i, j \in 1 .. n : i < j => s[i] # s[j]
      BY <1>6, <1>7
    <3> QED BY <3>1, <3>2
  <2> QED BY <1>5, <2>1 DEF Injection, IsInjective
<1>9. Cardinality(1 .. n) = n
  BY <1>1, FS_Interval
<1>10. s \in Surjection(1 .. n, S)
  BY <1>1, <1>8, <1>9, FS_Injection
<1>11. \A x \in S : \E i \in 1 .. n : s[i] = x
  BY <1>10 DEF Surjection
<1>12. IsList(s, n)
  BY <1>1, <1>5 DEF IsList
<1>13. Ordered(s, S, n)
  BY <1>6, <1>7, <1>11, <1>12 DEF Ordered
<1> QED BY <1>3, <1>13

-----------------------------------------------------------------------------
(* The rollup and what is read from it.                                    *)

Row == [account : Account, asset : Asset, first : 0 .. Top, last : 0 .. Top]
RowsTyped(new) == \A r \in new : r \in Row /\ r.first <= r.last

\* FoldInteractions adds pairs and drops none, and keeps every range in order.
LEMMA FoldSound ==
  ASSUME NEW table, NEW new, RowsSound(table), RowsTyped(new)
  PROVE  /\ RowsSound(FoldInteractions(table, new))
         /\ DOMAIN table \subseteq DOMAIN FoldInteractions(table, new)
<1>1. PICK f : f = FoldInteractions(table, new)
  OBVIOUS
<1>2. PICK D : D = DOMAIN table \cup {<<r.account, r.asset>> : r \in new}
  OBVIOUS
<1>3. DOMAIN f = D
  BY <1>1, <1>2 DEF FoldInteractions
<1>4. D \subseteq Account \X Asset
  BY <1>2 DEF RowsSound, RowsTyped, Row
<1>5. ASSUME NEW p \in D
      PROVE  f[p].first \in 0 .. Top /\ f[p].last \in 0 .. Top /\ f[p].first <= f[p].last
  <2>1. PICK N : N = {r \in new : p = <<r.account, r.asset>>}
    OBVIOUS
  <2>2. PICK A : A = {r.first : r \in N} \cup (IF p \in DOMAIN table THEN {table[p].first} ELSE {})
    OBVIOUS
  <2>3. PICK B : B = {r.last : r \in N} \cup (IF p \in DOMAIN table THEN {table[p].last} ELSE {})
    OBVIOUS
  <2>4. f[p] = [first |-> Min(A), last |-> Max(B)]
    BY <1>1, <1>2, <2>1, <2>2, <2>3 DEF FoldInteractions
  <2>5. A \subseteq 0 .. Top /\ B \subseteq 0 .. Top
    BY <2>1, <2>2, <2>3 DEF RowsSound, RowsTyped, Row
  <2>6. \E a \in A, b \in B : a <= b
    <3>1. CASE p \in DOMAIN table
      BY <2>2, <2>3, <3>1 DEF RowsSound
    <3>2. CASE p \notin DOMAIN table
      <4>1. PICK r \in N : TRUE
        BY <1>2, <2>1, <3>2
      <4>2. r.first \in A /\ r.last \in B /\ r.first <= r.last
        BY <2>1, <2>2, <2>3, <4>1 DEF RowsTyped
      <4> QED BY <4>2
    <3> QED BY <3>1, <3>2
  <2>7. Top \in Nat
    BY ArtefactsAssumption DEF ArtefactsAssumption
  <2>8. Min(A) \in A /\ \A m \in A : Min(A) <= m
    <3>1. A \subseteq Nat /\ A # {}
      BY <2>5, <2>6, <2>7
    <3> QED BY <3>1, LeastOf
  <2>9. Max(B) \in B /\ \A m \in B : Max(B) >= m
    <3>1. B # {}
      BY <2>6
    <3> QED BY <2>5, <2>7, <3>1, GreatestOf
  <2>10. Min(A) <= Max(B)
    <3>1. PICK a \in A, b \in B : a <= b
      BY <2>6
    <3>2. Min(A) <= a /\ Max(B) >= b /\ {a, b, Min(A), Max(B)} \subseteq 0 .. Top
      BY <2>5, <2>8, <2>9
    <3> QED BY <2>7, <3>1, <3>2
  <2>11. Min(A) \in 0 .. Top /\ Max(B) \in 0 .. Top
    BY ONLY <2>5, <2>8, <2>9
  <2> QED BY ONLY <2>4, <2>10, <2>11
<1>6. RowsSound(f)
  BY <1>3, <1>4, <1>5 DEF RowsSound
<1> QED BY <1>1, <1>2, <1>3, <1>6

Seen(to) == {p \in DOMAIN rows : rows[p].first <= to}

\* SnapshotIndex lists exactly the pairs first seen by a block.
SnapshotOf(sets, to) ==
  /\ SetsSound(sets)
  /\ \A i \in DOMAIN sets : sets[i].assets = {b \in Asset : <<sets[i].account, b>> \in Seen(to)}
  /\ \A p \in Seen(to) : \E i \in DOMAIN sets : sets[i].account = p[1]

LEMMA SnapshotIs ==
  ASSUME NEW to, RowsSound(rows)
  PROVE  SnapshotOf(SnapshotIndex(to), to)
<1>1. PICK W : W = {p[1] : p \in Seen(to)}
  OBVIOUS
<1>2. Seen(to) \subseteq Account \X Asset
  BY DEF Seen, RowsSound
<1>3. W \subseteq Nat /\ IsFiniteSet(W) /\ W \subseteq Account
  <2>1. W \in SUBSET Account
    BY <1>1, <1>2
  <2> QED BY ArtefactsAssumption, <2>1, FS_Subset DEF ArtefactsAssumption
<1>4. PICK who : who = InOrder(W)
  OBVIOUS
<1>5. PICK n : Ordered(who, W, n)
  BY <1>3, <1>4, InOrderIs
<1>6. n \in Nat /\ DOMAIN who = 1 .. n
  BY <1>5, ListLength DEF Ordered
<1>7. PICK sets : sets = SnapshotIndex(to)
  OBVIOUS
<1>8. sets = [i \in DOMAIN who |->
        [account |-> who[i], assets |-> {p[2] : p \in {q \in Seen(to) : q[1] = who[i]}}]]
  BY <1>1, <1>4, <1>7 DEF SnapshotIndex, Seen
<1>9. IsList(sets, n) /\ DOMAIN sets = 1 .. n
  BY <1>6, <1>8 DEF IsList
<1>10. ASSUME NEW i \in 1 .. n
       PROVE  /\ sets[i] \in [account : Account, assets : SUBSET Asset]
              /\ sets[i].account = who[i]
              /\ sets[i].assets = {b \in Asset : <<who[i], b>> \in Seen(to)}
              /\ sets[i].assets # {}
  <2>1. who[i] \in W
    BY <1>5 DEF Ordered
  <2>2. PICK A : A = {p[2] : p \in {q \in Seen(to) : q[1] = who[i]}}
    OBVIOUS
  <2>3. sets[i] = [account |-> who[i], assets |-> A]
    BY <1>6, <1>8, <2>2
  <2>4. A = {b \in Asset : <<who[i], b>> \in Seen(to)}
    BY <1>2, <2>2
  <2>5. A # {}
    BY <1>1, <1>2, <2>1, <2>2
  <2>6. A \in SUBSET Asset /\ who[i] \in Account
    BY ONLY <1>3, <2>1, <2>4
  <2> QED BY ONLY <2>3, <2>4, <2>5, <2>6
<1>11. sets \in Seq([account : Account, assets : SUBSET Asset])
  BY <1>9, <1>10, ListLength
<1>12. \A i, j \in DOMAIN sets : i < j => sets[i].account < sets[j].account
  BY <1>5, <1>9, <1>10 DEF Ordered
<1>13. \A i \in DOMAIN sets : InRows(sets[i].account, sets[i].assets)
  BY <1>9, <1>10 DEF InRows, Seen
<1>14. \A p \in Seen(to) : \E i \in DOMAIN sets : sets[i].account = p[1]
  <2> SUFFICES ASSUME NEW p \in Seen(to) PROVE \E i \in DOMAIN sets : sets[i].account = p[1]
    OBVIOUS
  <2>1. p[1] \in W
    BY ONLY <1>1, p \in Seen(to)
  <2>2. PICK i \in 1 .. n : who[i] = p[1]
    BY ONLY <1>5, <2>1 DEF Ordered
  <2> QED BY <1>9, <1>10, <2>2
<1>15. SetsSound(sets)
  BY <1>9, <1>10, <1>11, <1>12, <1>13 DEF SetsSound
<1>16. \A i \in DOMAIN sets : sets[i].assets = {b \in Asset : <<sets[i].account, b>> \in Seen(to)}
  BY <1>9, <1>10
<1> QED BY <1>7, <1>14, <1>15, <1>16 DEF SnapshotOf

\* CoverageFromCursors: each range is in order and reaches no further than the epoch.
LEMMA CoverageIs ==
  ASSUME NEW to \in 0 .. Top, IndexInv
  PROVE  CoverageSound(CoverageFromCursors(to), to)
<1> DEFINE lo(c) == IF c.done THEN c.floor ELSE c.next + 1
           hi(c) == Min({c.tail, to})
<1>1. PICK C : C = {a \in DOMAIN cursors : hi(cursors[a]) > 0 /\ lo(cursors[a]) <= hi(cursors[a])}
  OBVIOUS
<1>2. C \subseteq Nat /\ IsFiniteSet(C) /\ C \subseteq Asset
  <2>1. C \in SUBSET Asset
    BY <1>1 DEF IndexInv
  <2> QED BY ArtefactsAssumption, <2>1, FS_Subset DEF ArtefactsAssumption
<1>3. PICK order : order = InOrder(C)
  OBVIOUS
<1>4. PICK n : Ordered(order, C, n)
  BY <1>2, <1>3, InOrderIs
<1>5. n \in Nat /\ DOMAIN order = 1 .. n
  BY <1>4, ListLength DEF Ordered
<1>6. PICK cov : cov = CoverageFromCursors(to)
  OBVIOUS
<1>7. cov = [i \in DOMAIN order |->
        CoverageLeaf(order[i], lo(cursors[order[i]]), hi(cursors[order[i]]))]
  BY <1>1, <1>3, <1>6 DEF CoverageFromCursors
<1>8. IsList(cov, n) /\ DOMAIN cov = 1 .. n
  BY <1>5, <1>7 DEF IsList
<1>9. ASSUME NEW i \in 1 .. n
      PROVE  /\ cov[i] \in [asset : Asset, from : Nat, to : Nat]
             /\ cov[i].asset = order[i]
             /\ 0 < cov[i].to /\ cov[i].to <= to /\ cov[i].from <= cov[i].to
  <2>1. order[i] \in C
    BY <1>4 DEF Ordered
  <2>2. PICK c : c = cursors[order[i]]
    OBVIOUS
  <2>3. c \in Cursor /\ order[i] \in Asset /\ hi(c) > 0 /\ lo(c) <= hi(c)
    BY <1>1, <2>1, <2>2 DEF IndexInv
  <2>4. hi(c) \in Nat /\ hi(c) <= to
    <3>1. {c.tail, to} \subseteq Nat /\ {c.tail, to} # {}
      BY ArtefactsAssumption, <2>3 DEF Cursor, ArtefactsAssumption
    <3> QED BY <3>1, LeastOf
  <2>5. lo(c) \in Nat
    BY <2>3 DEF Cursor
  <2>6. PICK h : h = hi(c)
    OBVIOUS
  <2>7. PICK l : l = lo(c)
    OBVIOUS
  <2>8. cov[i] = [asset |-> order[i], from |-> l, to |-> h]
    BY <1>5, <1>7, <2>2, <2>6, <2>7 DEF CoverageLeaf
  <2> HIDE DEF hi, lo
  <2>9. h \in Nat /\ h <= to /\ h > 0 /\ l \in Nat /\ l <= h
    BY <2>3, <2>4, <2>5, <2>6, <2>7
  <2> QED BY <2>3, <2>8, <2>9
<1>10. cov \in Seq([asset : Asset, from : Nat, to : Nat])
  BY <1>8, <1>9, ListLength
<1>11. \A i, j \in DOMAIN cov : i < j => cov[i].asset < cov[j].asset
  BY <1>4, <1>8, <1>9 DEF Ordered
<1>12. CoverageSound(cov, to)
  BY <1>8, <1>9, <1>10, <1>11 DEF CoverageSound
<1> QED BY <1>6, <1>12

\* NewEpoch: the leaves, the root and the filter's digest are of the same rows.
LEMMA NewEpochIs ==
  ASSUME NEW b, NEW coverage, b.from \in 0 .. Top, b.to \in 0 .. Top, b.from <= b.to,
         SetsSound(b.sets), CoverageSound(coverage, b.to)
  PROVE  /\ EpochSound(NewEpoch(b, coverage)) /\ Indexed(NewEpoch(b, coverage))
         /\ NewEpoch(b, coverage).onchain = 0 /\ NewEpoch(b, coverage).status = "built"
<1>1. PICK e : e = NewEpoch(b, coverage)
  OBVIOUS
<1>2. PICK n : n = Len(b.sets)
  OBVIOUS
<1>3. n \in Nat /\ DOMAIN b.sets = 1 .. n
  BY <1>2 DEF SetsSound
<1>4. PICK F : F = {b.from} \cup {coverage[i].from : i \in DOMAIN coverage}
  OBVIOUS
<1>5. PICK lv : lv = [i \in DOMAIN b.sets |->
        [account |-> b.sets[i].account, hash |-> AssetsHash(b.sets[i].assets),
         assets |-> IF upgraded THEN b.sets[i].assets ELSE {}]]
  OBVIOUS
<1>6. PICK fl : fl = IF upgraded THEN IndexFilterDigest(b) ELSE Absent
  OBVIOUS
<1>7. e = [from |-> Min(F), to |-> b.to, root |-> Root(Leaves(b.sets)), coverage |-> coverage,
           leaves |-> lv, filter |-> fl, onchain |-> 0, status |-> "built"]
  BY <1>1, <1>4, <1>5, <1>6 DEF NewEpoch
<1>8. Min(F) \in Nat /\ Min(F) <= b.to
  <2>1. b.from \in Nat /\ b.to \in Nat
    BY ArtefactsAssumption DEF ArtefactsAssumption
  <2>2. \A i \in DOMAIN coverage : coverage[i] \in [asset : Asset, from : Nat, to : Nat]
    BY ElementsOf DEF CoverageSound
  <2>3. \A i \in DOMAIN coverage : coverage[i].from \in Nat
    BY ONLY <2>2
  <2>4. F \subseteq Nat /\ b.from \in F
    BY ONLY <1>4, <2>1, <2>3
  <2>5. Min(F) \in F /\ Min(F) <= b.from
    BY ONLY <2>4, LeastOf
  <2>6. Min(F) \in Nat
    BY ONLY <2>4, <2>5
  <2> QED BY <2>1, <2>5, <2>6
<1>9. \A i \in 1 .. n : b.sets[i] \in [account : Account, assets : SUBSET Asset]
  BY <1>3, ElementsOf DEF SetsSound
<1>10. ASSUME NEW i \in 1 .. n
       PROVE  /\ lv[i] \in [account : Account, hash : SUBSET Asset, assets : SUBSET Asset]
              /\ lv[i].account = b.sets[i].account /\ lv[i].hash = b.sets[i].assets
              /\ lv[i].assets \in {{}, lv[i].hash}
  BY <1>3, <1>5, <1>9 DEF AssetsHash
<1>11. IsList(lv, n) /\ DOMAIN lv = 1 .. n
  BY <1>3, <1>5 DEF IsList
<1>12. lv \in Seq([account : Account, hash : SUBSET Asset, assets : SUBSET Asset])
  BY <1>10, <1>11, ListLength
<1>13. Leaves(b.sets) = TreeLeaves(lv)
  BY <1>3, <1>5, <1>10, <1>11 DEF Leaves, TreeLeaves, AssetsHash
<1>14. fl # Absent => fl = [pairs |-> Committed(lv), to |-> b.to]
  <2>1. Committed(lv) = UNION {{<<b.sets[i].account, a>> : a \in b.sets[i].assets} : i \in DOMAIN b.sets}
    BY <1>3, <1>10, <1>11 DEF Committed
  <2> QED BY <1>6, <2>1 DEF IndexFilterDigest, FromIndex
<1>15. \A i, j \in 1 .. n : i < j => lv[i].account < lv[j].account
  BY <1>3, <1>10 DEF SetsSound
<1>16. \A i \in 1 .. n : lv[i].hash # {} /\ InRows(lv[i].account, lv[i].hash)
  BY <1>3, <1>10 DEF SetsSound
<1>17. EpochSound(e)
  <2>1. /\ e.from = Min(F) /\ e.to = b.to /\ e.root = Root(Leaves(b.sets)) /\ e.coverage = coverage
        /\ e.leaves = lv /\ e.filter = fl
        /\ DOMAIN e = {"from", "to", "root", "coverage", "leaves", "filter", "onchain", "status"}
    BY <1>7
  <2> QED BY <1>8, <1>10, <1>11, <1>12, <1>13, <1>14, <1>15, <1>16, <2>1 DEF EpochSound
<1>18. Indexed(e)
  BY <1>7, <1>11, <1>16 DEF Indexed
<1> QED BY <1>1, <1>7, <1>17, <1>18

\* A restore writes pairs of the leaves, over the epoch's range.
LEMMA InteractionsTyped ==
  ASSUME NEW d, DocSound(d)
  PROVE  Interactions(d) \in Seq({r \in Row : r.first <= r.last})
<1>1. PICK n : n = Len(d.leaves)
  OBVIOUS
<1>2. n \in Nat /\ DOMAIN d.leaves = 1 .. n
  BY <1>1 DEF DocSound
<1>3. PICK R : R = {r \in Row : r.first <= r.last}
  OBVIOUS
<1>4. PICK q : q = [i \in DOMAIN d.leaves |->
        [j \in DOMAIN InOrder(d.leaves[i].assets) |->
           [account |-> d.leaves[i].account, asset |-> InOrder(d.leaves[i].assets)[j],
            first |-> d.from, last |-> d.to]]]
  OBVIOUS
<1>5. Interactions(d) = FlattenSeq(q)
  BY <1>4, Zenon DEF Interactions
<1>6. ASSUME NEW i \in 1 .. n PROVE q[i] \in Seq(R)
  <2>1. d.leaves[i] \in [account : Account, assets : SUBSET Asset]
    BY <1>2, ElementsOf DEF DocSound
  <2>2. PICK as : as = InOrder(d.leaves[i].assets)
    OBVIOUS
  <2>3. d.leaves[i].assets \subseteq Nat /\ IsFiniteSet(d.leaves[i].assets)
    BY <2>1, FS_Subset, ArtefactsAssumption DEF ArtefactsAssumption
  <2>4. PICK m : Ordered(as, d.leaves[i].assets, m)
    BY <2>2, <2>3, InOrderIs
  <2>5. m \in Nat /\ DOMAIN as = 1 .. m
    BY <2>4, ListLength DEF Ordered
  <2>6. q[i] = [j \in DOMAIN as |-> [account |-> d.leaves[i].account, asset |-> as[j],
                                     first |-> d.from, last |-> d.to]]
    BY <1>2, <1>4, <2>2
  <2>7. IsList(q[i], m)
    BY <2>5, <2>6 DEF IsList
  <2>8. \A j \in 1 .. m : q[i][j] \in R
    <3>1. d.from \in 0 .. Top /\ d.to \in 0 .. Top /\ d.from <= d.to
      BY ArtefactsAssumption DEF DocSound, ArtefactsAssumption
    <3>2. \A j \in 1 .. m : as[j] \in Asset
      BY <2>1, <2>4 DEF Ordered
    <3>3. d.leaves[i].account \in Account
      BY <2>1
    <3>4. ASSUME NEW j \in 1 .. m PROVE q[i][j] \in Row /\ q[i][j].first <= q[i][j].last
      <4>1. q[i][j] = [account |-> d.leaves[i].account, asset |-> as[j],
                       first |-> d.from, last |-> d.to]
        BY ONLY <2>5, <2>6, j \in 1 .. m
      <4>2. as[j] \in Asset
        BY ONLY <3>2, j \in 1 .. m
      <4>3. PICK r : r = q[i][j]
        OBVIOUS
      <4>4. PICK x : x = as[j]
        OBVIOUS
      <4>5. PICK who : who = d.leaves[i].account
        OBVIOUS
      <4>6. PICK f : f = d.from
        OBVIOUS
      <4>7. PICK t : t = d.to
        OBVIOUS
      <4>8. r = [account |-> who, asset |-> x, first |-> f, last |-> t]
        BY ONLY <4>1, <4>3, <4>4, <4>5, <4>6, <4>7
      <4>9. who \in Account /\ x \in Asset /\ f \in 0 .. Top /\ t \in 0 .. Top /\ f <= t
        BY ONLY <3>1, <3>3, <4>2, <4>4, <4>5, <4>6, <4>7
      <4>10. r \in Row
        BY ONLY <4>8, <4>9 DEF Row
      <4>11. r.first <= r.last
        BY ONLY <4>8, <4>9
      <4> QED BY ONLY <4>3, <4>10, <4>11
    <3> QED BY ONLY <1>3, <3>4
  <2> QED BY <2>7, <2>8, ListLength
<1>7. IsList(q, n)
  BY <1>2, <1>4 DEF IsList
<1>8. FlattenSeq(q) \in Seq(R)
  BY <1>6, <1>7, FlattenTyped
<1> QED BY <1>3, <1>5, <1>8

-----------------------------------------------------------------------------
(* Steps of the index.                                                     *)

LEMMA ScannedTyped ==
  ASSUME NEW a, NEW from, NEW to, IndexInv
  PROVE  RowsTyped(Scanned(a, from, to))
<1> SUFFICES ASSUME NEW r \in Scanned(a, from, to) PROVE r \in Row /\ r.first <= r.last
  BY DEF RowsTyped
<1>1. PICK l \in logs : l.asset = a
        /\ r = [account |-> l.account, asset |-> a, first |-> l.block, last |-> l.block]
  BY DEF Scanned
<1>2. l \in [account : Account, asset : Asset, block : 0 .. Top]
  BY DEF IndexInv
<1>3. l.block \in 0 .. Top /\ l.account \in Account /\ a \in Asset
  BY <1>1, <1>2
<1> QED BY <1>1, <1>3, ArtefactsAssumption DEF Row, ArtefactsAssumption

\* Steps that add to the rollup, move cursors, or both.
LEMMA Grown ==
  ASSUME RecoveryInv, IndexInv', DOMAIN rows \subseteq DOMAIN rows',
         UNCHANGED <<epochVars, readVars, copies, daemon>>, job'.doc = job.doc,
         job' = job \/ JobInv'
  PROVE  RecoveryInv'
<1>1. UNCHANGED <<upgraded, building, epochs, registry, cache, gets, file, answer>>
  BY DEF epochVars, readVars
<1>2. \A account, assets : InRows(account, assets) => InRows(account, assets)'
  BY DEF InRows
<1>3. \A sets : SetsSound(sets) => SetsSound(sets)'
  BY <1>2 DEF SetsSound
<1>4. BuildingInv'
  BY <1>1, <1>3 DEF RecoveryInv, BuildingInv
<1>5. EpochsInv'
  <2>1. \A i \in DOMAIN epochs : EpochSound(epochs[i]) /\ Indexed(epochs[i]) /\ OnChain(i, epochs[i])
    BY DEF RecoveryInv, EpochsInv
  <2>2. \A e : Indexed(e) => Indexed(e)'
    BY <1>2 DEF Indexed
  <2>3. \A i, e : OnChain(i, e) => OnChain(i, e)'
    BY <1>1 DEF OnChain
  <2>4. \A i \in DOMAIN epochs' : EpochSound(epochs[i])' /\ Indexed(epochs[i])' /\ OnChain(i, epochs[i])'
    BY <1>1, <2>1, <2>2, <2>3
  <2> QED BY <1>1, <2>4 DEF RecoveryInv, EpochsInv
<1>6. UrisInv'
  BY <1>1 DEF RecoveryInv, UrisInv, Restored
<1>7. FiltersInv'
  BY <1>1 DEF RecoveryInv, FiltersInv
<1>8. AnswerInv'
  BY <1>1 DEF RecoveryInv, AnswerInv
<1>9. CopiesInv'
  <2>1. \A d : DocSound(d) => DocSound(d)'
    BY <1>1 DEF DocSound
  <2> QED BY <1>1, <2>1 DEF RecoveryInv, CopiesInv, Restored
<1>10. JobInv'
  BY DEF RecoveryInv, JobInv, Restored
<1> QED BY <1>4, <1>5, <1>6, <1>7, <1>8, <1>9, <1>10 DEF RecoveryInv

LEMMA FollowKeeps == ASSUME RecoveryInv, Follow, UNCHANGED recoveryVars PROVE RecoveryInv'
<1>1. IndexInv
  BY DEF RecoveryInv
<1>2. PICK new : new = UNION {Scanned(a, cursors[a].tail + 1, head + 1) : a \in DOMAIN cursors}
  OBVIOUS
<1>3. RowsTyped(new)
  <2>1. \A a : RowsTyped(Scanned(a, cursors[a].tail + 1, head + 1))
    BY <1>1, ScannedTyped
  <2> QED BY <1>2, <2>1 DEF RowsTyped
<1>4. rows' = FoldInteractions(rows, new)
  BY <1>2 DEF Follow
<1>5. RowsSound(rows') /\ DOMAIN rows \subseteq DOMAIN rows'
  BY <1>1, <1>3, <1>4, FoldSound DEF IndexInv
<1>6. head' \in 0 .. Top
  BY <1>1, ArtefactsAssumption DEF Follow, IndexInv, ArtefactsAssumption
<1>7. DOMAIN cursors' \subseteq Asset /\ \A a \in DOMAIN cursors' : cursors'[a] \in Cursor
  <2>1. cursors' = [a \in DOMAIN cursors |-> [cursors[a] EXCEPT !.tail = head + 1]] /\ head + 1 \in Nat
    BY <1>1, ArtefactsAssumption DEF Follow, IndexInv, ArtefactsAssumption
  <2> QED BY <1>1, <2>1 DEF IndexInv, Cursor
<1>8. IndexInv'
  BY <1>1, <1>5, <1>6, <1>7 DEF IndexInv, Follow
<1> QED BY <1>5, <1>8, Grown DEF Follow, recoveryVars

\* A cursor is seeded at an anchor.
LEMMA RegisteredTyped ==
  ASSUME NEW a \in Asset, NEW anchor \in Nat, IndexInv
  PROVE  /\ DOMAIN Registered(cursors, a, anchor) \subseteq Asset
         /\ \A b \in DOMAIN Registered(cursors, a, anchor) :
              Registered(cursors, a, anchor)[b] \in Cursor
<1>1. PICK c : c = Registered(cursors, a, anchor)
  OBVIOUS
<1>2. CASE a \in DOMAIN cursors
  BY <1>2 DEF Registered, IndexInv
<1>3. CASE a \notin DOMAIN cursors
  <2>1. PICK new : new = [next |-> anchor - 1, done |-> FALSE, floor |-> 0, tail |-> anchor]
    OBVIOUS
  <2>2. new \in Cursor
    BY <2>1 DEF Cursor
  <2>3. c = [b \in DOMAIN cursors \cup {a} |-> IF b = a THEN new ELSE cursors[b]]
    BY <1>1, <1>3, <2>1 DEF Registered
  <2>4. DOMAIN c \subseteq Asset /\ \A b \in DOMAIN c : c[b] \in Cursor
    BY <2>2, <2>3 DEF IndexInv
  <2> QED BY <1>1, <2>4
<1> QED BY <1>2, <1>3

LEMMA RegisterAssetKeeps ==
  ASSUME NEW a \in Asset, RecoveryInv, RegisterAsset(a), UNCHANGED recoveryVars
  PROVE  RecoveryInv'
<1>1. IndexInv /\ head \in Nat
  BY ArtefactsAssumption DEF RecoveryInv, IndexInv, ArtefactsAssumption
<1>2. cursors' = Registered(cursors, a, head) /\ UNCHANGED <<logs, head, rows>>
  BY DEF RegisterAsset
<1>3. DOMAIN cursors' \subseteq Asset /\ \A b \in DOMAIN cursors' : cursors'[b] \in Cursor
  BY <1>1, <1>2, RegisteredTyped
<1>4. IndexInv'
  BY <1>1, <1>2, <1>3 DEF IndexInv
<1> QED BY <1>2, <1>4, Grown DEF RegisterAsset, recoveryVars

LEMMA BackfillKeeps ==
  ASSUME NEW a \in DOMAIN cursors, RecoveryInv, Backfill(a), UNCHANGED recoveryVars
  PROVE  RecoveryInv'
<1>1. IndexInv
  BY DEF RecoveryInv
<1>2. PICK c : c = cursors[a]
  OBVIOUS
<1>3. c \in Cursor
  BY <1>1, <1>2 DEF IndexInv
<1>4. PICK new : new = IF c.next < Floor THEN {} ELSE Scanned(a, c.next, c.next)
  OBVIOUS
<1>5. RowsTyped(new)
  <2>1. RowsTyped(Scanned(a, c.next, c.next))
    BY <1>1, ScannedTyped
  <2>2. RowsTyped({})
    BY DEF RowsTyped
  <2> QED BY <1>4, <2>1, <2>2
<1>6. rows' = FoldInteractions(rows, new)
  BY <1>2, <1>4 DEF Backfill
<1>7. RowsSound(rows') /\ DOMAIN rows \subseteq DOMAIN rows'
  BY <1>1, <1>5, <1>6, FoldSound DEF IndexInv
<1>8. PICK c1 : c1 = IF c.next <= Floor THEN [c EXCEPT !.done = TRUE, !.floor = Floor]
                     ELSE [c EXCEPT !.next = @ - 1, !.floor = Floor]
  OBVIOUS
<1>9. c1 \in Cursor
  <2>1. Floor \in Nat \ {0}
    BY ArtefactsAssumption DEF ArtefactsAssumption
  <2>2. CASE c.next <= Floor
    BY ONLY <1>3, <1>8, <2>1, <2>2 DEF Cursor
  <2>3. CASE ~(c.next <= Floor)
    <3>1. c.next - 1 \in Nat
      BY <1>3, <2>1, <2>3 DEF Cursor
    <3>2. c1 = [c EXCEPT !.next = c.next - 1, !.floor = Floor]
      BY <1>8, <2>3
    <3> QED BY ONLY <1>3, <2>1, <3>1, <3>2 DEF Cursor
  <2> QED BY <2>2, <2>3
<1>10. cursors' = [cursors EXCEPT ![a] = c1] /\ UNCHANGED <<logs, head>>
  BY <1>2, <1>8 DEF Backfill
<1>11. DOMAIN cursors' \subseteq Asset /\ \A b \in DOMAIN cursors' : cursors'[b] \in Cursor
  BY <1>1, <1>9, <1>10 DEF IndexInv
<1>12. IndexInv'
  BY <1>1, <1>7, <1>10, <1>11 DEF IndexInv
<1> QED BY <1>7, <1>12, Grown DEF Backfill, recoveryVars

-----------------------------------------------------------------------------
(* Steps of a restore.                                                     *)

\* The coverage row a restore is at.
LEMMA RestoringIs ==
  ASSUME RecoveryInv, daemon = "restoring", job.asset <= Len(job.doc.coverage)
  PROVE  /\ Restoring \in [asset : Asset, from : Nat, to : Nat] /\ Restored
         /\ job.asset \in 1 .. Len(job.doc.coverage) /\ Len(job.doc.coverage) \in Nat
         /\ job.batch \in Nat
<1>1. Restored
  BY DEF RecoveryInv, CopiesInv
<1>2. DocSound(job.doc) /\ job.asset \in 1 .. (Len(job.doc.coverage) + 1) /\ job.batch \in Nat
  BY <1>1 DEF RecoveryInv, CopiesInv, JobInv
<1>3. job.doc.coverage \in Seq([asset : Asset, from : Nat, to : Nat])
  BY <1>2 DEF DocSound, CoverageSound
<1>4. /\ Len(job.doc.coverage) \in Nat /\ DOMAIN job.doc.coverage = 1 .. Len(job.doc.coverage)
      /\ \A i \in DOMAIN job.doc.coverage : job.doc.coverage[i] \in [asset : Asset, from : Nat, to : Nat]
  BY <1>3, ElementsOf
<1>5. job.asset \in 1 .. Len(job.doc.coverage)
  BY <1>2, <1>4
<1> QED BY <1>1, <1>2, <1>4, <1>5 DEF Restoring

LEMMA SetCursorKeeps ==
  ASSUME NEW new, NEW stmt, RecoveryInv, daemon = "restoring",
         job.asset <= Len(job.doc.coverage), SetCursor(new, stmt),
         Restoring.asset \in DOMAIN cursors => new \in Cursor
  PROVE  RecoveryInv'
<1>1. IndexInv
  BY DEF RecoveryInv
<1>2. PICK a : a = Restoring.asset
  OBVIOUS
<1>3. cursors' = [cursors EXCEPT ![a] = new] /\ UNCHANGED <<logs, head, rows>>
  BY <1>2 DEF SetCursor
<1>4. DOMAIN cursors' \subseteq Asset /\ \A b \in DOMAIN cursors' : cursors'[b] \in Cursor
  BY <1>1, <1>2, <1>3 DEF IndexInv
<1>5. IndexInv'
  BY <1>1, <1>3, <1>4 DEF IndexInv
<1>6. PICK k : k = IF stmt = "register" THEN job.asset + 1 ELSE job.asset
  OBVIOUS
<1>7. job' = [job EXCEPT !.stmt = stmt, !.asset = k]
  BY <1>6 DEF SetCursor
<1>8. k \in 1 .. (Len(job.doc.coverage) + 1)
  BY <1>6, RestoringIs
<1>9. JobInv' /\ job'.doc = job.doc
  <2>1. DOMAIN job = {"doc", "asset", "stmt", "batch"}
    BY DEF RecoveryInv, JobInv
  <2>2. job'.doc = job.doc /\ job'.asset = k /\ job'.batch = job.batch /\ DOMAIN job' = DOMAIN job
    BY <1>7, <2>1
  <2>3. job.doc \in copies /\ job.batch \in Nat
    BY RestoringIs DEF RecoveryInv, JobInv
  <2> QED BY <1>8, <2>1, <2>2, <2>3 DEF JobInv, SetCursor
<1> QED BY <1>3, <1>5, <1>9, Grown DEF SetCursor

LEMMA RestoreRegisterKeeps == ASSUME RecoveryInv, RestoreRegister PROVE RecoveryInv'
<1>1. IndexInv
  BY DEF RecoveryInv
<1>2. daemon = "restoring" /\ job.asset <= Len(job.doc.coverage)
  BY DEF RestoreRegister, AtAsset
<1>3. PICK c : c = Restoring
  OBVIOUS
<1>4. c.asset \in Asset /\ c.from \in Nat
  BY <1>2, <1>3, RestoringIs
<1>5. cursors' = Registered(cursors, c.asset, c.from) /\ UNCHANGED <<logs, head, rows>>
  BY <1>3 DEF RestoreRegister
<1>6. DOMAIN cursors' \subseteq Asset /\ \A b \in DOMAIN cursors' : cursors'[b] \in Cursor
  BY <1>1, <1>4, <1>5, RegisteredTyped
<1>7. IndexInv'
  BY <1>1, <1>5, <1>6 DEF IndexInv
<1>8. JobInv' /\ job'.doc = job.doc
  BY DEF RecoveryInv, JobInv, RestoreRegister, Restored
<1> QED BY <1>5, <1>7, <1>8, Grown DEF RestoreRegister

LEMMA RestoreCursorKeeps ==
  ASSUME RecoveryInv, RestoreBackfill \/ RestoreFloor \/ RestoreTail PROVE RecoveryInv'
<1>1. daemon = "restoring" /\ job.asset <= Len(job.doc.coverage)
  BY DEF RestoreBackfill, RestoreFloor, RestoreTail, AtAsset
<1>2. PICK row : row = Restoring
  OBVIOUS
<1>3. row.from \in Nat /\ row.to \in Nat
  BY <1>1, <1>2, RestoringIs
<1>4. PICK c : c = cursors[row.asset]
  OBVIOUS
<1>5. row.asset \in DOMAIN cursors => c \in Cursor
  BY <1>4 DEF RecoveryInv, IndexInv
<1>6. CASE RestoreBackfill
  <2>1. PICK m : m = Max({0, row.from - 1})
    OBVIOUS
  <2>2. m \in Nat
    <3>1. {0, row.from - 1} \subseteq Int /\ row.from - 1 <= row.from
      BY <1>3
    <3>2. \E x \in {0, row.from - 1} : \A y \in {0, row.from - 1} : x >= y
      BY <1>3
    <3>3. m \in {0, row.from - 1} /\ m >= 0
      BY <2>1, <3>2 DEF Max
    <3> QED BY <3>1, <3>3
  <2>3. PICK new : new = [c EXCEPT !.next = m, !.done = TRUE]
    OBVIOUS
  <2>4. c \in Cursor => new \in Cursor
    BY <2>2, <2>3 DEF Cursor
  <2>5. SetCursor(new, "floor")
    BY <1>2, <1>4, <1>6, <2>1, <2>3 DEF RestoreBackfill
  <2> QED BY <1>1, <1>2, <1>5, <2>4, <2>5, SetCursorKeeps
<1>7. CASE RestoreFloor
  <2>1. PICK new : new = [c EXCEPT !.floor = row.from]
    OBVIOUS
  <2>2. c \in Cursor => new \in Cursor
    BY <1>3, <2>1 DEF Cursor
  <2>3. SetCursor(new, "tail")
    BY <1>2, <1>4, <1>7, <2>1 DEF RestoreFloor
  <2> QED BY <1>1, <1>2, <1>5, <2>2, <2>3, SetCursorKeeps
<1>8. CASE RestoreTail
  <2>1. PICK m : m = Max({c.tail, row.to})
    OBVIOUS
  <2>2. c \in Cursor => m \in Nat
    <3> SUFFICES ASSUME c \in Cursor PROVE m \in Nat
      OBVIOUS
    <3>1. c.tail \in Nat
      BY DEF Cursor
    <3>2. \E x \in {c.tail, row.to} : \A y \in {c.tail, row.to} : x >= y
      BY <1>3, <3>1
    <3>3. m \in {c.tail, row.to}
      BY <2>1, <3>2 DEF Max
    <3> QED BY <1>3, <3>1, <3>3
  <2>3. PICK new : new = [c EXCEPT !.tail = m]
    OBVIOUS
  <2>4. c \in Cursor => new \in Cursor
    BY <2>2, <2>3 DEF Cursor
  <2>5. SetCursor(new, "register")
    BY <1>2, <1>4, <1>8, <2>1, <2>3 DEF RestoreTail
  <2> QED BY <1>1, <1>2, <1>5, <2>4, <2>5, SetCursorKeeps
<1> QED BY <1>6, <1>7, <1>8

LEMMA RestoreBatchKeeps == ASSUME RecoveryInv, RestoreBatch PROVE RecoveryInv'
<1>1. IndexInv /\ daemon = "restoring"
  BY DEF RecoveryInv, RestoreBatch, AtRows
<1>2. Restored /\ DocSound(job.doc) /\ job.batch \in Nat
  BY <1>1 DEF RecoveryInv, CopiesInv, JobInv
<1>3. PICK R : R = {r \in Row : r.first <= r.last}
  OBVIOUS
<1>4. PICK all : all = Interactions(job.doc)
  OBVIOUS
<1>5. all \in Seq(R)
  BY <1>2, <1>3, <1>4, InteractionsTyped
<1>6. Len(all) \in Nat /\ DOMAIN all = 1 .. Len(all) /\ \A i \in DOMAIN all : all[i] \in R
  BY <1>5, ElementsOf
<1>7. PICK from : from = job.batch * Batch + 1
  OBVIOUS
<1>8. from \in Nat \ {0}
  BY <1>2, <1>7, BatchAssumption DEF BatchAssumption
<1>9. PICK upto : upto = Min({Len(all), from + Batch - 1})
  OBVIOUS
<1>10. upto \in Nat /\ upto <= Len(all)
  <2>1. {Len(all), from + Batch - 1} \subseteq Nat
    BY <1>6, <1>8, BatchAssumption DEF BatchAssumption
  <2>2. {Len(all), from + Batch - 1} # {}
    OBVIOUS
  <2>3. Min({Len(all), from + Batch - 1}) \in {Len(all), from + Batch - 1}
        /\ \A m \in {Len(all), from + Batch - 1} : Min({Len(all), from + Batch - 1}) <= m
    BY <2>1, <2>2, LeastOf
  <2> QED BY <1>9, <2>1, <2>3
<1>11. PICK new : new = {all[i] : i \in from .. upto}
  OBVIOUS
<1>12. RowsTyped(new)
  <2>1. \A i \in from .. upto : i \in 1 .. Len(all)
    BY <1>6, <1>8, <1>10
  <2>2. new \subseteq R
    BY <1>6, <1>11, <2>1
  <2> QED BY <1>3, <2>2 DEF RowsTyped
<1>13. rows' = FoldInteractions(rows, new)
  BY <1>4, <1>7, <1>9, <1>11 DEF RestoreBatch
<1>14. RowsSound(rows') /\ DOMAIN rows \subseteq DOMAIN rows'
  BY <1>1, <1>12, <1>13, FoldSound DEF IndexInv
<1>15. IndexInv'
  BY <1>1, <1>14 DEF IndexInv, RestoreBatch
<1>16. JobInv' /\ job'.doc = job.doc
  BY <1>2 DEF RecoveryInv, JobInv, RestoreBatch, Restored
<1> QED BY <1>14, <1>15, <1>16, Grown DEF RestoreBatch

-----------------------------------------------------------------------------
(* Steps of commitments.                                                   *)

\* The registry forgets no epoch and rewrites nothing of one but its status.
RegistryKept ==
  /\ Len(registry) <= Len(registry')
  /\ \A k \in DOMAIN registry :
       /\ k \in DOMAIN registry'
       /\ registry'[k].root = registry[k].root /\ registry'[k].coverage = registry[k].coverage
       /\ registry'[k].to = registry[k].to /\ registry'[k].uri = registry[k].uri

\* No epoch loses its leaves or its on-chain id.
EpochsKept ==
  \A i \in DOMAIN epochs :
    /\ i \in DOMAIN epochs' /\ epochs'[i].leaves = epochs[i].leaves
    /\ epochs[i].onchain # 0 => epochs'[i].onchain = epochs[i].onchain

LEMMA Lists ==
  ASSUME EpochsInv
  PROVE  /\ Len(epochs) \in Nat /\ DOMAIN epochs = 1 .. Len(epochs)
         /\ Len(registry) \in Nat /\ DOMAIN registry = 1 .. Len(registry)
  BY ListLength DEF EpochsInv

LEMMA EpochsMoved ==
  ASSUME RecoveryInv, BuildingInv', EpochsInv', UrisInv', RegistryKept, EpochsKept,
         daemon = "up" \/ UNCHANGED epochs,
         UNCHANGED <<indexVars, readVars, recoveryVars>>
  PROVE  RecoveryInv'
<1>1. UNCHANGED <<logs, head, cursors, rows, cache, gets, file, answer, copies, daemon, job>>
  BY DEF indexVars, readVars, recoveryVars
<1>2. IndexInv'
  BY <1>1 DEF RecoveryInv, IndexInv
<1>3. FiltersInv'
  BY <1>1 DEF RecoveryInv, FiltersInv
<1>4. AnswerInv'
  <2> SUFFICES ASSUME answer # Absent, answer.stage = "answered" PROVE AnswerInv'
    BY <1>1 DEF AnswerInv
  <2>1. AnswerInv
    BY DEF RecoveryInv
  <2>2. answer.via = "ccip" =>
          /\ answer.epoch = answer.latest /\ answer.latest \in DOMAIN registry'
          /\ Verify(registry'[answer.latest].root,
                    LeafHash(answer.account, AssetsHash(answer.assets)), answer.proof)
    BY <2>1 DEF AnswerInv, RegistryKept
  <2>3. answer.via # "ccip" /\ answer.assets # {} =>
          \E i \in DOMAIN epochs' :
            /\ epochs'[i].onchain = answer.latest /\ answer.latest # 0
            /\ \E j \in DOMAIN epochs'[i].leaves :
                 epochs'[i].leaves[j].account = answer.account
                 /\ epochs'[i].leaves[j].hash = answer.assets
    <3> SUFFICES ASSUME answer.via # "ccip", answer.assets # {}
                 PROVE  \E i \in DOMAIN epochs' :
                          /\ epochs'[i].onchain = answer.latest /\ answer.latest # 0
                          /\ \E j \in DOMAIN epochs'[i].leaves :
                               epochs'[i].leaves[j].account = answer.account
                               /\ epochs'[i].leaves[j].hash = answer.assets
      OBVIOUS
    <3>1. PICK i \in DOMAIN epochs :
            /\ epochs[i].onchain = answer.latest /\ answer.latest # 0
            /\ \E j \in DOMAIN epochs[i].leaves :
                 epochs[i].leaves[j].account = answer.account
                 /\ epochs[i].leaves[j].hash = answer.assets
      BY <2>1 DEF AnswerInv
    <3>2. i \in DOMAIN epochs' /\ epochs'[i].leaves = epochs[i].leaves
          /\ epochs'[i].onchain = epochs[i].onchain
      BY <3>1 DEF EpochsKept
    <3> QED BY <3>1, <3>2
  <2> QED BY <1>1, <2>2, <2>3 DEF AnswerInv
<1>5. CopiesInv'
  <2>1. ASSUME NEW d \in copies PROVE DocSound(d)'
    <3>1. DocSound(d)
      BY DEF RecoveryInv, CopiesInv
    <3>2. Len(registry) \in Nat /\ DOMAIN registry = 1 .. Len(registry)
      BY Lists DEF RecoveryInv
    <3>3. Len(registry') \in Nat
      BY Lists DEF EpochsInv
    <3>4. d.onchain \in 0 .. Len(registry')
      BY <3>1, <3>2, <3>3 DEF DocSound, RegistryKept
    <3>5. d.onchain # 0 => registry'[d.onchain].to = d.to
      BY <3>1, <3>2 DEF DocSound, RegistryKept
    <3> QED BY <3>1, <3>4, <3>5 DEF DocSound
  <2>2. daemon # "up" => epochs' = <<>>
    BY DEF RecoveryInv, CopiesInv
  <2> QED BY <1>1, <2>1, <2>2 DEF RecoveryInv, CopiesInv, Restored
<1>6. JobInv'
  BY <1>1 DEF RecoveryInv, JobInv, Restored
<1> QED BY <1>2, <1>3, <1>4, <1>5, <1>6 DEF RecoveryInv

\* The steps of a build before its last, and an upgrade.
LEMMA BuildingMoved ==
  ASSUME RecoveryInv, BuildingInv', UNCHANGED <<epochs, registry>>,
         UNCHANGED <<indexVars, readVars, recoveryVars>>
  PROVE  RecoveryInv'
<1>1. UNCHANGED <<logs, head, cursors, rows, daemon, job>>
  BY DEF indexVars, recoveryVars
<1>2. EpochsInv'
  <2>1. \A i \in DOMAIN epochs : EpochSound(epochs[i]) /\ Indexed(epochs[i]) /\ OnChain(i, epochs[i])
    BY DEF RecoveryInv, EpochsInv
  <2>2. \A e : Indexed(e) => Indexed(e)'
    BY <1>1 DEF Indexed, InRows
  <2>3. \A i, e : OnChain(i, e) => OnChain(i, e)'
    BY DEF OnChain
  <2>4. \A i \in DOMAIN epochs' : EpochSound(epochs[i])' /\ Indexed(epochs[i])' /\ OnChain(i, epochs[i])'
    BY <2>1, <2>2, <2>3
  <2> QED BY <2>4 DEF RecoveryInv, EpochsInv
<1>3. UrisInv'
  BY <1>1 DEF RecoveryInv, UrisInv, Restored
<1>4. RegistryKept /\ EpochsKept
  <2>1. Len(registry) \in Nat
    BY Lists DEF RecoveryInv
  <2> QED BY <2>1 DEF RegistryKept, EpochsKept
<1> QED BY <1>2, <1>3, <1>4, EpochsMoved

\* CoverageRange: the rollup's own first and last block, in order.
LEMMA RangeIs ==
  ASSUME RowsSound(rows)
  PROVE  /\ CoverageRange.from \in 0 .. Top /\ CoverageRange.to \in 0 .. Top
         /\ CoverageRange.from <= CoverageRange.to
<1>1. PICK A : A = {rows[p].first : p \in DOMAIN rows}
  OBVIOUS
<1>2. PICK B : B = {rows[p].last : p \in DOMAIN rows}
  OBVIOUS
<1>3. CoverageRange = [from |-> IF DOMAIN rows = {} THEN 0 ELSE Min(A),
                       to |-> IF DOMAIN rows = {} THEN 0 ELSE Max(B)]
  BY <1>1, <1>2 DEF CoverageRange
<1>4. Top \in Nat
  BY ArtefactsAssumption DEF ArtefactsAssumption
<1>5. CASE DOMAIN rows = {}
  BY <1>3, <1>4, <1>5
<1>6. CASE DOMAIN rows # {}
  <2>1. A \subseteq 0 .. Top /\ B \subseteq 0 .. Top
    BY <1>1, <1>2 DEF RowsSound
  <2>2. PICK p \in DOMAIN rows : TRUE
    BY <1>6
  <2>3. rows[p].first \in A /\ rows[p].last \in B /\ rows[p].first <= rows[p].last
    BY <1>1, <1>2, <2>2 DEF RowsSound
  <2>4. Min(A) \in A /\ Min(A) <= rows[p].first
    <3>1. A \subseteq Nat /\ A # {}
      BY <1>4, <2>1, <2>3
    <3> QED BY <2>3, <3>1, LeastOf
  <2>5. Max(B) \in B /\ Max(B) >= rows[p].last
    <3>1. B # {}
      BY <2>3
    <3> QED BY <1>4, <2>1, <2>3, <3>1, GreatestOf
  <2>6. PICK a : a = Min(A)
    OBVIOUS
  <2>7. PICK b : b = Max(B)
    OBVIOUS
  <2>8. a \in 0 .. Top /\ b \in 0 .. Top /\ rows[p].first \in 0 .. Top /\ rows[p].last \in 0 .. Top
    BY ONLY <2>1, <2>3, <2>4, <2>5, <2>6, <2>7
  <2>9. a <= b
    BY ONLY <1>4, <2>3, <2>4, <2>5, <2>6, <2>7, <2>8
  <2>10. CoverageRange = [from |-> a, to |-> b]
    BY ONLY <1>3, <1>6, <2>6, <2>7
  <2> QED BY ONLY <2>8, <2>9, <2>10
<1> QED BY <1>5, <1>6

LEMMA BuildRangeKeeps ==
  ASSUME RecoveryInv, BuildRange, UNCHANGED recoveryVars PROVE RecoveryInv'
<1>1. RowsSound(rows)
  BY DEF RecoveryInv, IndexInv
<1>2. building' = [stage |-> "range", from |-> CoverageRange.from, to |-> CoverageRange.to]
  BY DEF BuildRange
<1>3. BuildingInv'
  BY <1>1, <1>2, RangeIs DEF BuildingInv
<1> QED BY <1>3, BuildingMoved DEF BuildRange

LEMMA BuildSnapshotKeeps ==
  ASSUME RecoveryInv, BuildSnapshot, UNCHANGED recoveryVars PROVE RecoveryInv'
<1>1. RowsSound(rows)
  BY DEF RecoveryInv, IndexInv
<1>2. PICK sets : sets = SnapshotIndex(building.to)
  OBVIOUS
<1>3. SetsSound(sets)
  BY <1>1, <1>2, SnapshotIs DEF SnapshotOf
<1>4. SetsSound(sets)'
  <2>1. UNCHANGED rows
    BY DEF BuildSnapshot, indexVars
  <2> QED BY <1>3, <2>1 DEF SetsSound, InRows
<1>5. building' = IF sets = <<>> THEN Absent
                  ELSE [stage |-> "rows", from |-> building.from, to |-> building.to, sets |-> sets]
  BY <1>2 DEF BuildSnapshot
<1>6. BuildingInv'
  <2>1. BuildingInv /\ building # Absent
    BY DEF RecoveryInv, BuildSnapshot
  <2>2. /\ building.from \in 0 .. Top /\ building.to \in 0 .. Top /\ building.from <= building.to
    BY <2>1 DEF BuildingInv
  <2>3. CASE building' = Absent
    BY <2>3 DEF BuildingInv
  <2>4. CASE building' # Absent
    <3>1. building' = [stage |-> "rows", from |-> building.from, to |-> building.to, sets |-> sets]
      BY <1>5, <2>4
    <3>2. building'.stage = "rows" /\ building'.from = building.from /\ building'.to = building.to
          /\ building'.sets = sets
      BY ONLY <3>1
    <3> QED BY <1>4, <2>2, <3>2 DEF BuildingInv
  <2> QED BY <2>3, <2>4
<1> QED BY <1>6, BuildingMoved DEF BuildSnapshot

LEMMA UpgradeKeeps ==
  ASSUME RecoveryInv, Upgrade, UNCHANGED recoveryVars PROVE RecoveryInv'
<1>1. UNCHANGED <<rows, building, epochs, registry>>
  BY DEF Upgrade, indexVars
<1>2. BuildingInv'
  BY <1>1 DEF RecoveryInv, BuildingInv, SetsSound, InRows
<1> QED BY <1>1, <1>2, BuildingMoved DEF Upgrade

LEMMA BuildStoreKeeps ==
  ASSUME RecoveryInv, daemon = "up", BuildStore, UNCHANGED recoveryVars PROVE RecoveryInv'
<1>1. PICK new : new = NewEpoch(building, CoverageFromCursors(building.to))
  OBVIOUS
<1>2. epochs' = epochs \/ epochs' = Append(epochs, new)
  BY <1>1 DEF BuildStore
<1>3. building' = Absent /\ UNCHANGED <<registry, rows, daemon, job>>
  BY DEF BuildStore, indexVars, recoveryVars
<1>4. BuildingInv'
  BY <1>3 DEF BuildingInv
<1>5. CASE epochs' = epochs
  BY <1>3, <1>4, <1>5, BuildingMoved DEF BuildStore
<1>6. CASE epochs' = Append(epochs, new)
  <2>1. EpochSound(new) /\ Indexed(new) /\ new.onchain = 0 /\ new.status = "built"
    <3>1. /\ building.from \in 0 .. Top /\ building.to \in 0 .. Top /\ building.from <= building.to
          /\ SetsSound(building.sets)
      BY DEF RecoveryInv, BuildingInv, BuildStore
    <3>2. CoverageSound(CoverageFromCursors(building.to), building.to)
      BY <3>1, CoverageIs DEF RecoveryInv
    <3> QED BY <1>1, <3>1, <3>2, NewEpochIs
  <2>2. PICK n : n = Len(epochs)
    OBVIOUS
  <2>3. n \in Nat /\ DOMAIN epochs = 1 .. n /\ IsList(epochs, n)
        /\ Len(registry) \in Nat /\ DOMAIN registry = 1 .. Len(registry)
    BY <2>2, Lists DEF RecoveryInv, EpochsInv
  <2>4. /\ IsList(epochs', n + 1) /\ epochs'[n + 1] = new
        /\ \A i \in 1 .. n : epochs'[i] = epochs[i]
    BY <1>6, <2>3, Longer
  <2>5. Len(epochs') = n + 1 /\ DOMAIN epochs' = 1 .. (n + 1)
    BY <2>4, ListLength
  <2>6. ASSUME NEW i \in 1 .. (n + 1)
        PROVE  EpochSound(epochs'[i]) /\ Indexed(epochs[i])' /\ OnChain(i, epochs[i])'
    <3>1. CASE i = n + 1
      <4>1. Indexed(new)'
        BY <1>3, <2>1 DEF Indexed, InRows
      <4>2. OnChain(i, new)'
        BY <2>1 DEF OnChain
      <4> QED BY <2>1, <2>4, <3>1, <4>1, <4>2
    <3>2. CASE i # n + 1
      <4>1. i \in 1 .. n
        BY <2>3, <3>2
      <4>2. EpochSound(epochs[i]) /\ Indexed(epochs[i]) /\ OnChain(i, epochs[i])
        BY <2>3, <4>1 DEF RecoveryInv, EpochsInv
      <4>3. epochs'[i] = epochs[i]
        BY <2>4, <4>1
      <4>4. Indexed(epochs[i])' /\ OnChain(i, epochs[i])'
        BY <1>3, <4>2, <4>3 DEF Indexed, InRows, OnChain
      <4> QED BY <4>2, <4>3, <4>4
    <3> QED BY <3>1, <3>2
  <2>7. EpochsInv'
    <3>1. IsList(registry, Len(registry))' /\ \A k \in DOMAIN registry' : EntrySound(registry'[k])
      BY <1>3 DEF RecoveryInv, EpochsInv
    <3> QED BY <2>4, <2>5, <2>6, <3>1 DEF EpochsInv
  <2>8. UrisInv'
    <3>1. \A i \in DOMAIN epochs : i \in DOMAIN epochs' /\ epochs'[i] = epochs[i]
      BY <2>3, <2>4, <2>5
    <3> QED BY <1>3, <3>1 DEF RecoveryInv, UrisInv, Restored
  <2>9. RegistryKept
    BY <1>3, <2>3 DEF RegistryKept
  <2>10. EpochsKept
    BY <2>3, <2>4, <2>5 DEF EpochsKept
  <2> QED BY <1>4, <2>7, <2>8, <2>9, <2>10, EpochsMoved DEF BuildStore
<1> QED BY <1>2, <1>5, <1>6

\* Only an epoch that is not on chain yet is built and not submitted: no entry names it.
LEMMA PublishKeeps ==
  ASSUME NEW i \in DOMAIN epochs, RecoveryInv, daemon = "up", Publish(i), UNCHANGED recoveryVars
  PROVE  RecoveryInv' /\ RegistryKept
<1>1. PICK n : n = Len(epochs)
  OBVIOUS
<1>2. PICK m : m = Len(registry)
  OBVIOUS
<1>3. /\ n \in Nat /\ DOMAIN epochs = 1 .. n /\ IsList(epochs, n)
      /\ m \in Nat /\ DOMAIN registry = 1 .. m /\ IsList(registry, m)
  BY <1>1, <1>2, Lists DEF RecoveryInv, EpochsInv
<1>4. PICK e : e = epochs[i]
  OBVIOUS
<1>5. EpochSound(e) /\ Indexed(e) /\ OnChain(i, e) /\ e.status = "built" /\ e.onchain = 0
  BY <1>4 DEF RecoveryInv, EpochsInv, OnChain, Publish
<1>6. PICK on : on = [root |-> e.root, coverage |-> Root(e.coverage), to |-> e.to,
                      uri |-> i, status |-> "proposed"]
  OBVIOUS
<1>7. registry' = Append(registry, on)
  BY <1>4, <1>6 DEF Publish
<1>8. PICK e1 : e1 = [e EXCEPT !.status = "published", !.onchain = m + 1]
  OBVIOUS
<1>9. epochs' = [epochs EXCEPT ![i] = e1]
  BY <1>2, <1>4, <1>8 DEF Publish
<1>10. UNCHANGED <<rows, building, daemon, job>>
  BY DEF Publish, indexVars, recoveryVars
<1>11. DOMAIN e = {"from", "to", "root", "coverage", "leaves", "filter", "onchain", "status"}
  BY <1>5 DEF EpochSound
<1>12. /\ e1.status = "published" /\ e1.onchain = m + 1 /\ DOMAIN e1 = DOMAIN e
       /\ e1.from = e.from /\ e1.to = e.to /\ e1.root = e.root /\ e1.coverage = e.coverage
       /\ e1.leaves = e.leaves /\ e1.filter = e.filter
  BY <1>8, <1>11
<1>13. /\ IsList(registry', m + 1) /\ registry'[m + 1] = on
       /\ \A k \in 1 .. m : registry'[k] = registry[k]
  BY <1>3, <1>7, Longer
<1>14. Len(registry') = m + 1 /\ DOMAIN registry' = 1 .. (m + 1)
  BY <1>13, ListLength
<1>15. IsList(epochs', n) /\ epochs'[i] = e1
       /\ \A j \in 1 .. n : j # i => epochs'[j] = epochs[j]
  BY <1>3, <1>9 DEF IsList
<1>16. Len(epochs') = n /\ DOMAIN epochs' = 1 .. n
  BY <1>15, ListLength
<1>17. BuildingInv'
  BY <1>10 DEF RecoveryInv, BuildingInv, SetsSound, InRows
<1>18. RegistryKept
  BY <1>2, <1>3, <1>13, <1>14 DEF RegistryKept
<1>19. EpochsKept
  BY <1>3, <1>4, <1>5, <1>12, <1>15, <1>16 DEF EpochsKept
<1>20. ASSUME NEW j \in 1 .. n
       PROVE  EpochSound(epochs'[j]) /\ Indexed(epochs[j])' /\ OnChain(j, epochs[j])'
  <2>1. CASE j = i
    <3>1. EpochSound(e1)
      BY <1>5, <1>12 DEF EpochSound
    <3>2. Indexed(e1)'
      BY <1>5, <1>10, <1>12 DEF Indexed, InRows
    <3>3. m + 1 \in DOMAIN registry' /\ m + 1 # 0
      BY <1>3, <1>14
    <3>4. OnChain(i, e1)'
      <4>1. e1.status = "published" /\ e1.onchain = m + 1 /\ e1.root = e.root
            /\ e1.coverage = e.coverage /\ e1.to = e.to
        BY <1>12
      <4>2. registry'[m + 1].uri = i /\ registry'[m + 1].root = e.root /\ registry'[m + 1].to = e.to
            /\ registry'[m + 1].coverage = Root(e.coverage)
        BY <1>6, <1>13
      <4> QED BY ONLY <3>3, <4>1, <4>2 DEF OnChain
    <3> QED BY <1>15, <2>1, <3>1, <3>2, <3>4
  <2>2. CASE j # i
    <3>1. EpochSound(epochs[j]) /\ Indexed(epochs[j]) /\ OnChain(j, epochs[j]) /\ epochs'[j] = epochs[j]
      BY <1>3, <1>15, <2>2 DEF RecoveryInv, EpochsInv
    <3>2. Indexed(epochs[j])'
      BY <1>10, <3>1 DEF Indexed, InRows
    <3>3. \A k \in DOMAIN registry : k \in DOMAIN registry' /\ registry'[k] = registry[k]
      BY <1>3, <1>13, <1>14
    <3>4. OnChain(j, epochs[j])'
      <4>1. epochs[j].onchain # 0 => epochs[j].onchain \in DOMAIN registry
        BY <3>1 DEF OnChain
      <4>2. epochs[j].status \in {"finalized", "rejected"} => epochs[j].onchain # 0
        BY <3>1 DEF OnChain
      <4> QED BY <3>1, <3>3, <4>1, <4>2 DEF OnChain
    <3> QED BY <3>1, <3>2, <3>4
  <2> QED BY <2>1, <2>2
<1>21. EpochsInv'
  <2>1. EntrySound(on)
    BY <1>6 DEF EntrySound
  <2>2. \A k \in 1 .. m : EntrySound(registry[k])
    BY <1>3 DEF RecoveryInv, EpochsInv
  <2>3. \A k \in 1 .. (m + 1) : k = m + 1 \/ k \in 1 .. m
    BY <1>3
  <2>4. \A k \in DOMAIN registry' : EntrySound(registry'[k])
    BY <1>13, <1>14, <2>1, <2>2, <2>3
  <2> QED BY <1>13, <1>14, <1>15, <1>16, <1>20, <2>4 DEF EpochsInv
<1>22. UrisInv'
  <2> SUFFICES ASSUME daemon = "up", ~Restored, NEW k \in DOMAIN registry', registry'[k].uri # 0
               PROVE  registry'[k].uri \in DOMAIN epochs' /\ epochs'[registry'[k].uri].onchain = k
    BY <1>10 DEF UrisInv, Restored
  <2>1. CASE k = m + 1
    <3>1. registry'[k].uri = i
      BY <1>6, <1>13, <2>1
    <3> QED BY <1>3, <1>12, <1>15, <1>16, <2>1, <3>1
  <2>2. CASE k # m + 1
    <3>1. k \in DOMAIN registry /\ registry'[k] = registry[k]
      BY <1>3, <1>13, <1>14, <2>2
    <3>2. registry[k].uri \in DOMAIN epochs /\ epochs[registry[k].uri].onchain = k
      BY <3>1 DEF RecoveryInv, UrisInv
    <3>3. registry[k].uri # i
      BY <1>3, <1>4, <1>5, <3>1, <3>2
    <3> QED BY <1>3, <1>15, <1>16, <3>1, <3>2, <3>3
  <2> QED BY <2>1, <2>2
<1> QED BY <1>17, <1>18, <1>19, <1>21, <1>22, EpochsMoved DEF Publish

LEMMA OthersPublishKeeps ==
  ASSUME RecoveryInv, OthersPublish, UNCHANGED recoveryVars
  PROVE  RecoveryInv' /\ RegistryKept
<1>1. PICK m : m = Len(registry)
  OBVIOUS
<1>2. m \in Nat /\ DOMAIN registry = 1 .. m /\ IsList(registry, m)
      /\ Len(epochs) \in Nat /\ DOMAIN epochs = 1 .. Len(epochs)
  BY <1>1, Lists DEF RecoveryInv, EpochsInv
<1>3. PICK on : on = [root |-> [theirs |-> m], coverage |-> ZeroHash, to |-> head,
                      uri |-> 0, status |-> "proposed"]
  OBVIOUS
<1>4. registry' = Append(registry, on)
  BY <1>1, <1>3 DEF OthersPublish
<1>5. UNCHANGED <<rows, building, epochs, daemon, job>>
  BY DEF OthersPublish, indexVars, recoveryVars
<1>6. /\ IsList(registry', m + 1) /\ registry'[m + 1] = on
      /\ \A k \in 1 .. m : registry'[k] = registry[k]
  BY <1>2, <1>4, Longer
<1>7. Len(registry') = m + 1 /\ DOMAIN registry' = 1 .. (m + 1)
  BY <1>6, ListLength
<1>8. BuildingInv'
  BY <1>5 DEF RecoveryInv, BuildingInv, SetsSound, InRows
<1>9. RegistryKept /\ EpochsKept
  BY <1>1, <1>2, <1>5, <1>6, <1>7 DEF RegistryKept, EpochsKept
<1>10. \A k \in DOMAIN registry' : k = m + 1 \/ (k \in DOMAIN registry /\ registry'[k] = registry[k])
  BY <1>2, <1>6, <1>7
<1>11. EpochsInv'
  <2>1. EntrySound(on)
    BY <1>3 DEF EntrySound
  <2>2. \A k \in DOMAIN registry' : EntrySound(registry'[k])
    BY <1>6, <1>10, <2>1 DEF RecoveryInv, EpochsInv
  <2>3. ASSUME NEW j \in DOMAIN epochs
        PROVE  EpochSound(epochs'[j]) /\ Indexed(epochs[j])' /\ OnChain(j, epochs[j])'
    <3>1. EpochSound(epochs[j]) /\ Indexed(epochs[j]) /\ OnChain(j, epochs[j])
      BY DEF RecoveryInv, EpochsInv
    <3>2. Indexed(epochs[j])'
      BY <1>5, <3>1 DEF Indexed, InRows
    <3>3. \A k \in DOMAIN registry : k \in DOMAIN registry' /\ registry'[k] = registry[k]
      BY <1>2, <1>6, <1>7
    <3>4. epochs[j].status \in {"finalized", "rejected"} => epochs[j].onchain # 0
      BY <3>1 DEF OnChain
    <3>5. OnChain(j, epochs[j])'
      BY <1>5, <3>1, <3>3, <3>4 DEF OnChain
    <3> QED BY <1>5, <3>1, <3>2, <3>5
  <2>4. IsList(epochs, Len(epochs))'
    BY <1>5 DEF RecoveryInv, EpochsInv
  <2> QED BY <1>5, <1>6, <1>7, <2>2, <2>3, <2>4 DEF EpochsInv
<1>12. UrisInv'
  <2>1. registry'[m + 1].uri = 0
    BY <1>3, <1>6
  <2> QED BY <1>5, <1>10, <2>1 DEF RecoveryInv, UrisInv, Restored
<1> QED BY <1>5, <1>8, <1>9, <1>11, <1>12, EpochsMoved DEF OthersPublish

\* The verdict is on an epoch nobody has noticed a verdict on.
LEMMA DecideKeeps ==
  ASSUME NEW i \in DOMAIN registry, NEW verdict \in {"finalized", "rejected"},
         RecoveryInv, Decide(i, verdict), UNCHANGED recoveryVars
  PROVE  RecoveryInv' /\ RegistryKept
<1>1. PICK m : m = Len(registry)
  OBVIOUS
<1>2. m \in Nat /\ DOMAIN registry = 1 .. m /\ IsList(registry, m)
      /\ Len(epochs) \in Nat /\ DOMAIN epochs = 1 .. Len(epochs)
  BY <1>1, Lists DEF RecoveryInv, EpochsInv
<1>3. PICK on : on = [registry[i] EXCEPT !.status = verdict]
  OBVIOUS
<1>4. registry' = [registry EXCEPT ![i] = on] /\ registry[i].status = "proposed"
  BY <1>3 DEF Decide
<1>5. UNCHANGED <<rows, building, epochs, daemon, job>>
  BY DEF Decide, indexVars, recoveryVars
<1>6. EntrySound(registry[i])
  BY DEF RecoveryInv, EpochsInv
<1>7. EntrySound(on) /\ on.root = registry[i].root /\ on.coverage = registry[i].coverage
      /\ on.to = registry[i].to /\ on.uri = registry[i].uri /\ on.status = verdict
  BY <1>3, <1>6 DEF EntrySound
<1>8. /\ IsList(registry', m) /\ registry'[i] = on
      /\ \A k \in 1 .. m : k # i => registry'[k] = registry[k]
  BY <1>2, <1>4 DEF IsList
<1>9. Len(registry') = m /\ DOMAIN registry' = DOMAIN registry
  BY <1>2, <1>8, ListLength
<1>10. \A k \in DOMAIN registry :
         registry'[k].root = registry[k].root /\ registry'[k].coverage = registry[k].coverage
         /\ registry'[k].to = registry[k].to /\ registry'[k].uri = registry[k].uri
         /\ (registry[k].status # "proposed" => registry'[k] = registry[k])
  BY <1>2, <1>4, <1>7, <1>8
<1>11. BuildingInv'
  BY <1>5 DEF RecoveryInv, BuildingInv, SetsSound, InRows
<1>12. RegistryKept /\ EpochsKept
  BY <1>1, <1>2, <1>5, <1>9, <1>10 DEF RegistryKept, EpochsKept
<1>13. EpochsInv'
  <2>1. \A k \in DOMAIN registry' : EntrySound(registry'[k])
    BY <1>2, <1>7, <1>8, <1>9 DEF RecoveryInv, EpochsInv
  <2>2. ASSUME NEW j \in DOMAIN epochs
        PROVE  EpochSound(epochs'[j]) /\ Indexed(epochs[j])' /\ OnChain(j, epochs[j])'
    <3>1. EpochSound(epochs[j]) /\ Indexed(epochs[j]) /\ OnChain(j, epochs[j])
      BY DEF RecoveryInv, EpochsInv
    <3>2. Indexed(epochs[j])'
      BY <1>5, <3>1 DEF Indexed, InRows
    <3>3. epochs[j].status \in {"finalized", "rejected"} => epochs[j].onchain # 0
      BY <3>1 DEF OnChain
    <3>4. OnChain(j, epochs[j])'
      BY <1>5, <1>9, <1>10, <3>1, <3>3 DEF OnChain
    <3> QED BY <1>5, <3>1, <3>2, <3>4
  <2>3. IsList(epochs, Len(epochs))'
    BY <1>5 DEF RecoveryInv, EpochsInv
  <2> QED BY <1>5, <1>8, <1>9, <2>1, <2>2, <2>3 DEF EpochsInv
<1>14. UrisInv'
  BY <1>5, <1>9, <1>10 DEF RecoveryInv, UrisInv, Restored
<1> QED BY <1>5, <1>11, <1>12, <1>13, <1>14, EpochsMoved DEF Decide

LEMMA NoticeKeeps ==
  ASSUME NEW i \in DOMAIN epochs, RecoveryInv, daemon = "up", Notice(i), UNCHANGED recoveryVars
  PROVE  RecoveryInv'
<1>1. PICK n : n = Len(epochs)
  OBVIOUS
<1>2. /\ n \in Nat /\ DOMAIN epochs = 1 .. n /\ IsList(epochs, n)
      /\ Len(registry) \in Nat /\ DOMAIN registry = 1 .. Len(registry)
  BY <1>1, Lists DEF RecoveryInv, EpochsInv
<1>3. PICK e : e = epochs[i]
  OBVIOUS
<1>4. EpochSound(e) /\ Indexed(e) /\ OnChain(i, e) /\ e.status = "published"
  BY <1>3 DEF RecoveryInv, EpochsInv, Notice
<1>5. PICK v : v = registry[e.onchain].status
  OBVIOUS
<1>6. e.onchain # 0 /\ e.onchain \in DOMAIN registry
  BY <1>4 DEF OnChain
<1>7. v \in {"finalized", "rejected"}
  <2>1. EntrySound(registry[e.onchain])
    BY <1>6 DEF RecoveryInv, EpochsInv
  <2> QED BY <1>3, <1>5, <2>1 DEF EntrySound, Notice
<1>8. PICK e1 : e1 = [e EXCEPT !.status = v]
  OBVIOUS
<1>9. epochs' = [epochs EXCEPT ![i] = e1]
  BY <1>3, <1>5, <1>8 DEF Notice
<1>10. UNCHANGED <<rows, building, registry, daemon, job>>
  BY DEF Notice, indexVars, recoveryVars
<1>11. DOMAIN e = {"from", "to", "root", "coverage", "leaves", "filter", "onchain", "status"}
  BY <1>4 DEF EpochSound
<1>12. /\ e1.status = v /\ e1.onchain = e.onchain /\ DOMAIN e1 = DOMAIN e
       /\ e1.from = e.from /\ e1.to = e.to /\ e1.root = e.root /\ e1.coverage = e.coverage
       /\ e1.leaves = e.leaves /\ e1.filter = e.filter
  BY <1>8, <1>11
<1>13. IsList(epochs', n) /\ epochs'[i] = e1
       /\ \A j \in 1 .. n : j # i => epochs'[j] = epochs[j]
  BY <1>2, <1>9 DEF IsList
<1>14. Len(epochs') = n /\ DOMAIN epochs' = 1 .. n
  BY <1>13, ListLength
<1>15. BuildingInv'
  BY <1>10 DEF RecoveryInv, BuildingInv, SetsSound, InRows
<1>16. RegistryKept /\ EpochsKept
  BY <1>2, <1>3, <1>10, <1>12, <1>13, <1>14 DEF RegistryKept, EpochsKept
<1>17. ASSUME NEW j \in 1 .. n
       PROVE  EpochSound(epochs'[j]) /\ Indexed(epochs[j])' /\ OnChain(j, epochs[j])'
  <2>1. CASE j = i
    <3>1. EpochSound(e1)
      BY <1>4, <1>12 DEF EpochSound
    <3>2. Indexed(e1)'
      BY <1>4, <1>10, <1>12 DEF Indexed, InRows
    <3>3. OnChain(i, e1)'
      BY <1>4, <1>5, <1>6, <1>7, <1>10, <1>12 DEF OnChain
    <3> QED BY <1>13, <2>1, <3>1, <3>2, <3>3
  <2>2. CASE j # i
    <3>1. EpochSound(epochs[j]) /\ Indexed(epochs[j]) /\ OnChain(j, epochs[j]) /\ epochs'[j] = epochs[j]
      BY <1>2, <1>13, <2>2 DEF RecoveryInv, EpochsInv
    <3>2. Indexed(epochs[j])'
      BY <1>10, <3>1 DEF Indexed, InRows
    <3>3. OnChain(j, epochs[j])'
      BY <1>10, <3>1 DEF OnChain
    <3> QED BY <3>1, <3>2, <3>3
  <2> QED BY <2>1, <2>2
<1>18. EpochsInv'
  <2>1. IsList(registry, Len(registry))' /\ \A k \in DOMAIN registry' : EntrySound(registry'[k])
    BY <1>10 DEF RecoveryInv, EpochsInv
  <2> QED BY <1>13, <1>14, <1>17, <2>1 DEF EpochsInv
<1>19. UrisInv'
  <2>1. \A j \in DOMAIN epochs : j \in DOMAIN epochs' /\ epochs'[j].onchain = epochs[j].onchain
    BY <1>2, <1>3, <1>12, <1>13, <1>14
  <2> QED BY <1>10, <2>1 DEF RecoveryInv, UrisInv, Restored
<1> QED BY <1>15, <1>16, <1>18, <1>19, EpochsMoved DEF Notice

-----------------------------------------------------------------------------
(* What is looked up in epochs and in the registry.                        *)

LEMMA RegistryLatestIs ==
  ASSUME EpochsInv
  PROVE  RegistryLatest # 0 =>
           RegistryLatest \in DOMAIN registry /\ registry[RegistryLatest].status = "finalized"
<1>1. PICK final : final = {i \in DOMAIN registry : registry[i].status = "finalized"}
  OBVIOUS
<1>2. RegistryLatest = IF final = {} THEN 0 ELSE Max(final)
  BY <1>1 DEF RegistryLatest
<1>3. Len(registry) \in Nat /\ final \subseteq 0 .. Len(registry)
  <2>1. Len(registry) \in Nat /\ DOMAIN registry = 1 .. Len(registry)
    BY Lists
  <2> QED BY <1>1, <2>1
<1>4. final # {} => Max(final) \in final
  BY <1>3, GreatestOf
<1> QED BY <1>1, <1>2, <1>4

\* An on-chain id is of one local epoch.
LEMMA EpochByIdIs ==
  ASSUME NEW id, EpochsInv, id # 0
  PROVE  /\ EpochByOnchainID(id) # 0 =>
              EpochByOnchainID(id) \in DOMAIN epochs /\ epochs[EpochByOnchainID(id)].onchain = id
         /\ \A i \in DOMAIN epochs : epochs[i].onchain = id => EpochByOnchainID(id) = i
<1>1. PICK those : those = {i \in DOMAIN epochs : epochs[i].onchain = id}
  OBVIOUS
<1>2. EpochByOnchainID(id) = IF those = {} THEN 0 ELSE Max(those)
  BY <1>1 DEF EpochByOnchainID
<1>3. Len(epochs) \in Nat /\ those \subseteq 0 .. Len(epochs)
  <2>1. Len(epochs) \in Nat /\ DOMAIN epochs = 1 .. Len(epochs)
    BY Lists
  <2> QED BY <1>1, <2>1
<1>4. those # {} => Max(those) \in those
  BY <1>3, GreatestOf
<1>5. \A i, j \in those : i = j
  <2>1. \A i \in those : registry[id].uri = i
    BY <1>1 DEF EpochsInv, OnChain
  <2> QED BY <2>1
<1>6. \A i \in DOMAIN epochs : epochs[i].onchain = id => i \in those
  BY <1>1
<1>7. \A i \in those : those # {} /\ Max(those) = i
  BY <1>4, <1>5
<1> QED BY <1>1, <1>2, <1>4, <1>6, <1>7

NewestOf(final) == CHOOSE i \in final : \A j \in final : epochs[j].onchain <= epochs[i].onchain

LEMMA LatestFinalizedIs ==
  ASSUME EpochsInv
  PROVE  LatestFinalizedEpoch # 0 =>
           /\ LatestFinalizedEpoch \in DOMAIN epochs
           /\ epochs[LatestFinalizedEpoch].status = "finalized"
<1>1. PICK final : final = {i \in DOMAIN epochs : epochs[i].status = "finalized"}
  OBVIOUS
<1>2. LatestFinalizedEpoch =
        IF {i \in DOMAIN epochs : epochs[i].status = "finalized"} = {} THEN 0
        ELSE NewestOf({i \in DOMAIN epochs : epochs[i].status = "finalized"})
  BY Zenon DEF LatestFinalizedEpoch, NewestOf
<1>3. LatestFinalizedEpoch = IF final = {} THEN 0 ELSE NewestOf(final)
  BY <1>1, <1>2
<1>4. ASSUME final # {} PROVE NewestOf(final) \in final
  <2>1. PICK ids : ids = {epochs[i].onchain : i \in final}
    OBVIOUS
  <2>2. Len(registry) \in Nat /\ DOMAIN registry = 1 .. Len(registry)
    BY Lists
  <2>3. \A i \in final : epochs[i].onchain \in 1 .. Len(registry)
    BY <1>1, <2>2 DEF EpochsInv, OnChain
  <2>4. ids \subseteq 0 .. Len(registry) /\ ids # {}
    BY <1>4, <2>1, <2>2, <2>3
  <2>5. PICK k \in ids : \A m \in ids : k >= m
    BY <2>2, <2>4, GreatestOf
  <2>6. PICK i \in final : epochs[i].onchain = k
    BY <2>1, <2>5
  <2>7. \A j \in final : epochs[j].onchain \in ids /\ epochs[j].onchain \in Nat
    BY <2>1, <2>2, <2>3
  <2>8. \A j \in final : epochs[j].onchain <= epochs[i].onchain
    BY <2>5, <2>6, <2>7
  <2> QED BY <2>8, Zenon DEF NewestOf
<1> QED BY <1>1, <1>3, <1>4

\* An account has one leaf in an epoch.
LEMMA LeafForIs ==
  ASSUME NEW e, NEW account, EpochSound(e)
  PROVE  /\ EpochLeafFor(e, account) # 0 =>
              EpochLeafFor(e, account) \in DOMAIN e.leaves
              /\ e.leaves[EpochLeafFor(e, account)].account = account
         /\ \A i \in DOMAIN e.leaves : e.leaves[i].account = account => EpochLeafFor(e, account) = i
<1>1. PICK at : at = {i \in DOMAIN e.leaves : e.leaves[i].account = account}
  OBVIOUS
<1>2. EpochLeafFor(e, account) = IF at = {} THEN 0 ELSE Min(at)
  BY <1>1 DEF EpochLeafFor
<1>3. /\ Len(e.leaves) \in Nat /\ DOMAIN e.leaves = 1 .. Len(e.leaves)
      /\ \A i \in DOMAIN e.leaves :
           e.leaves[i] \in [account : Account, hash : SUBSET Asset, assets : SUBSET Asset]
  BY ElementsOf DEF EpochSound
<1>4. at # {} => Min(at) \in at
  <2>1. at \subseteq Nat
    BY <1>1, <1>3
  <2> QED BY <2>1, LeastOf
<1>5. \A i, j \in DOMAIN e.leaves : e.leaves[i].account = e.leaves[j].account => i = j
  <2>1. \A i \in DOMAIN e.leaves : e.leaves[i].account \in Nat
    BY <1>3, ArtefactsAssumption DEF ArtefactsAssumption
  <2>2. \A i, j \in DOMAIN e.leaves : i < j => e.leaves[i].account < e.leaves[j].account
    BY DEF EpochSound
  <2>3. \A i, j \in DOMAIN e.leaves : i < j \/ j < i \/ i = j
    BY <1>3
  <2>4. \A i, j \in DOMAIN e.leaves : i < j => e.leaves[i].account # e.leaves[j].account
    BY <2>1, <2>2
  <2> QED BY <2>3, <2>4
<1>6. \A i \in at : at # {} /\ Min(at) = i
  BY <1>1, <1>4, <1>5
<1> QED BY <1>1, <1>2, <1>4, <1>6

\* The stored leaves are those of the root: the path to one leads from it and no other.
LEMMA ProofForVerifies ==
  ASSUME NEW e, EpochSound(e), NEW i \in DOMAIN e.leaves, NEW leaf
  PROVE  Verify(e.root, leaf, ProofFor(e, i)) <=>
           leaf = LeafHash(e.leaves[i].account, e.leaves[i].hash)
<1>1. PICK n : n = Len(e.leaves)
  OBVIOUS
<1>2. n \in Nat /\ DOMAIN e.leaves = 1 .. n
  BY <1>1 DEF EpochSound
<1>3. PICK tl : tl = TreeLeaves(e.leaves)
  OBVIOUS
<1>4. IsList(tl, n) /\ \A j \in 1 .. n : tl[j] = LeafHash(e.leaves[j].account, e.leaves[j].hash)
  BY <1>2, <1>3 DEF TreeLeaves, IsList
<1>5. e.root = Root(tl)
  BY <1>3 DEF EpochSound
<1>6. ProofFor(e, i) = Proof(Build(tl), i - 1)
  BY <1>3 DEF ProofFor, TreeLeaves
<1>7. Verify(Root(tl), leaf, Proof(Build(tl), i - 1)) <=> leaf = tl[i]
  BY <1>2, <1>4, ProofVerifies
<1> QED BY <1>2, <1>4, <1>5, <1>6, <1>7

\* A proof that is served carries the list of the account's leaf and verifies.
LeafServed(e, account, pr) ==
  /\ \E i \in DOMAIN e.leaves : e.leaves[i].account = account /\ e.leaves[i].hash = pr.assets
  /\ Verify(e.root, LeafHash(account, AssetsHash(pr.assets)), pr.proof)

LEMMA AccountProofIs ==
  ASSUME NEW e, NEW account, EpochSound(e), AccountProof(e, account) # Absent
  PROVE  LeafServed(e, account, AccountProof(e, account))
<1>1. PICK i : i = EpochLeafFor(e, account)
  OBVIOUS
<1>2. i # 0 /\ LeafAssets(e, i) = e.leaves[i].hash
  BY <1>1 DEF AccountProof, AssetsHash
<1>3. i \in DOMAIN e.leaves /\ e.leaves[i].account = account
  BY <1>1, <1>2, LeafForIs
<1>4. PICK pr : pr = AccountProof(e, account)
  OBVIOUS
<1>5. pr = [assets |-> LeafAssets(e, i), proof |-> ProofFor(e, i)]
  BY <1>1, <1>4 DEF AccountProof
<1>6. pr.assets = e.leaves[i].hash /\ pr.proof = ProofFor(e, i)
  BY <1>2, <1>5
<1>7. Verify(e.root, LeafHash(account, e.leaves[i].hash), ProofFor(e, i))
  BY <1>3, ProofForVerifies
<1> QED BY <1>3, <1>4, <1>6, <1>7 DEF LeafServed, AssetsHash

-----------------------------------------------------------------------------
(* Steps of readers.                                                       *)

LEMMA ReadMoved ==
  ASSUME RecoveryInv, FiltersInv', AnswerInv', daemon = "up",
         UNCHANGED <<indexVars, epochVars, recoveryVars>>
  PROVE  RecoveryInv'
<1>1. UNCHANGED <<logs, head, cursors, rows, building, epochs, registry, copies, daemon, job>>
  BY DEF indexVars, epochVars, recoveryVars
<1>2. IndexInv' /\ BuildingInv'
  BY <1>1 DEF RecoveryInv, IndexInv, BuildingInv, SetsSound, InRows
<1>3. EpochsInv'
  <2>1. \A i \in DOMAIN epochs : EpochSound(epochs[i]) /\ Indexed(epochs[i]) /\ OnChain(i, epochs[i])
    BY DEF RecoveryInv, EpochsInv
  <2>2. \A e : Indexed(e) => Indexed(e)'
    BY <1>1 DEF Indexed, InRows
  <2>3. \A i, e : OnChain(i, e) => OnChain(i, e)'
    BY <1>1 DEF OnChain
  <2>4. \A i \in DOMAIN epochs' : EpochSound(epochs[i])' /\ Indexed(epochs[i])' /\ OnChain(i, epochs[i])'
    BY <1>1, <2>1, <2>2, <2>3
  <2> QED BY <1>1, <2>4 DEF RecoveryInv, EpochsInv
<1>4. UrisInv' /\ JobInv'
  BY <1>1 DEF RecoveryInv, UrisInv, JobInv, Restored
<1>5. CopiesInv'
  <2>1. \A d : DocSound(d) => DocSound(d)'
    BY <1>1 DEF DocSound
  <2> QED BY <1>1, <2>1 DEF RecoveryInv, CopiesInv, Restored
<1> QED BY <1>2, <1>3, <1>4, <1>5 DEF RecoveryInv

\* What an answer says, that was made from the registry's latest epoch.
Answers(r, account) ==
  /\ r.stage = "answered" /\ r.account = account /\ r.latest = RegistryLatest
  /\ \E i \in DOMAIN epochs :
       /\ epochs[i].onchain = RegistryLatest /\ RegistryLatest # 0
       /\ \E j \in DOMAIN epochs[i].leaves :
            epochs[i].leaves[j].account = account /\ epochs[i].leaves[j].hash = r.assets

LEMMA LatestForIs ==
  ASSUME EpochsInv, LatestFinalizedFor # 0
  PROVE  /\ RegistryLatest # 0 /\ RegistryLatest \in DOMAIN registry
         /\ LatestFinalizedFor \in DOMAIN epochs
         /\ epochs[LatestFinalizedFor].onchain = RegistryLatest
         /\ EpochSound(epochs[LatestFinalizedFor])
         /\ registry[RegistryLatest].root = epochs[LatestFinalizedFor].root
<1>1. RegistryLatest # 0 /\ LatestFinalizedFor = EpochByOnchainID(RegistryLatest)
  BY DEF LatestFinalizedFor
<1>2. LatestFinalizedFor \in DOMAIN epochs /\ epochs[LatestFinalizedFor].onchain = RegistryLatest
  BY <1>1, EpochByIdIs
<1>3. RegistryLatest \in DOMAIN registry
  BY <1>1, RegistryLatestIs
<1>4. EpochSound(epochs[LatestFinalizedFor]) /\ OnChain(LatestFinalizedFor, epochs[LatestFinalizedFor])
  BY <1>2 DEF EpochsInv
<1> QED BY <1>1, <1>2, <1>3, <1>4 DEF OnChain

\* serveCCIP answers with a proof the registry accepts at the moment.
LEMMA CcipAnswerIs ==
  ASSUME NEW account, EpochsInv, CcipAnswer(account) # Absent
  PROVE  /\ Answers(CcipAnswer(account), account) /\ CcipAnswer(account).via = "ccip"
         /\ CcipAnswer(account).epoch = RegistryLatest
         /\ RegistryLatest \in DOMAIN registry
         /\ Verify(registry[RegistryLatest].root,
                   LeafHash(account, AssetsHash(CcipAnswer(account).assets)),
                   CcipAnswer(account).proof)
<1>1. PICK e : e = epochs[LatestFinalizedFor]
  OBVIOUS
<1>2. PICK pr : pr = AccountProof(e, account)
  OBVIOUS
<1>3. PICK r : r = CcipAnswer(account)
  OBVIOUS
<1>4. LatestFinalizedFor # 0 /\ pr # Absent
      /\ r = GatewayAnswer("ccip", account, pr.assets, pr.proof)
  BY <1>1, <1>2, <1>3 DEF CcipAnswer
<1>5. /\ RegistryLatest # 0 /\ RegistryLatest \in DOMAIN registry
      /\ LatestFinalizedFor \in DOMAIN epochs /\ e.onchain = RegistryLatest
      /\ EpochSound(e) /\ registry[RegistryLatest].root = e.root
  BY <1>1, <1>4, LatestForIs
<1>6. LeafServed(e, account, pr)
  BY <1>2, <1>4, <1>5, AccountProofIs
<1>7. /\ r.stage = "answered" /\ r.via = "ccip" /\ r.account = account
      /\ r.latest = RegistryLatest /\ r.epoch = e.onchain /\ r.assets = pr.assets /\ r.proof = pr.proof
  BY <1>1, <1>4 DEF GatewayAnswer
<1>8. Answers(r, account)
  BY <1>1, <1>5, <1>6, <1>7 DEF Answers, LeafServed
<1> QED BY <1>3, <1>5, <1>6, <1>7, <1>8 DEF LeafServed

\* ensRecord says nothing or the account's list.
LEMMA EnsRecordIs ==
  ASSUME NEW account, EpochsInv, EnsRecord(account) # Absent, EnsRecord(account).assets # {}
  PROVE  Answers(EnsRecord(account), account)
<1>1. PICK e : e = epochs[LatestFinalizedFor]
  OBVIOUS
<1>2. PICK r : r = EnsRecord(account)
  OBVIOUS
<1>3. PICK empty : empty = [stage |-> "answered", via |-> "ens", account |-> account,
                            latest |-> RegistryLatest, epoch |-> 0, assets |-> {}, proof |-> <<>>]
  OBVIOUS
<1>4. empty.assets = {}
  BY <1>3
<1>5. PICK pr : pr = AccountProof(e, account)
  OBVIOUS
<1>6. LatestFinalizedFor # 0 /\ pr # Absent
      /\ r = GatewayAnswer("ens", account, pr.assets, <<>>)
  BY <1>1, <1>2, <1>3, <1>4, <1>5 DEF EnsRecord
<1>7. /\ RegistryLatest # 0 /\ LatestFinalizedFor \in DOMAIN epochs /\ e.onchain = RegistryLatest
      /\ EpochSound(e)
  BY <1>1, <1>6, LatestForIs
<1>8. LeafServed(e, account, pr)
  BY <1>5, <1>6, <1>7, AccountProofIs
<1>9. r.stage = "answered" /\ r.account = account /\ r.latest = RegistryLatest /\ r.assets = pr.assets
  BY <1>6 DEF GatewayAnswer
<1> QED BY <1>1, <1>2, <1>7, <1>8, <1>9 DEF Answers, LeafServed

LEMMA AnswerKeeps ==
  ASSUME RecoveryInv, daemon = "up", UNCHANGED recoveryVars,
         \/ \E account \in Account, via \in {"ccip", "ens"} : Lookup(account, via)
         \/ ServeCCIP \/ ServeENS \/ CallBack
  PROVE  RecoveryInv'
<1>1. EpochsInv
  BY DEF RecoveryInv
<1>2. UNCHANGED <<indexVars, epochVars, cache, gets, file>>
  BY DEF Lookup, ServeCCIP, ServeENS, CallBack
<1>3. FiltersInv'
  BY <1>2 DEF RecoveryInv, FiltersInv
<1>4. UNCHANGED <<epochs, registry>>
  BY <1>2 DEF epochVars
<1>5. AnswerInv'
  <2>1. CASE \E account \in Account, via \in {"ccip", "ens"} : Lookup(account, via)
    BY <2>1 DEF Lookup, AnswerInv
  <2>2. CASE ServeCCIP
    <3>1. PICK account : account = answer.account
      OBVIOUS
    <3>2. answer' = CcipAnswer(account)
      BY <2>2, <3>1 DEF ServeCCIP
    <3>3. CASE answer' = Absent
      BY <3>3 DEF AnswerInv
    <3>4. CASE answer' # Absent
      <4>1. /\ Answers(answer', account) /\ answer'.via = "ccip"
            /\ answer'.epoch = RegistryLatest /\ RegistryLatest \in DOMAIN registry
            /\ Verify(registry[RegistryLatest].root,
                      LeafHash(account, AssetsHash(answer'.assets)), answer'.proof)
        BY <1>1, <3>2, <3>4, CcipAnswerIs
      <4>2. answer'.latest = RegistryLatest /\ answer'.account = account
        BY <4>1 DEF Answers
      <4> QED BY <1>4, <4>1, <4>2 DEF AnswerInv
    <3> QED BY <3>3, <3>4
  <2>3. CASE ServeENS
    <3>1. PICK account : account = answer.account
      OBVIOUS
    <3>2. answer' = EnsRecord(account)
      BY <2>3, <3>1 DEF ServeENS
    <3>3. answer' # Absent => answer'.via # "ccip"
      BY <3>2 DEF EnsRecord, GatewayAnswer
    <3>4. answer' # Absent /\ answer'.assets # {} => Answers(answer', account)
      BY <1>1, <3>2, EnsRecordIs
    <3>5. ASSUME answer' # Absent, answer'.assets # {}
          PROVE  \E i \in DOMAIN epochs :
                   /\ epochs[i].onchain = answer'.latest /\ answer'.latest # 0
                   /\ \E j \in DOMAIN epochs[i].leaves :
                        epochs[i].leaves[j].account = answer'.account
                        /\ epochs[i].leaves[j].hash = answer'.assets
      BY <3>4, <3>5 DEF Answers
    <3> QED BY <1>4, <3>3, <3>5 DEF AnswerInv
  <2>4. CASE CallBack
    BY <2>4 DEF CallBack, AnswerInv
  <2> QED BY <2>1, <2>2, <2>3, <2>4
<1> QED BY <1>2, <1>3, <1>5, ReadMoved

\* A set of gets with one replaced.
LEMMA FilterKeeps ==
  ASSUME NEW r \in Requester, RecoveryInv, daemon = "up", UNCHANGED recoveryVars,
         ServeHintFilter(r) \/ GetSnapshot(r) \/ GetStore(r)
  PROVE  RecoveryInv'
<1>1. UNCHANGED <<indexVars, epochVars, answer>>
  BY DEF ServeHintFilter, LookupEpoch, GetCommitted, GetCached, GetRebuild, GetSnapshot, GetStore
<1>2. UNCHANGED <<epochs, registry>>
  BY <1>1 DEF epochVars
<1>3. AnswerInv'
  BY <1>1, <1>2 DEF RecoveryInv, AnswerInv
<1>4. FiltersInv
  BY DEF RecoveryInv
<1>5. FiltersInv'
  <2>1. CASE GetCommitted(r) \/ GetCached(r)
    <3>1. cache' = cache /\ gets' = [gets EXCEPT ![r] = Absent]
      BY <2>1 DEF GetCommitted, GetCached
    <3> QED BY <1>4, <3>1 DEF FiltersInv
  <2>5. CASE LookupEpoch(r)
    <3>1. PICK get : /\ cache' = cache /\ gets' = [gets EXCEPT ![r] = get]
                     /\ get \in {[stage |-> "epoch", id |-> LatestFinalizedEpoch], [stage |-> "cache"]}
      BY <2>5 DEF LookupEpoch
    <3>2. get # Absent => get.stage \in {"epoch", "cache"}
      BY <3>1
    <3> QED BY <1>4, <3>1, <3>2 DEF FiltersInv
  <2>2. CASE GetRebuild(r)
    <3>1. PICK get : get = [stage |-> "read", to |-> CoverageRange.to]
      OBVIOUS
    <3>2. CoverageRange.to \in 0 .. Top
      BY RangeIs DEF RecoveryInv, IndexInv
    <3>3. get.stage = "read" /\ get.to \in 0 .. Top
      BY <3>1, <3>2
    <3>4. gets' = [gets EXCEPT ![r] = get] /\ cache' = cache
      BY <2>2, <3>1 DEF GetRebuild
    <3> QED BY <1>4, <3>3, <3>4 DEF FiltersInv
  <2>3. CASE GetSnapshot(r)
    <3>1. PICK to : to = gets[r].to
      OBVIOUS
    <3>2. to \in 0 .. Top
      BY <1>4, <2>3, <3>1 DEF GetSnapshot, FiltersInv
    <3>3. PICK f : f = FromIndex(SnapshotIndex(to), to)
      OBVIOUS
    <3>4. f # Absent /\ f.to = to
      BY <3>3 DEF FromIndex, Absent
    <3>5. PICK get : get = IF f.pairs = {} THEN Absent ELSE [stage |-> "store", filter |-> f]
      OBVIOUS
    <3>6. get # Absent => get.stage = "store" /\ get.filter = f
      BY <3>5
    <3>7. gets' = [gets EXCEPT ![r] = get] /\ cache' = cache
      BY <2>3, <3>1, <3>3, <3>5 DEF GetSnapshot
    <3> QED BY <1>4, <3>2, <3>4, <3>6, <3>7 DEF FiltersInv
  <2>4. CASE GetStore(r)
    <3>1. PICK f : f = gets[r].filter
      OBVIOUS
    <3>2. f.to \in 0 .. Top
      BY <1>4, <2>4, <3>1 DEF GetStore, FiltersInv
    <3>3. cache' = Newer(f) /\ gets' = [gets EXCEPT ![r] = Absent]
      BY <2>4, <3>1 DEF GetStore
    <3>4. cache' = f \/ cache' = cache
      BY <3>3 DEF Newer
    <3>5. cache' # Absent => cache'.to \in 0 .. Top
      BY <1>4, <3>2, <3>4 DEF FiltersInv
    <3> QED BY <1>4, <3>3, <3>5 DEF FiltersInv
  <2> QED BY <2>1, <2>2, <2>3, <2>4, <2>5 DEF ServeHintFilter
<1> QED BY <1>1, <1>3, <1>5, ReadMoved

-----------------------------------------------------------------------------
(* Copies, loss, and the life of the daemon.                               *)

LEMMA PrefixOf ==
  ASSUME NEW S, NEW s \in Seq(S), NEW m \in 0 .. Len(s)
  PROVE  /\ SubSeq(s, 1, m) \in Seq(S) /\ Len(SubSeq(s, 1, m)) = m
         /\ DOMAIN SubSeq(s, 1, m) = 1 .. m /\ DOMAIN s = 1 .. Len(s)
         /\ \A i \in 1 .. m : i \in DOMAIN s /\ SubSeq(s, 1, m)[i] = s[i]
  OBVIOUS

\* How much of an epoch a copy holds that breaks off after so many lines.
LEMMA CutIs ==
  ASSUME NEW n \in Nat, NEW m \in Nat, NEW cut \in 0 .. (n + m)
  PROVE  Min({cut, n}) \in 0 .. n /\ Max({0, cut - n}) \in 0 .. m
<1>1. Min({cut, n}) \in 0 .. n
  <2>1. {cut, n} \subseteq Nat /\ {cut, n} # {}
    OBVIOUS
  <2>2. Min({cut, n}) \in {cut, n} /\ \A x \in {cut, n} : Min({cut, n}) <= x
    BY <2>1, LeastOf
  <2> QED BY <2>1, <2>2
<1>2. Max({0, cut - n}) \in 0 .. m
  <2>1. \E x \in {0, cut - n} : \A y \in {0, cut - n} : x >= y
    OBVIOUS
  <2>2. Max({0, cut - n}) \in {0, cut - n} /\ Max({0, cut - n}) >= 0
    BY <2>1 DEF Max
  <2>3. cut - n <= m /\ cut - n \in Int
    OBVIOUS
  <2> QED BY <2>2, <2>3
<1> QED BY <1>1, <1>2

\* A copy has the first leaves and the first coverage rows of its epoch.
CopyOf(d, e) ==
  /\ d.onchain = e.onchain /\ d.leafCount = Len(e.leaves) /\ d.assetCount = Len(e.coverage)
  /\ Len(d.coverage) <= Len(e.coverage) /\ Len(d.leaves) <= Len(e.leaves)
  /\ \A j \in DOMAIN d.coverage : j \in DOMAIN e.coverage /\ d.coverage[j] = e.coverage[j]
  /\ \A j \in DOMAIN d.leaves : j \in DOMAIN e.leaves /\ d.leaves[j].account = e.leaves[j].account

LEMMA DocumentSound ==
  ASSUME NEW i \in DOMAIN epochs, EpochsInv,
         NEW cut \in 0 .. (Len(epochs[i].coverage) + Len(epochs[i].leaves))
  PROVE  DocSound(Document(epochs[i], cut)) /\ CopyOf(Document(epochs[i], cut), epochs[i])
<1>1. PICK e : e = epochs[i]
  OBVIOUS
<1>2. EpochSound(e) /\ OnChain(i, e)
  BY <1>1 DEF EpochsInv
<1>3. PICK n : n = Len(e.coverage)
  OBVIOUS
<1>4. PICK m : m = Len(e.leaves)
  OBVIOUS
<1>5. PICK C : C = [asset : Asset, from : Nat, to : Nat]
  OBVIOUS
<1>6. PICK L : L = [account : Account, hash : SUBSET Asset, assets : SUBSET Asset]
  OBVIOUS
<1>7. e.coverage \in Seq(C) /\ e.leaves \in Seq(L)
  BY <1>2, <1>5, <1>6 DEF EpochSound, CoverageSound
<1>8. /\ n \in Nat /\ DOMAIN e.coverage = 1 .. n
      /\ m \in Nat /\ DOMAIN e.leaves = 1 .. m /\ \A j \in 1 .. m : e.leaves[j] \in L
  BY <1>3, <1>4, <1>7, ElementsOf
<1>9. PICK p : p = Min({cut, n})
  OBVIOUS
<1>10. PICK q : q = Max({0, cut - n})
  OBVIOUS
<1>11. p \in 0 .. n /\ q \in 0 .. m
  BY <1>1, <1>3, <1>4, <1>8, <1>9, <1>10, CutIs
<1>12. PICK cov : cov = SubSeq(e.coverage, 1, p)
  OBVIOUS
<1>13. cov \in Seq(C) /\ DOMAIN cov = 1 .. p /\ \A j \in 1 .. p : j \in 1 .. n /\ cov[j] = e.coverage[j]
  BY <1>3, <1>7, <1>8, <1>11, <1>12, PrefixOf
<1>14. PICK lv : lv = [j \in 1 .. q |-> [account |-> e.leaves[j].account, assets |-> e.leaves[j].assets]]
  OBVIOUS
<1>15. IsList(lv, q) /\ DOMAIN lv = 1 .. q
  BY <1>11, <1>14 DEF IsList
<1>16. ASSUME NEW j \in 1 .. q
       PROVE  /\ lv[j] \in [account : Account, assets : SUBSET Asset]
              /\ lv[j].account = e.leaves[j].account /\ j \in 1 .. m
  <2>1. j \in 1 .. m
    BY <1>8, <1>11
  <2>2. e.leaves[j] \in L
    BY <1>8, <2>1
  <2>3. e.leaves[j].account \in Account /\ e.leaves[j].assets \in SUBSET Asset
    BY <1>6, <2>2
  <2> QED BY <1>14, <2>1, <2>3
<1>17. lv \in Seq([account : Account, assets : SUBSET Asset])
  BY <1>15, <1>16, ListLength
<1>18. PICK d : d = Document(e, cut)
  OBVIOUS
<1>19. d = [onchain |-> e.onchain, from |-> e.from, to |-> e.to,
            root |-> e.root, coverageRoot |-> Root(e.coverage),
            leafCount |-> m, assetCount |-> n, coverage |-> cov, leaves |-> lv]
  BY <1>3, <1>4, <1>9, <1>10, <1>12, <1>14, <1>18 DEF Document
<1>20. /\ d.onchain = e.onchain /\ d.from = e.from /\ d.to = e.to /\ d.coverage = cov /\ d.leaves = lv
       /\ DOMAIN d = {"onchain", "from", "to", "root", "coverageRoot", "leafCount", "assetCount",
                      "coverage", "leaves"}
  BY <1>19
<1>21. CoverageSound(cov, e.to)
  BY <1>2, <1>5, <1>8, <1>13 DEF EpochSound, CoverageSound
<1>22. \A j, k \in DOMAIN lv : j < k => lv[j].account < lv[k].account
  BY <1>2, <1>8, <1>15, <1>16 DEF EpochSound
<1>23. /\ e.onchain \in 0 .. Len(registry)
       /\ e.onchain # 0 => registry[e.onchain].to = e.to
  <2>1. Len(registry) \in Nat /\ DOMAIN registry = 1 .. Len(registry)
    BY Lists
  <2> QED BY <1>2, <2>1 DEF OnChain
<1>24. e.from \in Nat /\ e.to \in 0 .. Top /\ e.from <= e.to
  BY <1>2 DEF EpochSound
<1>25. DocSound(d)
  BY <1>17, <1>20, <1>21, <1>22, <1>23, <1>24 DEF DocSound
<1>26. CopyOf(d, e)
  <2>1. d.leafCount = m /\ d.assetCount = n
    BY <1>19
  <2>2. Len(cov) = p /\ Len(lv) = q /\ p <= n /\ q <= m
    BY <1>3, <1>7, <1>8, <1>11, <1>12, <1>15, PrefixOf, ListLength
  <2> QED BY <1>3, <1>4, <1>8, <1>13, <1>15, <1>16, <1>20, <2>1, <2>2 DEF CopyOf
<1> QED BY <1>1, <1>18, <1>25, <1>26

\* Steps that touch no table and no reader.
LEMMA Resting ==
  ASSUME RecoveryInv, UrisInv', CopiesInv', JobInv',
         UNCHANGED <<indexVars, building, epochs, registry, readVars>>
  PROVE  RecoveryInv'
<1>1. UNCHANGED <<logs, head, cursors, rows, cache, gets, file, answer>>
  BY DEF indexVars, readVars
<1>2. IndexInv' /\ BuildingInv'
  BY <1>1 DEF RecoveryInv, IndexInv, BuildingInv, SetsSound, InRows
<1>3. EpochsInv'
  <2>1. \A i \in DOMAIN epochs : EpochSound(epochs[i]) /\ Indexed(epochs[i]) /\ OnChain(i, epochs[i])
    BY DEF RecoveryInv, EpochsInv
  <2>2. \A e : Indexed(e) => Indexed(e)'
    BY <1>1 DEF Indexed, InRows
  <2>3. \A i, e : OnChain(i, e) => OnChain(i, e)'
    BY DEF OnChain
  <2>4. \A i \in DOMAIN epochs' : EpochSound(epochs[i])' /\ Indexed(epochs[i])' /\ OnChain(i, epochs[i])'
    BY <2>1, <2>2, <2>3
  <2> QED BY <2>4 DEF RecoveryInv, EpochsInv
<1>4. FiltersInv' /\ AnswerInv'
  BY <1>1 DEF RecoveryInv, FiltersInv, AnswerInv
<1> QED BY <1>2, <1>3, <1>4 DEF RecoveryInv

LEMMA DocsStay ==
  ASSUME NEW d, DocSound(d), UNCHANGED registry PROVE DocSound(d)'
  BY DEF DocSound

LEMMA MirrorKeeps ==
  ASSUME RecoveryInv, NEW i \in DOMAIN epochs,
         NEW cut \in 0 .. (Len(epochs[i].coverage) + Len(epochs[i].leaves)), Mirror(i, cut)
  PROVE  RecoveryInv'
<1>1. /\ copies' = copies \cup {Document(epochs[i], cut)}
      /\ UNCHANGED <<indexVars, building, epochs, registry, readVars, daemon, job>>
  BY DEF Mirror, epochVars
<1>2. DocSound(Document(epochs[i], cut))
  BY DocumentSound DEF RecoveryInv
<1>3. \A d \in copies' : DocSound(d)'
  BY <1>1, <1>2, DocsStay DEF RecoveryInv, CopiesInv
<1>4. CopiesInv'
  BY <1>1, <1>3 DEF RecoveryInv, CopiesInv, Restored, readVars
<1>5. UrisInv' /\ JobInv'
  BY <1>1 DEF RecoveryInv, UrisInv, JobInv, Restored
<1> QED BY <1>1, <1>4, <1>5, Resting

\* Nothing in the database names anything any more, and the registry keeps what it has.
LEMMA LoseKeeps == ASSUME RecoveryInv, Lose PROVE RecoveryInv'
<1>1. /\ daemon' = "lost" /\ cursors' = <<>> /\ rows' = <<>> /\ epochs' = <<>> /\ building' = Absent
      /\ cache' = Absent /\ gets' = [r \in Requester |-> Absent] /\ file' = Absent /\ answer' = Absent
      /\ UNCHANGED <<logs, head, registry, copies, job>>
  BY DEF Lose
<1>2. IndexInv'
  BY <1>1 DEF RecoveryInv, IndexInv, RowsSound
<1>3. BuildingInv' /\ UrisInv' /\ FiltersInv' /\ AnswerInv'
  BY <1>1 DEF BuildingInv, UrisInv, FiltersInv, AnswerInv
<1>4. EpochsInv'
  <2>1. IsList(<<>>, 0) /\ Len(<<>>) = 0 /\ DOMAIN <<>> = {}
    BY DEF IsList
  <2> QED BY <1>1, <2>1 DEF RecoveryInv, EpochsInv
<1>5. CopiesInv'
  BY <1>1, DocsStay DEF RecoveryInv, CopiesInv, Restored
<1>6. JobInv'
  BY <1>1 DEF RecoveryInv, JobInv, Restored
<1> QED BY <1>2, <1>3, <1>4, <1>5, <1>6 DEF RecoveryInv

LEMMA RestoreBeginKeeps ==
  ASSUME RecoveryInv, NEW d \in copies, RestoreBegin(d) PROVE RecoveryInv'
<1>1. DocSound(d)
  BY DEF RecoveryInv, CopiesInv
<1>2. /\ daemon' = "restoring" /\ daemon # "up"
      /\ job' = [doc |-> d, asset |-> 1, stmt |-> "register", batch |-> 0]
      /\ UNCHANGED <<indexVars, building, epochs, registry, readVars, copies>>
  BY DEF RestoreBegin
<1>3. job'.doc = d /\ job'.asset = 1 /\ job'.batch = 0 /\ DOMAIN job' = {"doc", "asset", "stmt", "batch"}
  BY <1>2
<1>4. d # Absent
  BY <1>1 DEF DocSound, Absent
<1>5. Len(d.coverage) \in Nat
  BY <1>1, ElementsOf DEF DocSound, CoverageSound
<1>6. JobInv'
  BY <1>2, <1>3, <1>5 DEF JobInv
<1>7. CopiesInv'
  BY <1>2, <1>3, <1>4, DocsStay DEF RecoveryInv, CopiesInv, Restored, readVars
<1>8. UrisInv'
  BY <1>2 DEF UrisInv
<1> QED BY <1>2, <1>6, <1>7, <1>8, Resting

LEMMA DaemonKeeps ==
  ASSUME RecoveryInv, RestoreDone \/ RestoreFails \/ StartDaemon PROVE RecoveryInv'
<1>1. UNCHANGED <<indexVars, building, epochs, registry, readVars, copies, job>>
  BY DEF RestoreDone, RestoreFails, StartDaemon, artefactVars, epochVars
<1>2. daemon # "up" /\ daemon # "lost" /\ daemon' \in {"restored", "failed", "up"}
  BY DEF RestoreDone, RestoreFails, StartDaemon, AtRows
<1>3. Restored
  BY <1>2 DEF RecoveryInv, CopiesInv
<1>4. JobInv' /\ UrisInv'
  BY <1>1, <1>3 DEF RecoveryInv, JobInv, UrisInv, Restored
<1>5. CopiesInv'
  BY <1>1, <1>2, <1>3, DocsStay DEF RecoveryInv, CopiesInv, Restored, readVars
<1> QED BY <1>1, <1>4, <1>5, Resting

-----------------------------------------------------------------------------

LEMMA RecoveryInitially == RecoveryInit => RecoveryInv
<1> SUFFICES ASSUME RecoveryInit PROVE RecoveryInv
  OBVIOUS
<1>1. PICK s \in Deployments :
        /\ logs = s.logs /\ head = s.head
        /\ cursors = <<>> /\ rows = <<>>
        /\ building = Absent /\ epochs = <<>> /\ registry = <<>>
        /\ cache = Absent /\ gets = [r \in Requester |-> Absent] /\ file = Absent /\ answer = Absent
  BY DEF RecoveryInit, ArtefactsInit
<1>2. copies = {} /\ daemon = "up"
      /\ job = [doc |-> Absent, asset |-> 0, stmt |-> "register", batch |-> 0]
  BY DEF RecoveryInit
<1>3. IndexInv
  BY <1>1, ArtefactsAssumption DEF IndexInv, RowsSound, ArtefactsAssumption
<1>4. BuildingInv /\ UrisInv /\ FiltersInv /\ AnswerInv
  BY <1>1 DEF BuildingInv, UrisInv, FiltersInv, AnswerInv
<1>5. EpochsInv
  <2>1. IsList(<<>>, 0) /\ Len(<<>>) = 0 /\ DOMAIN <<>> = {}
    BY DEF IsList
  <2> QED BY <1>1, <2>1 DEF EpochsInv
<1>6. CopiesInv /\ JobInv
  BY <1>1, <1>2 DEF CopiesInv, JobInv, Restored
<1> QED BY <1>3, <1>4, <1>5, <1>6 DEF RecoveryInv

LEMMA RecoveryStep == RecoveryInv /\ [RecoveryNext]_allVars => RecoveryInv'
<1> SUFFICES ASSUME RecoveryInv, [RecoveryNext]_allVars PROVE RecoveryInv'
  OBVIOUS
<1>1. CASE UNCHANGED allVars
  <2>1. UNCHANGED <<indexVars, building, epochs, registry, readVars, copies, daemon, job>>
    BY <1>1 DEF allVars, artefactVars, epochVars, recoveryVars
  <2>2. CopiesInv'
    BY <2>1, DocsStay DEF RecoveryInv, CopiesInv, Restored, readVars
  <2>3. UrisInv' /\ JobInv'
    BY <2>1 DEF RecoveryInv, UrisInv, JobInv, Restored
  <2> QED BY <2>1, <2>2, <2>3, Resting
<1>2. CASE UNCHANGED recoveryVars /\ daemon = "up" /\ IndexStep
  BY <1>2, FollowKeeps, RegisterAssetKeeps, BackfillKeeps DEF IndexStep
<1>3. CASE UNCHANGED recoveryVars /\ daemon = "up" /\ EpochStep
  BY <1>3, BuildRangeKeeps, BuildSnapshotKeeps, BuildStoreKeeps, PublishKeeps, NoticeKeeps,
     OthersPublishKeeps, DecideKeeps, UpgradeKeeps DEF EpochStep
<1>4. CASE UNCHANGED recoveryVars /\ daemon = "up" /\ ReadStep
  BY <1>4, AnswerKeeps, FilterKeeps DEF ReadStep
<1>5. CASE UNCHANGED recoveryVars /\ \E i \in DOMAIN registry : Decide(i, "finalized")
  BY <1>5, DecideKeeps
<1>6. CASE \E i \in DOMAIN epochs :
             \E cut \in 0 .. Len(epochs[i].coverage) + Len(epochs[i].leaves) : Mirror(i, cut)
  BY <1>6, MirrorKeeps
<1>7. CASE Lose
  BY <1>7, LoseKeeps
<1>8. CASE \E d \in copies : RestoreBegin(d)
  BY <1>8, RestoreBeginKeeps
<1>9. CASE RestoreStep
  BY <1>9, RestoreRegisterKeeps, RestoreCursorKeeps, RestoreBatchKeeps, DaemonKeeps DEF RestoreStep
<1>10. CASE RestoreFails \/ StartDaemon
  BY <1>10, DaemonKeeps
<1> QED BY <1>1, <1>2, <1>3, <1>4, <1>5, <1>6, <1>7, <1>8, <1>9, <1>10 DEF RecoveryNext, Serving

LEMMA RecoveryAlwaysInv == RecoverySpec => []RecoveryInv
  BY RecoveryInitially, RecoveryStep, PTL DEF RecoverySpec

-----------------------------------------------------------------------------
(* What readers may rely on.                                               *)

LEMMA FinalFilter == RecoveryInv => AcceptedFilterIsCommitted
<1> SUFFICES ASSUME RecoveryInv, ~Restored, FilterAccepted(file)
             PROVE  file.pairs = Committed(epochs[EpochByOnchainID(RegistryLatest)].leaves)
  BY DEF AcceptedFilterIsCommitted, Committed
<1>1. PICK k : k = RegistryLatest
  OBVIOUS
<1>2. PICK u : u = registry[k].uri
  OBVIOUS
<1>3. file # Absent /\ k # 0 /\ EpochManifest(u) = file
  BY <1>1, <1>2 DEF FilterAccepted
<1>4. u \in DOMAIN epochs /\ epochs[u].filter = file
  BY <1>3 DEF EpochManifest
<1>5. k \in DOMAIN registry
  BY <1>1, <1>3, RegistryLatestIs DEF RecoveryInv
<1>6. daemon = "up"
  BY <1>3 DEF RecoveryInv, CopiesInv
<1>7. u # 0
  BY <1>4, Lists DEF RecoveryInv
<1>8. epochs[u].onchain = k
  BY <1>2, <1>5, <1>6, <1>7 DEF RecoveryInv, UrisInv
<1>9. EpochByOnchainID(k) = u
  BY <1>3, <1>4, <1>8, EpochByIdIs DEF RecoveryInv
<1>10. EpochSound(epochs[u])
  BY <1>4 DEF RecoveryInv, EpochsInv
<1>11. file = [pairs |-> Committed(epochs[u].leaves), to |-> epochs[u].to]
  BY <1>3, <1>4, <1>10 DEF EpochSound
<1> QED BY <1>1, <1>9, <1>11

\* Server.filterBytes and runFilter of evmscan-verify: a filter accepted for the latest
\* finalized epoch holds exactly the pairs of its tree, however the rollup moved.
THEOREM AcceptedFilterAlwaysCommitted == RecoverySpec => []AcceptedFilterIsCommitted
  BY RecoveryAlwaysInv, FinalFilter, PTL

\* Cache.Get of hintfilter: however many builds race, the served filter never goes back to
\* one that covers less.
THEOREM FilterNeverDoesGoBack == RecoverySpec => FilterNeverGoesBack
<1>1. RecoveryInv /\ [RecoveryNext]_allVars
      => [daemon' = "up" /\ cache # Absent => cache' # Absent /\ cache'.to >= cache.to]_allVars
  <2> SUFFICES ASSUME RecoveryInv, RecoveryNext, daemon' = "up", cache # Absent
               PROVE  cache' # Absent /\ cache'.to >= cache.to
    OBVIOUS
  <2>1. FiltersInv
    BY DEF RecoveryInv
  <2>2. cache.to \in 0 .. Top /\ cache.to \in Int
    BY <2>1, ArtefactsAssumption DEF FiltersInv, ArtefactsAssumption
  <2>3. CASE UNCHANGED cache
    BY <2>2, <2>3
  <2>4. CASE \E r \in Requester : GetStore(r)
    <3>1. PICK r \in Requester : GetStore(r)
      BY <2>4
    <3>2. PICK f : f = gets[r].filter
      OBVIOUS
    <3>3. f # Absent /\ f.to \in 0 .. Top /\ f.to \in Int
      BY <2>1, <3>1, <3>2, ArtefactsAssumption DEF GetStore, FiltersInv, ArtefactsAssumption
    <3>4. cache' = IF f.to >= cache.to THEN f ELSE cache
      BY <3>1, <3>2 DEF GetStore, Newer
    <3> QED BY <2>2, <3>3, <3>4
  <2>5. UNCHANGED cache \/ \E r \in Requester : GetStore(r)
    <3>1. CASE IndexStep
      BY <3>1 DEF IndexStep, Follow, RegisterAsset, Backfill, readVars
    <3>2. CASE EpochStep
      BY <3>2 DEF EpochStep, BuildRange, BuildSnapshot, BuildStore, Publish, Notice, OthersPublish,
                  Decide, Upgrade, readVars
    <3>3. CASE ReadStep
      BY <3>3 DEF ReadStep, Lookup, ServeCCIP, ServeENS, CallBack, ServeHintFilter, LookupEpoch, GetCommitted,
                  GetCached, GetRebuild, GetSnapshot
    <3>4. CASE \E i \in DOMAIN registry : Decide(i, "finalized")
      BY <3>4 DEF Decide, readVars
    <3>5. CASE \E i \in DOMAIN epochs :
                 \E cut \in 0 .. Len(epochs[i].coverage) + Len(epochs[i].leaves) : Mirror(i, cut)
      BY <3>5 DEF Mirror, readVars
    <3>6. CASE Lose \/ \E d \in copies : RestoreBegin(d)
      BY <3>6 DEF Lose, RestoreBegin
    <3>7. CASE RestoreStep
      BY <3>7 DEF RestoreStep, RestoreRegister, RestoreBackfill, RestoreFloor, RestoreTail, SetCursor,
                  RestoreBatch, RestoreDone, artefactVars, readVars
    <3>8. CASE RestoreFails \/ StartDaemon
      BY <3>8 DEF RestoreFails, StartDaemon, artefactVars, readVars
    <3> QED BY <3>1, <3>2, <3>3, <3>4, <3>5, <3>6, <3>7, <3>8 DEF RecoveryNext, Serving
  <2> QED BY <2>3, <2>4, <2>5
<1> QED BY <1>1, RecoveryAlwaysInv, PTL DEF RecoverySpec, FilterNeverGoesBack

LEMMA AnswersAccepted == RecoveryInv => AnswerAccepted
<1> SUFFICES ASSUME RecoveryInv, answer # Absent, answer.stage = "answered",
                    answer.latest = RegistryLatest
             PROVE  IF answer.via = "ccip" THEN ContractsOfCallback(answer) = "verified"
                    ELSE answer.assets # {} /\ CcipAnswer(answer.account) # Absent
                           => CrossChecked(answer)
  BY DEF AnswerAccepted
<1>1. AnswerInv /\ EpochsInv
  BY DEF RecoveryInv
<1>2. CASE answer.via = "ccip"
  <2>1. /\ answer.epoch = RegistryLatest
        /\ Verify(registry[answer.epoch].root,
                  LeafHash(answer.account, AssetsHash(answer.assets)), answer.proof)
    BY <1>1, <1>2 DEF AnswerInv
  <2> QED BY <1>2, <2>1 DEF ContractsOfCallback, VerifyInclusion
<1>3. CASE answer.via # "ccip"
  <2> SUFFICES ASSUME answer.assets # {}, CcipAnswer(answer.account) # Absent PROVE CrossChecked(answer)
    BY <1>3
  <2>1. PICK direct : direct = CcipAnswer(answer.account)
    OBVIOUS
  <2>2. /\ Answers(direct, answer.account) /\ direct.epoch = RegistryLatest
        /\ Verify(registry[RegistryLatest].root,
                  LeafHash(answer.account, AssetsHash(direct.assets)), direct.proof)
    BY <1>1, <2>1, CcipAnswerIs
  <2>3. direct.account = answer.account
    BY <2>2 DEF Answers
  <2>4. ContractsOfCallback(direct) = "verified"
    BY <2>2, <2>3 DEF ContractsOfCallback, VerifyInclusion
  <2>5. PICK i \in DOMAIN epochs :
          /\ epochs[i].onchain = RegistryLatest /\ RegistryLatest # 0
          /\ \E j \in DOMAIN epochs[i].leaves :
               epochs[i].leaves[j].account = answer.account /\ epochs[i].leaves[j].hash = direct.assets
    BY <2>2 DEF Answers
  <2>6. PICK i2 \in DOMAIN epochs :
          /\ epochs[i2].onchain = RegistryLatest
          /\ \E j \in DOMAIN epochs[i2].leaves :
               epochs[i2].leaves[j].account = answer.account /\ epochs[i2].leaves[j].hash = answer.assets
    BY <1>1, <1>3 DEF AnswerInv
  <2>7. i = i2
    BY <1>1, <2>5, <2>6, EpochByIdIs
  <2>8. EpochSound(epochs[i])
    BY <1>1 DEF EpochsInv
  <2>9. PICK j \in DOMAIN epochs[i].leaves :
          epochs[i].leaves[j].account = answer.account /\ epochs[i].leaves[j].hash = direct.assets
    BY <2>5
  <2>10. PICK j2 \in DOMAIN epochs[i].leaves :
          epochs[i].leaves[j2].account = answer.account /\ epochs[i].leaves[j2].hash = answer.assets
    BY <2>6, <2>7
  <2>11. j = j2
    <3>1. PICK who : who = answer.account
      OBVIOUS
    <3>2. PICK e : e = epochs[i]
      OBVIOUS
    <3>3. EpochLeafFor(e, who) = j
      BY ONLY <2>8, <2>9, <3>1, <3>2, LeafForIs
    <3>4. EpochLeafFor(e, who) = j2
      BY ONLY <2>8, <2>10, <3>1, <3>2, LeafForIs
    <3> QED BY <3>3, <3>4
  <2> QED BY <2>1, <2>4, <2>9, <2>10, <2>11 DEF CrossChecked
<1> QED BY <1>2, <1>3

LEMMA TreesAlwaysProve == RecoveryInv => TreesProve
<1> SUFFICES ASSUME RecoveryInv PROVE TreesProve
  OBVIOUS
<1>1. SmallTreesProve
  BY PathsAlwaysVerify DEF SmallTreesProve
<1>2. ASSUME NEW e \in Range(epochs), NEW i \in DOMAIN e.leaves, NEW j \in DOMAIN e.leaves
      PROVE  Verify(e.root, LeafHash(e.leaves[j].account, e.leaves[j].hash), ProofFor(e, i)) <=> i = j
  <2>1. EpochSound(e)
    BY DEF RecoveryInv, EpochsInv, Range
  <2>2. Verify(e.root, LeafHash(e.leaves[j].account, e.leaves[j].hash), ProofFor(e, i)) <=>
          LeafHash(e.leaves[j].account, e.leaves[j].hash) = LeafHash(e.leaves[i].account, e.leaves[i].hash)
    BY <2>1, ProofForVerifies
  <2>3. LeafHash(e.leaves[j].account, e.leaves[j].hash) = LeafHash(e.leaves[i].account, e.leaves[i].hash)
          => e.leaves[j].account = e.leaves[i].account
    BY DEF LeafHash
  <2>4. e.leaves[j].account = e.leaves[i].account => i = j
    BY <2>1, LeafForIs
  <2> QED BY <2>2, <2>3, <2>4
<1> QED BY <1>1, <1>2 DEF TreesProve

LEMMA ProofsAlwaysHold == RecoveryInv => ProofsHold
<1> SUFFICES ASSUME RecoveryInv, NEW i \in DOMAIN epochs, NEW a \in Account, EpochProof(i, a) # Absent
             PROVE  ProofVerified(i, a, EpochProof(i, a))
  BY DEF ProofsHold
<1>1. EpochSound(epochs[i]) /\ OnChain(i, epochs[i])
  BY DEF RecoveryInv, EpochsInv
<1>2. PICK pr : pr = AccountProof(epochs[i], a)
  OBVIOUS
<1>3. EpochProof(i, a) = pr
  BY <1>2 DEF EpochProof
<1>4. Verify(epochs[i].root, LeafHash(a, AssetsHash(pr.assets)), pr.proof)
  BY <1>1, <1>2, <1>3, AccountProofIs DEF LeafServed
<1>5. epochs[i].onchain # 0 => registry[epochs[i].onchain].root = epochs[i].root
  BY <1>1 DEF OnChain
<1> QED BY <1>3, <1>4, <1>5 DEF ProofVerified, VerifyInclusion

\* A contract as a page shows it.
Mark(x, B) == [asset |-> x, committed |-> x \in B]

LEMMA MarkIs ==
  ASSUME NEW x, NEW B
  PROVE  Mark(x, B).asset = x /\ (Mark(x, B).committed <=> x \in B)
  BY Zenon DEF Mark

LEMMA CommittedAlwaysFinal == RecoveryInv => CommittedIsFinal
<1> SUFFICES ASSUME RecoveryInv, NEW a \in Account
             PROVE  LET e == epochs[LatestFinalizedEpoch]
                        i == EpochLeafFor(e, a)
                        shown == {c.asset : c \in {d \in AccountContracts(a) : d.committed}}
                    IN  IF LatestFinalizedEpoch = 0 THEN shown = {}
                        ELSE /\ registry[e.onchain].status = "finalized"
                             /\ IF i = 0 THEN shown = {}
                                ELSE e.leaves[i].assets # {} => shown = e.leaves[i].hash
  BY DEF CommittedIsFinal
<1>1. PICK k : k = LatestFinalizedEpoch
  OBVIOUS
<1>2. PICK e : e = epochs[k]
  OBVIOUS
<1>3. PICK i : i = EpochLeafFor(e, a)
  OBVIOUS
<1>4. PICK shown : shown = {c.asset : c \in {d \in AccountContracts(a) : d.committed}}
  OBVIOUS
<1>5. shown = {x \in AccountAssets(a) : x \in CommittedSet(a)}
  <2>1. PICK K : K = AccountContracts(a)
    OBVIOUS
  <2>2. AccountContracts(a) = {Mark(x, CommittedSet(a)) : x \in AccountAssets(a)}
    BY Zenon DEF AccountContracts, Mark
  <2>3. \A c \in K : c.asset \in AccountAssets(a) /\ (c.committed <=> c.asset \in CommittedSet(a))
    BY ONLY <2>1, <2>2, MarkIs
  <2>4. \A x \in AccountAssets(a) : \E c \in K : c.asset = x
    BY ONLY <2>1, <2>2, MarkIs
  <2>5. \A x \in shown : x \in AccountAssets(a) /\ x \in CommittedSet(a)
    BY ONLY <1>4, <2>1, <2>3
  <2>6. \A x \in AccountAssets(a) : x \in CommittedSet(a) => x \in shown
    BY ONLY <1>4, <2>1, <2>3, <2>4
  <2> QED BY ONLY <2>5, <2>6
<1>6. CommittedSet(a) = IF k = 0 THEN {} ELSE IF i = 0 THEN {} ELSE LeafAssets(e, i)
  BY <1>1, <1>2, <1>3 DEF CommittedSet
<1>7. CASE k = 0
  BY <1>1, <1>4, <1>5, <1>6, <1>7
<1>8. CASE k # 0
  <2>1. k \in DOMAIN epochs /\ e.status = "finalized"
    BY <1>1, <1>2, <1>8, LatestFinalizedIs DEF RecoveryInv
  <2>2. EpochSound(e) /\ Indexed(e) /\ OnChain(k, e)
    BY <1>2, <2>1 DEF RecoveryInv, EpochsInv
  <2>3. registry[e.onchain].status = "finalized"
    BY <2>1, <2>2 DEF OnChain
  <2>4. i = 0 => shown = {}
    BY <1>5, <1>6
  <2>5. ASSUME i # 0, e.leaves[i].assets # {} PROVE shown = e.leaves[i].hash
    <3>1. i \in DOMAIN e.leaves /\ e.leaves[i].account = a
      BY <1>3, <2>2, <2>5, LeafForIs
    <3>2. LeafAssets(e, i) = e.leaves[i].hash
      BY <2>2, <2>5, <3>1 DEF LeafAssets, EpochSound
    <3>3. \A x \in e.leaves[i].hash : <<a, x>> \in DOMAIN rows
      BY <2>2, <3>1 DEF Indexed, InRows
    <3>4. ASSUME NEW x \in e.leaves[i].hash PROVE x \in AccountAssets(a)
      <4>1. PICK p : p = <<a, x>>
        OBVIOUS
      <4>2. p \in DOMAIN rows /\ p[1] = a /\ p[2] = x
        BY <3>3, <4>1
      <4> QED BY ONLY <4>2 DEF AccountAssets
    <3> QED BY <1>5, <1>6, <1>8, <2>5, <3>2, <3>4
  <2> QED BY <1>1, <1>2, <1>3, <1>4, <1>8, <2>3, <2>4, <2>5
<1> QED BY <1>7, <1>8

\* Gateway answers, inclusion proofs and the pages' committed marks (gateway.go,
\* ensgateway.go, handlers.go): all of them say what an epoch's tree committed, and the
\* registry accepts their proofs.
THEOREM AnswersAlwaysProve == RecoverySpec => []AnswersProve
<1>1. RecoveryInv => AnswersProve
  BY AnswersAccepted, TreesAlwaysProve, ProofsAlwaysHold, CommittedAlwaysFinal DEF AnswersProve
<1> QED BY <1>1, RecoveryAlwaysInv, PTL

-----------------------------------------------------------------------------
(* A root says which leaves it was taken over.                             *)

\* What is hashed at the bottom of a tree is not itself a pair of nodes.
Plain(x) == x # ZeroHash /\ \A a, b : x # HashPair(a, b)

NodeOf(tree, h, x) == \E d \in 0 .. h : \E i \in DOMAIN tree[d] : tree[d][i] = x

\* A level above the leaves holds nodes of the one below and pairs of them.
LEMMA LevelAbove ==
  ASSUME NEW tree, NEW leaves, NEW n, NEW h, IsTree(tree, leaves, n, h),
         NEW d \in Nat, d + 1 <= h, NEW i \in DOMAIN tree[d + 1]
  PROVE  \E j, k \in DOMAIN tree[d] :
           tree[d + 1][i] = tree[d][j] \/ tree[d + 1][i] = HashPair(tree[d][j], tree[d][k])
<1>1. h \in Nat /\ d \in 0 .. h /\ d + 1 \in 1 .. h /\ (d + 1) - 1 = d
  BY DEF IsTree
<1>2. tree[d + 1] = NextLevel(tree[d])
  BY <1>1 DEF IsTree
<1>3. PICK m \in Nat \ {0} : IsList(tree[d], m)
  BY <1>1 DEF IsTree
<1>4. PICK l : l = tree[d]
  OBVIOUS
<1>5. DOMAIN l = 1 .. m
  BY <1>3, <1>4, ListLength
<1>6. IsList(NextLevel(l), (m + 1) \div 2)
      /\ \A x \in 1 .. ((m + 1) \div 2) :
           NextLevel(l)[x] = IF 2 * x > m THEN l[2 * x - 1] ELSE HashPair(l[2 * x - 1], l[2 * x])
  BY <1>3, <1>4, NextLevelIs
<1>7. i \in 1 .. ((m + 1) \div 2)
  BY <1>2, <1>4, <1>6, ListLength
<1>8. 2 * i - 1 \in 1 .. m
  BY <1>7
<1>9. CASE 2 * i > m
  BY <1>2, <1>4, <1>5, <1>6, <1>7, <1>8, <1>9
<1>10. CASE ~(2 * i > m)
  <2>1. 2 * i \in 1 .. m
    BY <1>7, <1>10
  <2>2. PICK j : j = 2 * i - 1
    OBVIOUS
  <2>3. PICK k : k = 2 * i
    OBVIOUS
  <2>4. j \in DOMAIN l /\ k \in DOMAIN l
    BY <1>5, <1>8, <2>1, <2>2, <2>3
  <2>5. NextLevel(l)[i] = HashPair(l[j], l[k])
    BY <1>6, <1>7, <1>10, <2>2, <2>3
  <2> QED BY <1>2, <1>4, <2>4, <2>5
<1> QED BY <1>9, <1>10

LEMMA PairIsOf ==
  ASSUME NEW a, NEW s, NEW b, NEW c, HashPair(a, s) = HashPair(b, c)
  PROVE  a = b \/ a = c
<1>1. {a, s} = {b, c}
  BY DEF HashPair
<1> QED BY <1>1

\* What was hashed into a node is a node further down.
LEMMA PairComesFrom ==
  ASSUME NEW tree, NEW leaves, NEW n, NEW h, IsTree(tree, leaves, n, h),
         NEW a, NEW s, \A i \in DOMAIN leaves : Plain(leaves[i]), NodeOf(tree, h, HashPair(a, s))
  PROVE  NodeOf(tree, h, a)
<1>1. h \in Nat /\ tree[0] = leaves
  BY DEF IsTree
<1> DEFINE Down(d) == \A i \in DOMAIN tree[d] : tree[d][i] = HashPair(a, s) => NodeOf(tree, h, a)
           G == {d \in Nat : d <= h => Down(d)}
<1>2. Down(0)
  BY <1>1 DEF Plain
<1>3. ASSUME NEW d \in Nat, d + 1 <= h, Down(d) PROVE Down(d + 1)
  <2> SUFFICES ASSUME NEW i \in DOMAIN tree[d + 1], tree[d + 1][i] = HashPair(a, s)
               PROVE  NodeOf(tree, h, a)
    OBVIOUS
  <2>1. PICK j, k \in DOMAIN tree[d] :
          tree[d + 1][i] = tree[d][j] \/ tree[d + 1][i] = HashPair(tree[d][j], tree[d][k])
    BY <1>3, LevelAbove
  <2>2. CASE tree[d + 1][i] = tree[d][j]
    BY <1>3, <2>2
  <2>3. CASE tree[d + 1][i] = HashPair(tree[d][j], tree[d][k])
    <3>1. a = tree[d][j] \/ a = tree[d][k]
      BY <2>3, PairIsOf
    <3>2. d \in 0 .. h
      BY <1>1, <1>3
    <3> QED BY <3>1, <3>2 DEF NodeOf
  <2> QED BY <2>1, <2>2, <2>3
<1>4. \A d \in Nat : d \in G
  <2> HIDE DEF Down
  <2>1. 0 \in G
    BY <1>2
  <2>2. \A m \in Nat : m \in G => m + 1 \in G
    BY <1>1, <1>3
  <2> HIDE DEF G
  <2> QED BY <2>1, <2>2, Upwards
<1> QED BY <1>1, <1>4 DEF NodeOf

\* A plain node is a leaf.
LEMMA PlainIsLeaf ==
  ASSUME NEW tree, NEW leaves, NEW n, NEW h, IsTree(tree, leaves, n, h),
         NEW x, Plain(x), NodeOf(tree, h, x)
  PROVE  \E i \in DOMAIN leaves : leaves[i] = x
<1>1. h \in Nat /\ tree[0] = leaves
  BY DEF IsTree
<1> DEFINE Leaf == \E i \in DOMAIN leaves : leaves[i] = x
           Down(d) == \A i \in DOMAIN tree[d] : tree[d][i] = x => Leaf
           G == {d \in Nat : d <= h => Down(d)}
<1>2. Down(0)
  BY <1>1
<1>3. ASSUME NEW d \in Nat, d + 1 <= h, Down(d) PROVE Down(d + 1)
  <2> SUFFICES ASSUME NEW i \in DOMAIN tree[d + 1], tree[d + 1][i] = x PROVE Leaf
    OBVIOUS
  <2>1. PICK j, k \in DOMAIN tree[d] :
          tree[d + 1][i] = tree[d][j] \/ tree[d + 1][i] = HashPair(tree[d][j], tree[d][k])
    BY <1>3, LevelAbove
  <2>2. tree[d][j] = x
    BY <2>1 DEF Plain
  <2> HIDE DEF Leaf
  <2> QED BY <1>3, <2>2
<1>4. \A d \in Nat : d \in G
  <2> HIDE DEF Down
  <2>1. 0 \in G
    BY <1>2
  <2>2. \A m \in Nat : m \in G => m + 1 \in G
    BY <1>1, <1>3
  <2> HIDE DEF G
  <2> QED BY <2>1, <2>2, Upwards
<1> QED BY <1>1, <1>4 DEF NodeOf

\* _verify of HintRegistry.sol: no list of siblings whatever makes a leaf verify that is
\* not in the tree the root was taken over.
THEOREM VerifiedIsLeaf ==
  ASSUME NEW n \in Nat, NEW leaves, NEW leaf, NEW m \in Nat, NEW proof, IsList(leaves, n),
         \A i \in DOMAIN leaves : Plain(leaves[i]), Plain(leaf), DOMAIN proof = 1 .. m,
         Verify(Root(leaves), leaf, proof)
  PROVE  \E i \in DOMAIN leaves : leaves[i] = leaf
<1>1. PICK acc : Steps(leaf, proof, m, acc) /\ Walk(leaf, proof) = acc[m]
  BY WalkSteps
<1>2. acc[m] = Root(leaves)
  BY <1>1, Zenon DEF Verify, Walk
<1>3. acc[0] = leaf /\ \A k \in 1 .. m : acc[k] = HashPair(acc[k - 1], proof[k])
  BY <1>1 DEF Steps
<1>4. CASE n = 0
  <2>1. leaves = <<>>
    BY <1>4 DEF IsList
  <2>2. acc[m] = ZeroHash
    BY <1>2, <2>1 DEF Root
  <2>3. m # 0
    BY <1>3, <2>2 DEF Plain
  <2>4. m \in 1 .. m
    BY <2>3
  <2>5. acc[m] = HashPair(acc[m - 1], proof[m])
    BY <1>3, <2>4
  <2>6. \A a, b : HashPair(a, b) # ZeroHash
    BY DEF HashPair, ZeroHash
  <2> QED BY <2>2, <2>5, <2>6
<1>5. CASE n # 0
  <2>1. n \in Nat \ {0}
    BY <1>5
  <2>2. PICK tree : tree = Build(leaves)
    OBVIOUS
  <2>3. PICK h : IsTree(tree, leaves, n, h) /\ Root(leaves) = tree[h][1]
    BY <2>1, <2>2, TreeIs
  <2>4. h \in Nat /\ 1 \in DOMAIN tree[h]
    <3>1. h \in Nat
      BY <2>3 DEF IsTree
    <3>2. h \in 0 .. h
      BY <3>1
    <3>3. PICK x \in Nat \ {0} : IsList(tree[h], x)
      BY <2>3, <3>2 DEF IsTree
    <3>4. DOMAIN tree[h] = 1 .. x
      BY <3>3, ListLength
    <3> QED BY <3>1, <3>4
  <2>5. NodeOf(tree, h, acc[m])
    BY <1>2, <2>3, <2>4 DEF NodeOf
  <2> DEFINE G == {j \in Nat : j <= m => NodeOf(tree, h, acc[m - j])}
  <2>6. 0 \in G
    BY <2>5
  <2>7. ASSUME NEW j \in Nat, j \in G PROVE j + 1 \in G
    <3> SUFFICES ASSUME j + 1 <= m PROVE NodeOf(tree, h, acc[m - (j + 1)])
      OBVIOUS
    <3>1. m - j \in 1 .. m /\ (m - j) - 1 = m - (j + 1) /\ NodeOf(tree, h, acc[m - j])
      BY <2>7
    <3>2. acc[m - j] = HashPair(acc[m - (j + 1)], proof[m - j])
      BY <1>3, <3>1
    <3>3. PICK a : a = acc[m - (j + 1)]
      OBVIOUS
    <3>4. PICK s : s = proof[m - j]
      OBVIOUS
    <3>5. NodeOf(tree, h, HashPair(a, s))
      BY <3>1, <3>2, <3>3, <3>4
    <3> QED BY <2>3, <3>3, <3>5, PairComesFrom
  <2>8. m \in G
    <3>1. 0 \in G /\ \A j \in Nat : j \in G => j + 1 \in G
      BY <2>6, <2>7
    <3> HIDE DEF G
    <3> QED BY <3>1, Upwards
  <2>9. NodeOf(tree, h, leaf)
    BY <1>3, <2>8
  <2> QED BY <2>3, <2>9, PlainIsLeaf
<1> QED BY <1>4, <1>5

\* Two lists with the same root have the same leaves.
LEMMA RootDetermines ==
  ASSUME NEW n \in Nat, NEW l, NEW m \in Nat, NEW k, IsList(l, n), IsList(k, m),
         \A i \in DOMAIN l : Plain(l[i]), \A i \in DOMAIN k : Plain(k[i]), Root(l) = Root(k)
  PROVE  \A i \in DOMAIN l : \E j \in DOMAIN k : k[j] = l[i]
<1> SUFFICES ASSUME NEW i \in DOMAIN l PROVE \E j \in DOMAIN k : k[j] = l[i]
  OBVIOUS
<1>1. i \in 1 .. n
  BY ListLength
<1>2. PICK p : p = Proof(Build(l), i - 1)
  OBVIOUS
<1>3. n \in Nat \ {0}
  BY <1>1
<1>4. PICK x : IsList(p, x)
  BY <1>1, <1>2, <1>3, ProofLeadsUp
<1>5. x \in Nat /\ DOMAIN p = 1 .. x
  BY <1>4, ListLength
<1>6. Verify(Root(l), l[i], p)
  BY <1>1, <1>2, ProofVerifies
<1>7. Verify(Root(k), l[i], p) /\ Plain(l[i])
  BY <1>6
<1> QED BY <1>5, <1>7, VerifiedIsLeaf

LEMMA LeafIsPlain == ASSUME NEW account, NEW assets PROVE Plain(LeafHash(account, assets))
  BY DEF Plain, LeafHash, HashPair, ZeroHash

LEMMA CoverageLeafIsPlain ==
  ASSUME NEW c \in [asset : Asset, from : Nat, to : Nat] PROVE Plain(c)
  BY DEF Plain, HashPair, ZeroHash

-----------------------------------------------------------------------------
(* A copy that rebuilds the registry's roots is whole.                     *)

LEMMA LeafDetermines ==
  ASSUME NEW a, NEW b, NEW x, NEW y, LeafHash(a, x) = LeafHash(b, y)
  PROVE  a = b /\ x = y
<1>1. PICK u : u = LeafHash(a, x)
  OBVIOUS
<1>2. u.account = a /\ u.assets = x
  BY <1>1 DEF LeafHash
<1>3. u.account = b /\ u.assets = y
  BY <1>1 DEF LeafHash
<1> QED BY <1>2, <1>3

DocWhole(d) ==
  RestoreVerified(d) =>
    /\ Len(d.leaves) = d.leafCount /\ Len(d.coverage) = d.assetCount
    /\ \A i \in DOMAIN d.leaves : d.leaves[i].assets # {}

CopiesWhole == \A d \in copies : DocWhole(d)

LEMMA DocumentWhole ==
  ASSUME NEW i \in DOMAIN epochs, EpochsInv,
         NEW cut \in 0 .. (Len(epochs[i].coverage) + Len(epochs[i].leaves))
  PROVE  DocWhole(Document(epochs[i], cut))
<1>1. PICK e : e = epochs[i]
  OBVIOUS
<1>2. PICK d : d = Document(e, cut)
  OBVIOUS
<1>3. DocSound(d) /\ CopyOf(d, e)
  BY <1>1, <1>2, DocumentSound
<1>4. EpochSound(e) /\ OnChain(i, e)
  BY <1>1 DEF EpochsInv
<1> SUFFICES ASSUME RestoreVerified(d)
             PROVE  /\ Len(d.leaves) = d.leafCount /\ Len(d.coverage) = d.assetCount
                    /\ \A j \in DOMAIN d.leaves : d.leaves[j].assets # {}
  BY <1>1, <1>2 DEF DocWhole
<1>5. e.onchain # 0 /\ e.onchain \in DOMAIN registry
  <2>1. DOMAIN registry = 1 .. Len(registry) /\ d.onchain \in DOMAIN registry
    BY Lists DEF RestoreVerified
  <2> QED BY <1>3, <2>1 DEF CopyOf
<1>6. Root(Leaves(d.leaves)) = e.root /\ Root(d.coverage) = Root(e.coverage)
  BY <1>3, <1>4, <1>5 DEF RestoreVerified, Matches, Rebuild, CopyOf, OnChain
<1>7. /\ Len(e.leaves) \in Nat /\ DOMAIN e.leaves = 1 .. Len(e.leaves)
      /\ Len(d.leaves) \in Nat /\ DOMAIN d.leaves = 1 .. Len(d.leaves)
      /\ Len(e.coverage) \in Nat /\ DOMAIN e.coverage = 1 .. Len(e.coverage)
      /\ Len(d.coverage) \in Nat /\ DOMAIN d.coverage = 1 .. Len(d.coverage)
      /\ \A j \in DOMAIN e.coverage : e.coverage[j] \in [asset : Asset, from : Nat, to : Nat]
      /\ \A j \in DOMAIN d.coverage : d.coverage[j] \in [asset : Asset, from : Nat, to : Nat]
  <2>1. /\ e.leaves \in Seq([account : Account, hash : SUBSET Asset, assets : SUBSET Asset])
        /\ d.leaves \in Seq([account : Account, assets : SUBSET Asset])
        /\ e.coverage \in Seq([asset : Asset, from : Nat, to : Nat])
        /\ d.coverage \in Seq([asset : Asset, from : Nat, to : Nat])
    BY <1>3, <1>4 DEF DocSound, EpochSound, CoverageSound
  <2> QED BY ONLY <2>1, ElementsOf
<1>8. PICK te : te = TreeLeaves(e.leaves)
  OBVIOUS
<1>9. PICK td : td = Leaves(d.leaves)
  OBVIOUS
<1>10. /\ IsList(te, Len(e.leaves)) /\ DOMAIN te = DOMAIN e.leaves
       /\ \A j \in DOMAIN te : te[j] = LeafHash(e.leaves[j].account, e.leaves[j].hash)
  BY <1>7, <1>8 DEF TreeLeaves, IsList
<1>11. /\ IsList(td, Len(d.leaves)) /\ DOMAIN td = DOMAIN d.leaves
       /\ \A j \in DOMAIN td : td[j] = LeafHash(d.leaves[j].account, d.leaves[j].assets)
  BY <1>7, <1>9 DEF Leaves, IsList, AssetsHash
<1>12. Root(te) = Root(td)
  BY <1>4, <1>6, <1>8, <1>9 DEF EpochSound
<1>13. (\A j \in DOMAIN te : Plain(te[j])) /\ (\A j \in DOMAIN td : Plain(td[j]))
  BY <1>10, <1>11, LeafIsPlain
<1>14. (\A j \in DOMAIN te : \E k \in DOMAIN td : td[k] = te[j])
       /\ (\A j \in DOMAIN td : \E k \in DOMAIN te : te[k] = td[j])
  <2>1. PICK n \in Nat : n = Len(e.leaves)
    BY <1>7
  <2>2. PICK m \in Nat : m = Len(d.leaves)
    BY <1>7
  <2>3. IsList(te, n) /\ IsList(td, m)
    BY <1>10, <1>11, <2>1, <2>2
  <2>4. (\A j \in DOMAIN te : \E k \in DOMAIN td : td[k] = te[j])
    BY ONLY <1>12, <1>13, <2>3, n \in Nat, m \in Nat, RootDetermines
  <2>5. (\A j \in DOMAIN td : \E k \in DOMAIN te : te[k] = td[j])
    BY ONLY <1>12, <1>13, <2>3, n \in Nat, m \in Nat, RootDetermines
  <2> QED BY <2>4, <2>5
<1>16. ASSUME NEW j \in DOMAIN e.leaves, NEW k \in DOMAIN d.leaves, td[k] = te[j]
       PROVE  j = k /\ d.leaves[k].assets = e.leaves[j].hash
  <2>1. d.leaves[k].account = e.leaves[j].account /\ d.leaves[k].assets = e.leaves[j].hash
    <3>1. PICK u : u = e.leaves[j]
      OBVIOUS
    <3>2. PICK v : v = d.leaves[k]
      OBVIOUS
    <3>3. LeafHash(u.account, u.hash) = LeafHash(v.account, v.assets)
      BY <1>10, <1>11, <1>16, <3>1, <3>2
    <3>4. u.account = v.account /\ u.hash = v.assets
      BY ONLY <3>3, LeafDetermines
    <3> QED BY <3>1, <3>2, <3>4
  <2>2. k \in DOMAIN e.leaves /\ e.leaves[k].account = e.leaves[j].account
    BY <1>3, <2>1 DEF CopyOf
  <2>3. PICK a : a = e.leaves[j].account
    OBVIOUS
  <2>4. EpochLeafFor(e, a) = j /\ EpochLeafFor(e, a) = k
    BY ONLY <1>4, <2>2, <2>3, LeafForIs, j \in DOMAIN e.leaves
  <2> QED BY <2>1, <2>4
<1>17. Len(d.leaves) = d.leafCount
  <2>1. Len(d.leaves) <= Len(e.leaves) /\ d.leafCount = Len(e.leaves)
    BY <1>3 DEF CopyOf
  <2>2. ASSUME Len(d.leaves) < Len(e.leaves) PROVE FALSE
    <3>1. Len(e.leaves) \in DOMAIN e.leaves /\ Len(e.leaves) \notin DOMAIN d.leaves
      BY <1>7, <2>2
    <3> QED BY <1>10, <1>11, <1>14, <1>16, <3>1
  <2> QED BY <1>7, <2>1, <2>2
<1>18. ASSUME NEW k \in DOMAIN d.leaves PROVE d.leaves[k].assets # {}
  <2>1. PICK j \in DOMAIN e.leaves : te[j] = td[k]
    BY <1>10, <1>11, <1>14
  <2>2. d.leaves[k].assets = e.leaves[j].hash
    BY <1>16, <2>1
  <2> QED BY <1>4, <2>1, <2>2 DEF EpochSound
<1>19. Len(d.coverage) = d.assetCount
  <2>1. Len(d.coverage) <= Len(e.coverage) /\ d.assetCount = Len(e.coverage)
    BY <1>3 DEF CopyOf
  <2>2. ASSUME Len(d.coverage) < Len(e.coverage) PROVE FALSE
    <3>1. PICK n : n = Len(e.coverage)
      OBVIOUS
    <3>2. n \in DOMAIN e.coverage
      BY <1>7, <2>2, <3>1
    <3>3. IsList(e.coverage, Len(e.coverage)) /\ IsList(d.coverage, Len(d.coverage))
      BY <1>3, <1>4 DEF IsList, EpochSound, DocSound, CoverageSound
    <3>4. (\A j \in DOMAIN e.coverage : Plain(e.coverage[j]))
          /\ (\A j \in DOMAIN d.coverage : Plain(d.coverage[j]))
      BY <1>7, CoverageLeafIsPlain
    <3>5. \A j \in DOMAIN e.coverage : \E k \in DOMAIN d.coverage : d.coverage[k] = e.coverage[j]
      <4>1. PICK a : a = e.coverage
        OBVIOUS
      <4>2. PICK b : b = d.coverage
        OBVIOUS
      <4>3. PICK l \in Nat : l = Len(a)
        BY <1>7, <4>1
      <4>4. PICK m \in Nat : m = Len(b)
        BY <1>7, <4>2
      <4>5. /\ IsList(a, l) /\ IsList(b, m) /\ Root(a) = Root(b)
            /\ (\A j \in DOMAIN a : Plain(a[j])) /\ (\A j \in DOMAIN b : Plain(b[j]))
        BY <1>6, <3>3, <3>4, <4>1, <4>2, <4>3, <4>4
      <4>6. \A j \in DOMAIN a : \E k \in DOMAIN b : b[k] = a[j]
        BY ONLY <4>5, l \in Nat, m \in Nat, RootDetermines
      <4> QED BY <4>1, <4>2, <4>6
    <3>6. PICK k \in DOMAIN d.coverage : d.coverage[k] = e.coverage[n]
      BY <3>2, <3>5
    <3>7. k < n /\ k \in DOMAIN e.coverage /\ e.coverage[k] = e.coverage[n]
      BY <1>3, <1>7, <2>2, <3>1, <3>6 DEF CopyOf
    <3>8. e.coverage[k].asset < e.coverage[n].asset
      BY <1>4, <3>2, <3>7 DEF EpochSound, CoverageSound
    <3>9. e.coverage[n].asset \in Nat
      BY <1>7, <3>2, ArtefactsAssumption DEF ArtefactsAssumption
    <3> QED BY <3>7, <3>8, <3>9
  <2> QED BY <1>7, <2>1, <2>2
<1> QED BY <1>17, <1>18, <1>19

\* The registry's epochs never change but in status.
LEMMA RegistryStaysKept == RecoveryInv /\ [RecoveryNext]_allVars => RegistryKept
<1> SUFFICES ASSUME RecoveryInv, [RecoveryNext]_allVars PROVE RegistryKept
  OBVIOUS
<1>1. CASE UNCHANGED registry
  <2>1. Len(registry) \in Nat
    BY Lists DEF RecoveryInv
  <2> QED BY <1>1, <2>1 DEF RegistryKept
<1>2. CASE UNCHANGED recoveryVars /\ daemon = "up" /\ EpochStep
  <2>1. UNCHANGED registry \/ RegistryKept
    BY <1>2, PublishKeeps, OthersPublishKeeps, DecideKeeps
       DEF EpochStep, BuildRange, BuildSnapshot, BuildStore, Notice, Upgrade
  <2> QED BY <1>1, <2>1
<1>3. CASE UNCHANGED recoveryVars /\ \E i \in DOMAIN registry : Decide(i, "finalized")
  BY <1>3, DecideKeeps
<1>4. CASE IndexStep
  BY <1>1, <1>4 DEF IndexStep, Follow, RegisterAsset, Backfill, epochVars
<1>5. CASE ReadStep
  BY <1>1, <1>5 DEF ReadStep, Lookup, ServeCCIP, ServeENS, CallBack, ServeHintFilter, LookupEpoch, GetCommitted,
                    GetCached, GetRebuild, GetSnapshot, GetStore, epochVars
<1>6. CASE \E i \in DOMAIN epochs :
             \E cut \in 0 .. Len(epochs[i].coverage) + Len(epochs[i].leaves) : Mirror(i, cut)
  BY <1>1, <1>6 DEF Mirror, epochVars
<1>7. CASE Lose \/ \E d \in copies : RestoreBegin(d)
  BY <1>1, <1>7 DEF Lose, RestoreBegin
<1>8. CASE RestoreStep
  BY <1>1, <1>8 DEF RestoreStep, RestoreRegister, RestoreBackfill, RestoreFloor, RestoreTail, SetCursor,
                    RestoreBatch, RestoreDone, artefactVars, epochVars
<1>9. CASE RestoreFails \/ StartDaemon \/ UNCHANGED allVars
  BY <1>1, <1>9 DEF RestoreFails, StartDaemon, allVars, artefactVars, epochVars
<1> QED BY <1>2, <1>3, <1>4, <1>5, <1>6, <1>7, <1>8, <1>9 DEF RecoveryNext, Serving

LEMMA WholeStays ==
  ASSUME NEW d, RecoveryInv, RecoveryInv', RegistryKept, DocSound(d), DocWhole(d)
  PROVE  DocWhole(d)'
<1> SUFFICES ASSUME RestoreVerified(d)' PROVE RestoreVerified(d)
  BY DEF DocWhole
<1>1. Len(registry) \in Nat /\ DOMAIN registry = 1 .. Len(registry)
  BY Lists DEF RecoveryInv
<1>2. d.onchain = 0 \/ d.onchain \in DOMAIN registry
  BY <1>1 DEF DocSound
<1>3. CASE d.onchain \in DOMAIN registry
  BY <1>3 DEF RestoreVerified, Matches, RegistryKept
<1>4. CASE d.onchain = 0
  <2>1. DOMAIN registry' = 1 .. Len(registry')
    <3>1. PICK r : r = registry'
      OBVIOUS
    <3>2. IsList(r, Len(r))
      BY <3>1 DEF RecoveryInv, EpochsInv, IsList
    <3> QED BY ONLY <3>1, <3>2, ListLength
  <2> QED BY <1>4, <2>1 DEF RestoreVerified
<1> QED BY <1>2, <1>3, <1>4

LEMMA CopiesStayWhole == RecoveryInv /\ RecoveryInv' /\ CopiesWhole /\ [RecoveryNext]_allVars => CopiesWhole'
<1> SUFFICES ASSUME RecoveryInv, RecoveryInv', CopiesWhole, [RecoveryNext]_allVars,
                    NEW d \in copies'
             PROVE  DocWhole(d)'
  BY DEF CopiesWhole
<1>1. RegistryKept
  BY RegistryStaysKept
<1>2. d \in copies \/ \E i \in DOMAIN epochs :
         \E cut \in 0 .. Len(epochs[i].coverage) + Len(epochs[i].leaves) :
           Mirror(i, cut) /\ d = Document(epochs[i], cut)
  <2>1. copies' = copies \/ \E i \in DOMAIN epochs :
          \E cut \in 0 .. Len(epochs[i].coverage) + Len(epochs[i].leaves) : Mirror(i, cut)
    BY DEF RecoveryNext, Serving, Lose, RestoreBegin, RestoreStep, RestoreRegister, RestoreBackfill,
           RestoreFloor, RestoreTail, SetCursor, RestoreBatch, RestoreDone, RestoreFails, StartDaemon,
           recoveryVars, allVars
  <2>2. ASSUME NEW i \in DOMAIN epochs,
               NEW cut \in 0 .. (Len(epochs[i].coverage) + Len(epochs[i].leaves)), Mirror(i, cut)
        PROVE  d \in copies \/ d = Document(epochs[i], cut)
    BY <2>2 DEF Mirror
  <2> QED BY <2>1, <2>2
<1>3. CASE d \in copies
  BY <1>1, <1>3, WholeStays DEF CopiesWhole, RecoveryInv, CopiesInv
<1>4. ASSUME NEW i \in DOMAIN epochs,
             NEW cut \in 0 .. (Len(epochs[i].coverage) + Len(epochs[i].leaves)),
             d = Document(epochs[i], cut)
      PROVE  DocWhole(d)'
  <2>1. DocWhole(d) /\ DocSound(d)
    BY <1>4, DocumentWhole, DocumentSound DEF RecoveryInv
  <2> QED BY <1>1, <2>1, WholeStays
<1> QED BY <1>2, <1>3, <1>4

LEMMA AlwaysWhole == RecoverySpec => [](RecoveryInv /\ CopiesWhole)
<1>1. RecoveryInit => CopiesWhole
  BY DEF RecoveryInit, CopiesWhole
<1>2. RecoveryInv /\ CopiesWhole /\ [RecoveryNext]_allVars => (RecoveryInv /\ CopiesWhole)'
  BY RecoveryStep, CopiesStayWhole
<1> QED BY <1>1, <1>2, RecoveryInitially, PTL DEF RecoverySpec

\* No tool takes a copy that was cut short: its rows do not rebuild the registry's roots.
THEOREM CutCopiesAlwaysRefused == RecoverySpec => []CutCopyRefused
<1>1. RecoveryInv /\ CopiesWhole => CutCopyRefused
  <2> SUFFICES ASSUME RecoveryInv, CopiesWhole, NEW d \in copies,
                      Len(d.leaves) < d.leafCount \/ Len(d.coverage) < d.assetCount
               PROVE  ~SnapshotVerified(d) /\ ~RestoreVerified(d)
    BY DEF CutCopyRefused
  <2>1. DocSound(d) /\ DocWhole(d)
    BY DEF RecoveryInv, CopiesInv, CopiesWhole
  <2>2. Len(d.leaves) \in Nat /\ Len(d.coverage) \in Nat
    BY <2>1 DEF DocSound, CoverageSound
  <2>3. ~RestoreVerified(d)
    BY <2>1, <2>2 DEF DocWhole
  <2> QED BY <2>3 DEF SnapshotVerified, RestoreVerified
<1> QED BY <1>1, AlwaysWhole, PTL

-----------------------------------------------------------------------------
(* A restore gives back what was committed.                                *)

\* There is one way to list a set in order.
LEMMA OrderedOnce ==
  ASSUME NEW S, S \subseteq Nat, NEW s, NEW n, NEW t, NEW m, Ordered(s, S, n), Ordered(t, S, m)
  PROVE  s = t
<1>1. n \in Nat /\ m \in Nat
  BY DEF Ordered, IsList
<1>2. (\A i \in 1 .. n : s[i] \in S) /\ (\A i \in 1 .. m : t[i] \in S)
  BY DEF Ordered
<1> DEFINE Agree(k) == k <= n \/ k <= m => k <= n /\ k <= m /\ (k # 0 => s[k] = t[k])
           G == {k \in Nat : \A i \in 0 .. k : Agree(i)}
<1>3. 0 \in G
  BY <1>1
<1>4. ASSUME NEW k \in Nat, k \in G PROVE k + 1 \in G
  <2> SUFFICES Agree(k + 1)
    <3>1. \A i \in 0 .. (k + 1) : i \in 0 .. k \/ i = k + 1
      OBVIOUS
    <3> QED BY <1>4, <3>1
  <2>1. \A i \in 1 .. k : i <= n \/ i <= m => i <= n /\ i <= m /\ s[i] = t[i]
    BY <1>4
  <2> HIDE DEF G
  <2>2. ASSUME k + 1 <= n
        PROVE  k + 1 <= m /\ t[k + 1] <= s[k + 1]
    <3> DEFINE z == k + 1
    <3>0. z \in 1 .. n
      BY <1>1, <2>2
    <3>1. PICK x \in S : x = s[z]
      <4> HIDE DEF z
      <4> QED BY <1>2, <3>0
    <3>2. PICK j \in 1 .. m : t[j] = x
      BY DEF Ordered
    <3>3. ~(j <= k)
      <4> SUFFICES ASSUME j <= k PROVE FALSE
        OBVIOUS
      <4>1. j \in 1 .. n /\ s[j] = x
        BY <1>1, <2>1, <2>2, <3>2
      <4>2. s[j] < s[k + 1]
        BY <1>1, <2>2, <4>1 DEF Ordered
      <4> QED BY <3>1, <4>1, <4>2
    <3>4. k + 1 <= m /\ k + 1 <= j
      BY <1>1, <3>3
    <3>5. k + 1 < j => t[k + 1] < t[j]
      BY <1>1, <3>4 DEF Ordered
    <3>6. k + 1 = j \/ k + 1 < j
      BY <1>1, <3>4
    <3>7. t[z] \in Nat
      <4>1. z \in 1 .. m
        BY <1>1, <3>4
      <4> HIDE DEF z
      <4> QED BY <1>2, <4>1
    <3> QED BY <3>1, <3>2, <3>4, <3>5, <3>6, <3>7
  <2>3. ASSUME k + 1 <= m
        PROVE  k + 1 <= n /\ s[k + 1] <= t[k + 1]
    <3> DEFINE z == k + 1
    <3>0. z \in 1 .. m
      BY <1>1, <2>3
    <3>1. PICK x \in S : x = t[z]
      <4> HIDE DEF z
      <4> QED BY <1>2, <3>0
    <3>2. PICK j \in 1 .. n : s[j] = x
      BY DEF Ordered
    <3>3. ~(j <= k)
      <4> SUFFICES ASSUME j <= k PROVE FALSE
        OBVIOUS
      <4>1. j \in 1 .. m /\ t[j] = x
        BY <1>1, <2>1, <2>3, <3>2
      <4>2. t[j] < t[k + 1]
        BY <1>1, <2>3, <4>1 DEF Ordered
      <4> QED BY <3>1, <4>1, <4>2
    <3>4. k + 1 <= n /\ k + 1 <= j
      BY <1>1, <3>3
    <3>5. k + 1 < j => s[k + 1] < s[j]
      BY <1>1, <3>4 DEF Ordered
    <3>6. k + 1 = j \/ k + 1 < j
      BY <1>1, <3>4
    <3>7. s[z] \in Nat
      <4>1. z \in 1 .. n
        BY <1>1, <3>4
      <4> HIDE DEF z
      <4> QED BY <1>2, <4>1
    <3> QED BY <3>1, <3>2, <3>4, <3>5, <3>6, <3>7
  <2>4. k + 1 <= n /\ k + 1 <= m => s[k + 1] \in Nat /\ t[k + 1] \in Nat
    <3> DEFINE z == k + 1
    <3> SUFFICES ASSUME z \in 1 .. n, z \in 1 .. m PROVE s[z] \in Nat /\ t[z] \in Nat
      BY <1>1
    <3> HIDE DEF z
    <3> QED BY <1>2
  <2> QED BY <2>2, <2>3, <2>4
<1>5. \A k \in Nat : k \in G
  <2> HIDE DEF G
  <2> QED BY <1>3, <1>4, Upwards
<1>6. \A k \in Nat : Agree(k)
  BY <1>5
<1>7. n = m
  BY <1>1, <1>6
<1>8. \A i \in 1 .. n : s[i] = t[i]
  BY <1>1, <1>6
<1> QED BY <1>7, <1>8 DEF Ordered, IsList

\* What FlattenSeq joins is all there.
LEMMA FlattenHolds ==
  ASSUME NEW n, NEW q, IsList(q, n), \A k \in 1 .. n : \E m : IsList(q[k], m)
  PROVE  \A k \in 1 .. n : \A j \in DOMAIN q[k] :
           \E i \in DOMAIN FlattenSeq(q) : FlattenSeq(q)[i] = q[k][j]
<1>1. n \in Nat
  BY ListLength
<1>2. PICK fl : Joins(q, n, fl) /\ FlattenSeq(q) = fl[n]
  BY FlattenJoins
<1> DEFINE All(h) == h <= n =>
             /\ \E m : IsList(fl[h], m)
             /\ \A k \in 1 .. h : \A j \in DOMAIN q[k] : \E i \in DOMAIN fl[h] : fl[h][i] = q[k][j]
           G == {h \in Nat : All(h)}
<1>3. 0 \in G
  <2>1. fl[0] = <<>>
    BY <1>2 DEF Joins
  <2>2. IsList(<<>>, 0)
    BY DEF IsList
  <2> QED BY <2>1, <2>2
<1>4. ASSUME NEW h \in Nat, h \in G PROVE h + 1 \in G
  <2> SUFFICES ASSUME h + 1 <= n PROVE All(h + 1)
    OBVIOUS
  <2>1. fl[h + 1] = fl[h] \o q[h + 1]
    <3>1. h + 1 \in 1 .. n /\ (h + 1) - 1 = h
      BY <1>1
    <3> QED BY <1>2, <3>1 DEF Joins
  <2>2. PICK a : a = fl[h]
    OBVIOUS
  <2>3. PICK b : b = q[h + 1]
    OBVIOUS
  <2>4. PICK m : IsList(a, m)
    BY <1>1, <1>4, <2>2
  <2>5. PICK l : IsList(b, l)
    BY <1>1, <2>3
  <2>6. /\ m \in Nat /\ l \in Nat /\ DOMAIN a = 1 .. m /\ DOMAIN b = 1 .. l
        /\ Len(a) = m /\ Len(b) = l
    BY <2>4, <2>5, ListLength
  <2>7. PICK c : c = a \o b
    OBVIOUS
  <2>8. /\ c = [i \in 1 .. (m + l) |-> IF i <= m THEN a[i] ELSE b[i - m]]
        /\ DOMAIN c = 1 .. (m + l)
    <3>1. PICK X : X = {a[i] : i \in 1 .. m} \cup {b[i] : i \in 1 .. l}
      OBVIOUS
    <3>2. (\A i \in 1 .. m : a[i] \in X) /\ (\A i \in 1 .. l : b[i] \in X)
      BY <3>1
    <3>3. a \in Seq(X) /\ b \in Seq(X)
      BY <2>4, <2>5, <3>2, ListLength
    <3>4. a \o b \in Seq(X) /\ Len(a \o b) = Len(a) + Len(b)
      BY ONLY <3>3
    <3>5. \A i \in 1 .. (Len(a) + Len(b)) : (a \o b)[i] = IF i <= Len(a) THEN a[i] ELSE b[i - Len(a)]
      BY ONLY <3>3
    <3>6. c \in Seq(X) /\ Len(c) = m + l
      BY <2>6, <2>7, <3>4
    <3>7. DOMAIN c = 1 .. (m + l) /\ c = [i \in 1 .. (m + l) |-> c[i]]
      BY ONLY <3>6
    <3> QED BY <2>6, <2>7, <3>5, <3>7
  <2>9. IsList(c, m + l)
    BY <2>6, <2>8 DEF IsList
  <2>10. ASSUME NEW k \in 1 .. (h + 1), NEW j \in DOMAIN q[k]
         PROVE  \E i \in DOMAIN c : c[i] = q[k][j]
    <3>1. CASE k = h + 1
      <4>1. j \in 1 .. l /\ q[k][j] = b[j]
        BY <2>3, <2>6, <3>1
      <4>2. m + j \in 1 .. (m + l) /\ ~(m + j <= m) /\ (m + j) - m = j
        BY <2>6, <4>1
      <4> QED BY <2>8, <4>1, <4>2
    <3>2. CASE k # h + 1
      <4>1. k \in 1 .. h
        BY <3>2
      <4>2. PICK i \in DOMAIN a : a[i] = q[k][j]
        BY <1>1, <1>4, <2>2, <4>1
      <4>3. i \in 1 .. (m + l) /\ i <= m
        BY <2>6
      <4> QED BY <2>8, <4>2, <4>3
    <3> QED BY <3>1, <3>2
  <2>11. fl[h + 1] = c
    BY <2>1, <2>2, <2>3, <2>7
  <2>12. \E x : IsList(fl[h + 1], x)
    BY <2>9, <2>11
  <2> QED BY <2>10, <2>11, <2>12
<1>5. \A h \in Nat : h \in G
  <2> HIDE DEF G
  <2> QED BY <1>3, <1>4, Upwards
<1>6. All(n)
  BY <1>1, <1>5
<1> QED BY <1>1, <1>2, <1>6

\* The pairs a document's leaves list.
Pairs(d) == UNION {{<<d.leaves[i].account, a>> : a \in d.leaves[i].assets} : i \in DOMAIN d.leaves}

PairsOf(d, i) == {<<d.leaves[i].account, a>> : a \in d.leaves[i].assets}

LEMMA PairsAre ==
  ASSUME NEW d
  PROVE  \A p : p \in Pairs(d) <=> \E i \in DOMAIN d.leaves : p \in PairsOf(d, i)
  BY DEF Pairs, PairsOf

\* A restore writes the pairs of the leaves and no other, over the epoch's range.
LEMMA InteractionsAre ==
  ASSUME NEW d, DocSound(d)
  PROVE  /\ Interactions(d) \in Seq({r \in Row : r.first = d.from /\ <<r.account, r.asset>> \in Pairs(d)})
         /\ \A p \in Pairs(d) : \E k \in DOMAIN Interactions(d) :
              <<Interactions(d)[k].account, Interactions(d)[k].asset>> = p
<1>1. PICK n : n = Len(d.leaves)
  OBVIOUS
<1>2. n \in Nat /\ DOMAIN d.leaves = 1 .. n
  BY <1>1 DEF DocSound
<1>3. PICK R : R = {r \in Row : r.first = d.from /\ <<r.account, r.asset>> \in Pairs(d)}
  OBVIOUS
<1>4. PICK q : q = [i \in DOMAIN d.leaves |->
        [j \in DOMAIN InOrder(d.leaves[i].assets) |->
           [account |-> d.leaves[i].account, asset |-> InOrder(d.leaves[i].assets)[j],
            first |-> d.from, last |-> d.to]]]
  OBVIOUS
<1>5. Interactions(d) = FlattenSeq(q)
  BY <1>4, Zenon DEF Interactions
<1>6. ASSUME NEW i \in 1 .. n
      PROVE  /\ q[i] \in Seq(R) /\ \E m : IsList(q[i], m)
             /\ \A a \in d.leaves[i].assets : \E j \in DOMAIN q[i] :
                  <<q[i][j].account, q[i][j].asset>> = <<d.leaves[i].account, a>>
  <2>1. d.leaves[i] \in [account : Account, assets : SUBSET Asset]
    BY <1>2, ElementsOf DEF DocSound
  <2>2. PICK as : as = InOrder(d.leaves[i].assets)
    OBVIOUS
  <2>3. d.leaves[i].assets \subseteq Nat /\ IsFiniteSet(d.leaves[i].assets)
    BY <2>1, FS_Subset, ArtefactsAssumption DEF ArtefactsAssumption
  <2>4. PICK m : Ordered(as, d.leaves[i].assets, m)
    BY <2>2, <2>3, InOrderIs
  <2>5. m \in Nat /\ DOMAIN as = 1 .. m
    BY <2>4, ListLength DEF Ordered
  <2>6. q[i] = [j \in DOMAIN as |-> [account |-> d.leaves[i].account, asset |-> as[j],
                                     first |-> d.from, last |-> d.to]]
    BY <1>2, <1>4, <2>2
  <2>7. IsList(q[i], m)
    BY <2>5, <2>6 DEF IsList
  <2>8. d.from \in 0 .. Top /\ d.to \in 0 .. Top
    BY ArtefactsAssumption DEF DocSound, ArtefactsAssumption
  <2>9. ASSUME NEW j \in 1 .. m PROVE q[i][j] \in R
    <3>1. q[i][j] = [account |-> d.leaves[i].account, asset |-> as[j],
                     first |-> d.from, last |-> d.to]
      BY ONLY <2>5, <2>6, j \in 1 .. m
    <3>2. as[j] \in d.leaves[i].assets
      BY <2>4 DEF Ordered
    <3>3. PICK r : r = q[i][j]
      OBVIOUS
    <3>4. PICK x : x = as[j]
      OBVIOUS
    <3>5. PICK who : who = d.leaves[i].account
      OBVIOUS
    <3>6. PICK f : f = d.from
      OBVIOUS
    <3>7. PICK t : t = d.to
      OBVIOUS
    <3>8. r = [account |-> who, asset |-> x, first |-> f, last |-> t]
      BY ONLY <3>1, <3>3, <3>4, <3>5, <3>6, <3>7
    <3>9. who \in Account /\ x \in Asset /\ f \in 0 .. Top /\ t \in 0 .. Top
      BY <2>1, <2>8, <3>2, <3>4, <3>5, <3>6, <3>7
    <3>10. r \in Row
      BY ONLY <3>8, <3>9 DEF Row
    <3>11. r.first = f /\ r.account = who /\ r.asset = x
      BY ONLY <3>8
    <3>12. <<who, x>> \in Pairs(d)
      <4>1. <<who, x>> \in PairsOf(d, i)
        BY <3>2, <3>4, <3>5 DEF PairsOf
      <4> QED BY <1>2, <4>1, PairsAre
    <3> QED BY ONLY <1>3, <3>3, <3>6, <3>10, <3>11, <3>12
  <2>10. ASSUME NEW a \in d.leaves[i].assets
         PROVE  \E j \in DOMAIN q[i] :
                  <<q[i][j].account, q[i][j].asset>> = <<d.leaves[i].account, a>>
    <3>1. PICK j \in 1 .. m : as[j] = a
      BY <2>4 DEF Ordered
    <3>2. q[i][j] = [account |-> d.leaves[i].account, asset |-> as[j],
                     first |-> d.from, last |-> d.to]
      BY ONLY <2>5, <2>6, j \in 1 .. m
    <3>3. j \in DOMAIN q[i]
      BY <2>5, <2>6
    <3> QED BY <3>1, <3>2, <3>3
  <2>11. q[i] \in Seq(R)
    BY <2>7, <2>9, ListLength
  <2> QED BY <2>7, <2>10, <2>11
<1>7. IsList(q, n)
  BY <1>2, <1>4 DEF IsList
<1>8. FlattenSeq(q) \in Seq(R)
  BY <1>6, <1>7, FlattenTyped
<1>9. \A k \in 1 .. n : \A j \in DOMAIN q[k] :
        \E i \in DOMAIN FlattenSeq(q) : FlattenSeq(q)[i] = q[k][j]
  <2>1. \A k \in 1 .. n : \E m : IsList(q[k], m)
    BY <1>6
  <2> QED BY ONLY <1>7, <2>1, FlattenHolds
<1>10. ASSUME NEW p \in Pairs(d)
       PROVE  \E k \in DOMAIN FlattenSeq(q) : <<FlattenSeq(q)[k].account, FlattenSeq(q)[k].asset>> = p
  <2>1. PICK i \in DOMAIN d.leaves : p \in PairsOf(d, i)
    BY PairsAre
  <2>2. PICK a \in d.leaves[i].assets : p = <<d.leaves[i].account, a>>
    BY <2>1 DEF PairsOf
  <2>3. PICK j \in DOMAIN q[i] : <<q[i][j].account, q[i][j].asset>> = p
    BY <1>2, <1>6, <2>2
  <2> QED BY <1>2, <1>9, <2>3
<1> QED BY <1>3, <1>5, <1>8, <1>10

\* A rollup of exactly a document's pairs is listed as its leaves.
LEMMA SnapshotIsCopy ==
  ASSUME NEW d, DocSound(d), RowsSound(rows), DOMAIN rows = Pairs(d),
         \A p \in DOMAIN rows : rows[p].first = d.from,
         \A i \in DOMAIN d.leaves : d.leaves[i].assets # {}
  PROVE  SnapshotIndex(d.to) = d.leaves
<1>1. PICK sets : sets = SnapshotIndex(d.to)
  OBVIOUS
<1>2. SnapshotOf(sets, d.to)
  BY <1>1, SnapshotIs
<1>3. Seen(d.to) = Pairs(d)
  BY DEF Seen, DocSound
<1>4. PICK T : T = [account : Account, assets : SUBSET Asset]
  OBVIOUS
<1>5. sets \in Seq(T) /\ d.leaves \in Seq(T)
  BY <1>2, <1>4 DEF SnapshotOf, SetsSound, DocSound
<1>6. PICK l : l = d.leaves
  OBVIOUS
<1>7. PICK n : n = Len(sets)
  OBVIOUS
<1>8. PICK m : m = Len(l)
  OBVIOUS
<1>9. /\ n \in Nat /\ DOMAIN sets = 1 .. n /\ \A i \in 1 .. n : sets[i] \in T
      /\ m \in Nat /\ DOMAIN l = 1 .. m /\ \A i \in 1 .. m : l[i] \in T
  BY <1>5, <1>6, <1>7, <1>8, ElementsOf
<1>10. ASSUME NEW j \in 1 .. m
       PROVE  l[j].assets = {b \in Asset : <<l[j].account, b>> \in Pairs(d)}
  <2>1. ASSUME NEW b \in l[j].assets PROVE b \in Asset /\ <<l[j].account, b>> \in Pairs(d)
    <3>1. <<l[j].account, b>> \in PairsOf(d, j)
      BY <1>6 DEF PairsOf
    <3> QED BY <1>4, <1>6, <1>9, <3>1, PairsAre
  <2>2. ASSUME NEW b \in Asset, <<l[j].account, b>> \in Pairs(d) PROVE b \in l[j].assets
    <3>1. PICK i \in 1 .. m : <<l[j].account, b>> \in PairsOf(d, i)
      BY <1>6, <1>9, <2>2, PairsAre
    <3>2. l[i].account = l[j].account /\ b \in l[i].assets
      BY <1>6, <3>1 DEF PairsOf
    <3>3. l[i].account \in Nat /\ l[j].account \in Nat
      BY <1>4, <1>9, ArtefactsAssumption DEF ArtefactsAssumption
    <3>4. i = j
      <4>1. i < j => l[i].account < l[j].account
        BY <1>6, <1>9 DEF DocSound
      <4>2. j < i => l[j].account < l[i].account
        BY <1>6, <1>9 DEF DocSound
      <4> QED BY <1>9, <3>2, <3>3, <4>1, <4>2
    <3> QED BY <3>2, <3>4
  <2> QED BY <2>1, <2>2
<1>11. PICK W : W = {x \in Account : \E i \in 1 .. m : l[i].account = x}
  OBVIOUS
<1>12. PICK s : s = [i \in 1 .. n |-> sets[i].account]
  OBVIOUS
<1>13. PICK t : t = [i \in 1 .. m |-> l[i].account]
  OBVIOUS
<1>14. Ordered(t, W, m)
  <2>1. IsList(t, m)
    BY <1>9, <1>13 DEF IsList
  <2>2. \A i, j \in 1 .. m : i < j => l[i].account < l[j].account
    BY <1>6, <1>9 DEF DocSound
  <2>3. \A i \in 1 .. m : l[i].account \in W
    BY <1>4, <1>9, <1>11
  <2> QED BY <1>11, <1>13, <2>1, <2>2, <2>3 DEF Ordered
<1>15. Ordered(s, W, n)
  <2>1. IsList(s, n)
    BY <1>9, <1>12 DEF IsList
  <2>2. \A i, j \in 1 .. n : i < j => sets[i].account < sets[j].account
    BY <1>2, <1>9 DEF SnapshotOf, SetsSound
  <2>3. ASSUME NEW i \in 1 .. n PROVE sets[i].account \in W
    <3>1. sets[i].assets # {} /\ sets[i].assets = {b \in Asset : <<sets[i].account, b>> \in Pairs(d)}
      <4>1. i \in DOMAIN sets
        BY <1>9
      <4>2. sets[i].assets # {}
        BY <1>2, <4>1 DEF SnapshotOf, SetsSound
      <4>3. sets[i].assets = {b \in Asset : <<sets[i].account, b>> \in Seen(d.to)}
        BY <1>2, <4>1 DEF SnapshotOf
      <4> QED BY <1>3, <4>2, <4>3
    <3>2. PICK b : <<sets[i].account, b>> \in Pairs(d)
      BY <3>1
    <3>3. PICK j \in 1 .. m : <<sets[i].account, b>> \in PairsOf(d, j)
      BY <1>6, <1>9, <3>2, PairsAre
    <3>4. l[j].account = sets[i].account
      BY <1>6, <3>3 DEF PairsOf
    <3>5. sets[i].account \in Account
      BY <1>4, <1>9
    <3> QED BY <1>11, <3>4, <3>5
  <2>4. ASSUME NEW x \in W PROVE \E i \in 1 .. n : sets[i].account = x
    <3>1. PICK j \in 1 .. m : l[j].account = x
      BY <1>11
    <3>2. PICK b : b \in l[j].assets
      BY <1>6, <1>9
    <3>3. <<x, b>> \in Pairs(d)
      BY <1>10, <3>1, <3>2
    <3>4. PICK p : p = <<x, b>>
      OBVIOUS
    <3>5. PICK i \in DOMAIN sets : sets[i].account = p[1]
      BY <1>2, <1>3, <3>3, <3>4 DEF SnapshotOf
    <3> QED BY <1>9, <3>4, <3>5
  <2> QED BY <1>12, <2>1, <2>2, <2>3, <2>4 DEF Ordered
<1>16. s = t
  <2>1. W \subseteq Nat
    BY <1>11, ArtefactsAssumption DEF ArtefactsAssumption
  <2> QED BY ONLY <1>14, <1>15, <2>1, OrderedOnce
<1>17. n = m
  <2>1. DOMAIN s = 1 .. n /\ DOMAIN t = 1 .. m
    BY <1>12, <1>13
  <2>2. 1 .. n = 1 .. m
    BY <1>16, <2>1
  <2> QED BY <1>9, <2>2
<1>18. ASSUME NEW i \in 1 .. n PROVE sets[i] = l[i]
  <2>1. sets[i].account = l[i].account
    BY <1>12, <1>13, <1>16, <1>17
  <2>2. sets[i].assets = {b \in Asset : <<sets[i].account, b>> \in Pairs(d)}
    BY <1>2, <1>3, <1>9 DEF SnapshotOf
  <2>3. sets[i].assets = l[i].assets
    BY <1>10, <1>17, <2>1, <2>2
  <2>4. PICK u : u = sets[i]
    OBVIOUS
  <2>5. PICK v : v = l[i]
    OBVIOUS
  <2>6. u \in T /\ v \in T
    BY <1>9, <1>17, <2>4, <2>5
  <2>7. u = v
    BY ONLY <1>4, <2>1, <2>3, <2>4, <2>5, <2>6
  <2> QED BY <2>4, <2>5, <2>7
<1>19. sets = l
  <2>1. \A i \in 1 .. n : sets[i] = l[i]
    BY <1>18
  <2>2. sets \in Seq(T) /\ l \in Seq(T) /\ Len(sets) = n /\ Len(l) = n
    BY <1>5, <1>6, <1>7, <1>8, <1>17
  <2> QED BY ONLY <2>1, <2>2
<1> QED BY <1>1, <1>6, <1>19

\* A coverage row whose four statements have run.
IsSet(c) ==
  /\ c.asset \in DOMAIN cursors
  /\ cursors[c.asset].done /\ cursors[c.asset].floor = c.from /\ cursors[c.asset].tail = c.to

\* Cursors set from a document's coverage rows, and no other, cover just those.
LEMMA CoverageIsCopy ==
  ASSUME NEW d, DocSound(d), IndexInv,
         \A a \in DOMAIN cursors : \E i \in DOMAIN d.coverage : d.coverage[i].asset = a,
         \A i \in DOMAIN d.coverage : IsSet(d.coverage[i])
  PROVE  CoverageFromCursors(d.to) = d.coverage
<1> DEFINE to == d.to
           lo(c) == IF c.done THEN c.floor ELSE c.next + 1
           hi(c) == Min({c.tail, to})
<1>1. PICK C : C = {a \in DOMAIN cursors : hi(cursors[a]) > 0 /\ lo(cursors[a]) <= hi(cursors[a])}
  OBVIOUS
<1>2. C \subseteq Nat /\ IsFiniteSet(C) /\ C \subseteq Asset
  <2>1. C \in SUBSET Asset
    BY <1>1 DEF IndexInv
  <2> QED BY ArtefactsAssumption, <2>1, FS_Subset DEF ArtefactsAssumption
<1>3. PICK order : order = InOrder(C)
  OBVIOUS
<1>4. PICK n : Ordered(order, C, n)
  BY <1>2, <1>3, InOrderIs
<1>5. PICK cov : cov = CoverageFromCursors(d.to)
  OBVIOUS
<1>6. cov = [i \in DOMAIN order |->
        CoverageLeaf(order[i], lo(cursors[order[i]]), hi(cursors[order[i]]))]
  BY <1>1, <1>3, <1>5 DEF CoverageFromCursors
<1>7. PICK l : l = d.coverage
  OBVIOUS
<1>8. PICK m : m = Len(l)
  OBVIOUS
<1>9. PICK T : T = [asset : Asset, from : Nat, to : Nat]
  OBVIOUS
<1>10. l \in Seq(T)
  BY <1>7, <1>9 DEF DocSound, CoverageSound
<1>11. m \in Nat /\ DOMAIN l = 1 .. m /\ \A i \in 1 .. m : l[i] \in T
  BY <1>8, <1>10, ElementsOf
<1>12. ASSUME NEW i \in 1 .. m
       PROVE  /\ l[i].asset \in DOMAIN cursors
              /\ lo(cursors[l[i].asset]) = l[i].from /\ hi(cursors[l[i].asset]) = l[i].to
              /\ 0 < l[i].to /\ l[i].from <= l[i].to
  <2>1. PICK c : c = l[i]
    OBVIOUS
  <2>2. PICK k : k = cursors[c.asset]
    OBVIOUS
  <2>3. c.asset \in DOMAIN cursors /\ k.done /\ k.floor = c.from /\ k.tail = c.to
    BY <1>7, <1>11, <2>1, <2>2 DEF IsSet
  <2>4. 0 < c.to /\ c.to <= to /\ c.from <= c.to
    BY <1>7, <1>11, <2>1 DEF DocSound, CoverageSound
  <2>5. c.to \in Nat /\ to \in Nat
    BY <1>9, <1>11, <2>1, ArtefactsAssumption DEF DocSound, ArtefactsAssumption
  <2>6. Min({c.to, to}) = c.to
    <3>1. {c.to, to} \subseteq Nat /\ {c.to, to} # {}
      BY <2>5
    <3>2. Min({c.to, to}) \in {c.to, to} /\ \A x \in {c.to, to} : Min({c.to, to}) <= x
      BY <3>1, LeastOf
    <3> QED BY <2>4, <2>5, <3>2
  <2>7. lo(k) = c.from
    BY <2>3
  <2>8. hi(k) = c.to
    BY <2>3, <2>6
  <2> HIDE DEF lo, hi
  <2> QED BY <2>1, <2>2, <2>3, <2>4, <2>7, <2>8
<1>13. PICK t : t = [i \in 1 .. m |-> l[i].asset]
  OBVIOUS
<1>14. Ordered(t, C, m)
  <2>1. IsList(t, m)
    BY <1>11, <1>13 DEF IsList
  <2>2. \A i, j \in 1 .. m : i < j => l[i].asset < l[j].asset
    BY <1>7, <1>11 DEF DocSound, CoverageSound
  <2> HIDE DEF lo, hi
  <2>3. \A i \in 1 .. m : l[i].asset \in C
    BY <1>1, <1>12
  <2>4. \A x \in C : \E i \in 1 .. m : l[i].asset = x
    BY <1>1, <1>7, <1>11
  <2> QED BY <1>13, <2>1, <2>2, <2>3, <2>4 DEF Ordered
<1>15. order = t
  BY ONLY <1>2, <1>4, <1>14, OrderedOnce
<1> HIDE DEF lo, hi
<1>16. DOMAIN order = 1 .. m
  BY <1>13, <1>15
<1>17. ASSUME NEW i \in 1 .. m PROVE cov[i] = l[i]
  <2>1. order[i] = l[i].asset
    BY <1>13, <1>15
  <2>2. cov[i] = CoverageLeaf(order[i], lo(cursors[order[i]]), hi(cursors[order[i]]))
    BY <1>6, <1>16
  <2>3. cov[i] = CoverageLeaf(l[i].asset, l[i].from, l[i].to)
    BY <1>12, <2>1, <2>2
  <2>4. PICK c : c = l[i]
    OBVIOUS
  <2>5. c \in T
    BY <1>11, <2>4
  <2>6. CoverageLeaf(c.asset, c.from, c.to) = c
    BY ONLY <1>9, <2>5 DEF CoverageLeaf
  <2> QED BY <2>3, <2>4, <2>6
<1>18. cov = l
  <2>1. DOMAIN cov = 1 .. m /\ cov = [i \in 1 .. m |-> cov[i]]
    BY <1>6, <1>16
  <2>2. l = [i \in 1 .. m |-> l[i]]
    BY <1>8, <1>10
  <2> QED BY <1>17, <2>1, <2>2
<1> QED BY <1>5, <1>7, <1>18

\* The statements of a coverage row that have run by the time of another.
SetUntil(c, stmt) ==
  /\ stmt # "register" => c.asset \in DOMAIN cursors
  /\ stmt \in {"floor", "tail"} => cursors[c.asset].done
  /\ stmt = "tail" => cursors[c.asset].floor = c.from

\* A database under restore holds nothing but what is in the copy.
CursorOf(d, a) ==
  \E i \in DOMAIN d.coverage :
    /\ d.coverage[i].asset = a
    /\ cursors[a].tail = d.coverage[i].from \/ cursors[a].tail = d.coverage[i].to

Wrote(d) ==
  /\ RestoreVerified(d)
  /\ \A p \in DOMAIN rows : p \in Pairs(d) /\ rows[p].first = d.from
  /\ \A a \in DOMAIN cursors : CursorOf(d, a)

WrittenInv ==
  /\ daemon = "lost" => cursors = <<>> /\ rows = <<>>
  /\ daemon \in {"restoring", "failed", "restored"} => Wrote(job.doc)

\* What the statements that have run have written.
SetBefore(d, n) == \A i \in DOMAIN d.coverage : i < n => IsSet(d.coverage[i])
SetAt(d, n, stmt) == \A i \in DOMAIN d.coverage : i = n => SetUntil(d.coverage[i], stmt)
Folded(d, n) ==
  \A k \in DOMAIN Interactions(d) : k <= n =>
    <<Interactions(d)[k].account, Interactions(d)[k].asset>> \in DOMAIN rows

ProgressInv ==
  daemon \in {"restoring", "restored"} =>
    /\ job.stmt \in {"register", "backfill", "floor", "tail"}
    /\ SetBefore(job.doc, job.asset) /\ SetAt(job.doc, job.asset, job.stmt)
    /\ Folded(job.doc, job.batch * Batch)

FinishedInv ==
  daemon = "restored" => job.asset > Len(job.doc.coverage) /\ job.batch = Batches(job.doc)

\* The daemon that resumes has the rows of every log the copy listed, and what it scanned since.
Resumed(d, c) ==
  /\ c.asset \in DOMAIN cursors /\ cursors[c.asset].done
  /\ \A l \in logs :
       /\ l.asset = c.asset
       /\ cursors[c.asset].floor <= l.block /\ l.block <= cursors[c.asset].tail
       /\ l \notin Unlisted(d.leaves, c)
       => <<l.account, l.asset>> \in DOMAIN rows

ResumedInv ==
  daemon = "up" /\ Restored =>
    \A i \in DOMAIN job.doc.coverage : Resumed(job.doc, job.doc.coverage[i])

RestoreInv == WrittenInv /\ ProgressInv /\ FinishedInv /\ ResumedInv

\* A restore that broke off is run again with the same copy.
SameCopy == daemon = "failed" /\ daemon' = "restoring" => job'.doc = job.doc

\* In all of a behaviour.
SameCopyAgain == [][SameCopy]_allVars

LEMMA VerifiedStays ==
  ASSUME NEW d, RegistryKept, RestoreVerified(d) PROVE RestoreVerified(d)'
  BY DEF RegistryKept, RestoreVerified, Matches

\* Steps that touch neither the index nor the restore.
LEMMA RestoreRests ==
  ASSUME RestoreInv, RegistryKept, UNCHANGED <<indexVars, daemon, job>>
  PROVE  RestoreInv'
<1>1. UNCHANGED <<logs, cursors, rows, daemon, job>>
  BY DEF indexVars
<1>2. \A d : Wrote(d) => Wrote(d)'
  <2>1. \A d : RestoreVerified(d) => RestoreVerified(d)'
    BY VerifiedStays
  <2> QED BY <1>1, <2>1 DEF Wrote, CursorOf
<1>3. WrittenInv'
  BY <1>1, <1>2 DEF RestoreInv, WrittenInv
<1>4. ProgressInv'
  BY <1>1 DEF RestoreInv, ProgressInv, SetBefore, SetAt, Folded, IsSet, SetUntil
<1>5. FinishedInv' /\ ResumedInv'
  BY <1>1 DEF RestoreInv, FinishedInv, ResumedInv, Resumed, Restored, Unlisted
<1> QED BY <1>3, <1>4, <1>5 DEF RestoreInv

\* Steps of a daemon's index.
LEMMA UpRests ==
  ASSUME daemon' = "up", ResumedInv' PROVE RestoreInv'
  BY DEF RestoreInv, WrittenInv, ProgressInv, FinishedInv

LEMMA FollowResumes ==
  ASSUME RecoveryInv, RestoreInv, daemon = "up", Follow, UNCHANGED recoveryVars
  PROVE  RestoreInv'
<1>1. IndexInv /\ UNCHANGED <<logs, copies, daemon, job>>
  BY DEF RecoveryInv, Follow, recoveryVars
<1>2. PICK new : new = UNION {Scanned(a, cursors[a].tail + 1, head + 1) : a \in DOMAIN cursors}
  OBVIOUS
<1>3. RowsTyped(new)
  <2>1. \A a : RowsTyped(Scanned(a, cursors[a].tail + 1, head + 1))
    BY <1>1, ScannedTyped
  <2> QED BY <1>2, <2>1 DEF RowsTyped
<1>4. rows' = FoldInteractions(rows, new)
  BY <1>2 DEF Follow
<1>5. DOMAIN rows \subseteq DOMAIN rows'
  BY <1>1, <1>3, <1>4, FoldSound DEF IndexInv
<1>6. \A r \in new : <<r.account, r.asset>> \in DOMAIN rows'
  BY <1>4 DEF FoldInteractions
<1>7. ASSUME NEW d, NEW c, Resumed(d, c) PROVE Resumed(d, c)'
  <2>1. PICK a : a = c.asset
    OBVIOUS
  <2>2. a \in DOMAIN cursors /\ cursors[a].done /\ cursors[a] \in Cursor
    BY <1>1, <1>7, <2>1 DEF Resumed, IndexInv
  <2>3. a \in DOMAIN cursors' /\ cursors'[a] = [cursors[a] EXCEPT !.tail = head + 1]
    BY <2>2 DEF Follow
  <2>4. /\ cursors'[a].done /\ cursors'[a].floor = cursors[a].floor
        /\ cursors'[a].tail = head + 1
    BY <2>2, <2>3 DEF Cursor
  <2>5. ASSUME NEW l \in logs, l.asset = a,
               cursors[a].floor <= l.block, l.block <= head + 1, l \notin Unlisted(d.leaves, c)
        PROVE  <<l.account, l.asset>> \in DOMAIN rows'
    <3>1. CASE l.block <= cursors[a].tail
      BY <1>5, <1>7, <2>1, <2>5, <3>1 DEF Resumed
    <3>2. CASE ~(l.block <= cursors[a].tail)
      <4>1. l.block \in Nat /\ cursors[a].tail \in Nat
        BY <1>1, <2>2, ArtefactsAssumption DEF IndexInv, Cursor, ArtefactsAssumption
      <4>2. cursors[a].tail + 1 <= l.block
        BY <3>2, <4>1
      <4>3. PICK r : r = [account |-> l.account, asset |-> a, first |-> l.block, last |-> l.block]
        OBVIOUS
      <4>4. r \in Scanned(a, cursors[a].tail + 1, head + 1)
        BY <2>5, <4>2, <4>3 DEF Scanned
      <4>5. r \in new
        BY <1>2, <2>2, <4>4
      <4> QED BY <1>6, <2>5, <4>3, <4>5
    <3> QED BY <3>1, <3>2
  <2>6. Unlisted(d.leaves, c)' = Unlisted(d.leaves, c)
    BY <1>1 DEF Unlisted
  <2> QED BY <1>1, <2>1, <2>3, <2>4, <2>5, <2>6 DEF Resumed
<1>8. ResumedInv'
  BY <1>1, <1>7 DEF RestoreInv, ResumedInv, Restored
<1> QED BY <1>1, <1>8, UpRests

LEMMA ScanResumes ==
  ASSUME RecoveryInv, RestoreInv, daemon = "up", UNCHANGED recoveryVars,
         \/ \E a \in Asset : RegisterAsset(a)
         \/ \E a \in DOMAIN cursors : Backfill(a)
  PROVE  RestoreInv'
<1>1. IndexInv /\ UNCHANGED <<logs, copies, daemon, job>>
  BY DEF RecoveryInv, RegisterAsset, Backfill, recoveryVars
<1>2. DOMAIN rows \subseteq DOMAIN rows'
  <2>1. CASE \E a \in Asset : RegisterAsset(a)
    BY <2>1 DEF RegisterAsset
  <2>2. CASE \E a \in DOMAIN cursors : Backfill(a)
    <3>1. PICK a \in DOMAIN cursors : Backfill(a)
      BY <2>2
    <3>2. PICK new : new = IF cursors[a].next < Floor THEN {}
                           ELSE Scanned(a, cursors[a].next, cursors[a].next)
      OBVIOUS
    <3>3. rows' = FoldInteractions(rows, new)
      BY <3>1, <3>2 DEF Backfill
    <3>4. DOMAIN rows \subseteq DOMAIN FoldInteractions(rows, new)
      BY DEF FoldInteractions
    <3> QED BY <3>3, <3>4
  <2> QED BY <2>1, <2>2
<1>3. \A a \in DOMAIN cursors : cursors[a].done => a \in DOMAIN cursors' /\ cursors'[a] = cursors[a]
  BY DEF RegisterAsset, Registered, Backfill
<1>4. ASSUME NEW d, NEW c, Resumed(d, c) PROVE Resumed(d, c)'
  <2>1. c.asset \in DOMAIN cursors' /\ cursors'[c.asset] = cursors[c.asset]
    BY <1>3, <1>4 DEF Resumed
  <2> QED BY <1>1, <1>2, <1>4, <2>1 DEF Resumed, Unlisted
<1>5. ResumedInv'
  BY <1>1, <1>4 DEF RestoreInv, ResumedInv, Restored
<1> QED BY <1>1, <1>5, UpRests

LEMMA LoseStarts == ASSUME RecoveryInv, Lose PROVE RestoreInv'
<1>1. daemon' = "lost" /\ cursors' = <<>> /\ rows' = <<>>
  BY DEF Lose
<1> QED BY <1>1 DEF RestoreInv, WrittenInv, ProgressInv, FinishedInv, ResumedInv

LEMMA BeginStarts ==
  ASSUME NEW d \in copies, RecoveryInv, RestoreInv, RestoreBegin(d), SameCopy
  PROVE  RestoreInv'
<1>1. /\ daemon' = "restoring" /\ job' = [doc |-> d, asset |-> 1, stmt |-> "register", batch |-> 0]
      /\ UNCHANGED <<cursors, rows, registry>> /\ RestoreVerified(d)
  BY DEF RestoreBegin, indexVars
<1>2. job'.doc = d /\ job'.asset = 1 /\ job'.stmt = "register" /\ job'.batch = 0
  BY <1>1
<1>3. Wrote(d)'
  <2>1. RestoreVerified(d)'
    BY <1>1 DEF RestoreVerified
  <2>2. CASE daemon = "lost"
    <3>1. DOMAIN rows' = {} /\ DOMAIN cursors' = {}
      BY <1>1, <2>2 DEF RestoreInv, WrittenInv
    <3> QED BY <2>1, <3>1 DEF Wrote
  <2>3. CASE daemon = "failed"
    <3>1. job.doc = d
      BY <1>1, <1>2, <2>3 DEF SameCopy
    <3>2. Wrote(d)
      BY <2>3, <3>1 DEF RestoreInv, WrittenInv
    <3> QED BY <1>1, <2>1, <3>2 DEF Wrote, CursorOf
  <2> QED BY <2>2, <2>3 DEF RestoreBegin
<1>4. DocSound(d)
  BY DEF RecoveryInv, CopiesInv
<1>5. SetBefore(d, 1)' /\ SetAt(d, 1, "register")'
  <2>1. DOMAIN d.coverage \subseteq Nat \ {0}
    BY <1>4 DEF DocSound, CoverageSound
  <2> QED BY <2>1 DEF SetBefore, SetAt, SetUntil
<1>6. Folded(d, 0 * Batch)'
  <2>1. DOMAIN Interactions(d) \subseteq Nat \ {0}
    <3>1. PICK R : R = {r \in Row : r.first = d.from /\ <<r.account, r.asset>> \in Pairs(d)}
      OBVIOUS
    <3>2. Interactions(d) \in Seq(R)
      BY <1>4, <3>1, InteractionsAre
    <3> QED BY <3>2
  <2>2. 0 * Batch = 0
    BY BatchAssumption DEF BatchAssumption
  <2> QED BY <2>1, <2>2 DEF Folded
<1>7. WrittenInv'
  BY <1>1, <1>2, <1>3 DEF WrittenInv
<1>8. ProgressInv'
  BY <1>1, <1>2, <1>5, <1>6 DEF ProgressInv
<1> QED BY <1>1, <1>7, <1>8 DEF RestoreInv, FinishedInv, ResumedInv

\* Each row of a document is about an asset of its own.
LEMMA OneRowEach ==
  ASSUME NEW d, DocSound(d), NEW i \in DOMAIN d.coverage, NEW j \in DOMAIN d.coverage,
         d.coverage[i].asset = d.coverage[j].asset
  PROVE  i = j
<1>1. /\ Len(d.coverage) \in Nat /\ DOMAIN d.coverage = 1 .. Len(d.coverage)
      /\ \A k \in DOMAIN d.coverage : d.coverage[k] \in [asset : Asset, from : Nat, to : Nat]
  BY ElementsOf DEF DocSound, CoverageSound
<1>2. d.coverage[i].asset \in Nat
  BY <1>1, ArtefactsAssumption DEF ArtefactsAssumption
<1>3. i < j => d.coverage[i].asset < d.coverage[j].asset
  BY DEF DocSound, CoverageSound
<1>4. j < i => d.coverage[j].asset < d.coverage[i].asset
  BY DEF DocSound, CoverageSound
<1> QED BY <1>1, <1>2, <1>3, <1>4

\* A statement about the cursor of the row a restore is at, and the statement it leads to.
RowAt(d, k, c) ==
  daemon = "restoring" /\ d = job.doc /\ k \in DOMAIN d.coverage /\ k = job.asset /\ c = d.coverage[k]

CursorMoved(c) ==
  /\ DOMAIN cursors' = DOMAIN cursors \cup {c.asset}
  /\ \A b \in DOMAIN cursors : b # c.asset => cursors'[b] = cursors[b]
  /\ cursors'[c.asset].tail \in {c.from, c.to}
  /\ UNCHANGED <<rows, registry, daemon>> /\ job'.doc = job.doc /\ job'.batch = job.batch

RowMoved(k, c, stmt, n) ==
  /\ stmt = job'.stmt /\ n = job'.asset
  /\ stmt \in {"register", "backfill", "floor", "tail"}
  /\ \/ n = k /\ SetUntil(c, stmt)'
     \/ stmt = "register" /\ n = k + 1 /\ IsSet(c)'

LEMMA CursorWritten ==
  ASSUME NEW d, NEW k, NEW c, NEW stmt, NEW n, RecoveryInv, RestoreInv,
         RowAt(d, k, c), CursorMoved(c), RowMoved(k, c, stmt, n)
  PROVE  RestoreInv'
<1>a. /\ daemon = "restoring" /\ d = job.doc /\ k \in DOMAIN d.coverage /\ k = job.asset
      /\ c = d.coverage[k]
  BY DEF RowAt
<1>b. /\ DOMAIN cursors' = DOMAIN cursors \cup {c.asset}
      /\ \A b \in DOMAIN cursors : b # c.asset => cursors'[b] = cursors[b]
      /\ cursors'[c.asset].tail \in {c.from, c.to}
      /\ UNCHANGED <<rows, registry, daemon>> /\ job'.doc = job.doc /\ job'.batch = job.batch
  BY DEF CursorMoved
<1>c. /\ stmt = job'.stmt /\ n = job'.asset
      /\ stmt \in {"register", "backfill", "floor", "tail"}
      /\ \/ n = k /\ SetUntil(c, stmt)'
         \/ stmt = "register" /\ n = k + 1 /\ IsSet(c)'
  BY DEF RowMoved
<1>1. DocSound(d) /\ Wrote(d) /\ SetBefore(d, k) /\ Folded(d, job.batch * Batch)
  <2>1. Restored
    BY <1>a DEF RecoveryInv, CopiesInv
  <2> QED BY <1>a, <2>1 DEF RecoveryInv, CopiesInv, JobInv, RestoreInv, WrittenInv, ProgressInv
<1>2. \A i \in DOMAIN d.coverage : i # k => d.coverage[i].asset # c.asset
  BY <1>1, <1>a, OneRowEach
<1>3. DOMAIN d.coverage \subseteq Nat
  <2>1. d.coverage \in Seq([asset : Asset, from : Nat, to : Nat])
    BY <1>1 DEF DocSound, CoverageSound
  <2> QED BY <2>1
<1>4. \A i \in DOMAIN d.coverage : i # k /\ IsSet(d.coverage[i]) => IsSet(d.coverage[i])'
  BY <1>2, <1>b DEF IsSet
<1>5. SetBefore(d, n)'
  <2>1. ASSUME NEW i \in DOMAIN d.coverage, i < n, i # k PROVE IsSet(d.coverage[i])'
    <3>1. i < k
      BY <1>3, <1>a, <1>c, <2>1
    <3> QED BY <1>1, <1>4, <2>1, <3>1 DEF SetBefore
  <2>2. k < n => IsSet(c)'
    BY <1>3, <1>a, <1>c
  <2> QED BY <1>a, <2>1, <2>2 DEF SetBefore
<1>6. SetAt(d, n, stmt)'
  <2>1. ASSUME NEW i \in DOMAIN d.coverage, i = n PROVE SetUntil(d.coverage[i], stmt)'
    <3>1. CASE stmt = "register"
      BY <3>1 DEF SetUntil
    <3>2. CASE stmt # "register"
      BY <1>a, <1>c, <2>1, <3>2
    <3> QED BY <3>1, <3>2
  <2> QED BY <2>1 DEF SetAt
<1>7. Wrote(d)'
  <2>1. RestoreVerified(d)'
    BY <1>1, <1>b DEF Wrote, RestoreVerified
  <2>2. ASSUME NEW a \in DOMAIN cursors' PROVE CursorOf(d, a)'
    <3>1. CASE a = c.asset
      BY <1>a, <1>b, <3>1 DEF CursorOf
    <3>2. CASE a # c.asset
      <4>1. a \in DOMAIN cursors /\ cursors'[a] = cursors[a]
        BY <1>b, <3>2
      <4>2. CursorOf(d, a)
        BY <1>1, <4>1 DEF Wrote
      <4> QED BY <4>1, <4>2 DEF CursorOf
    <3> QED BY <3>1, <3>2
  <2> QED BY <1>1, <1>b, <2>1, <2>2 DEF Wrote
<1>8. Folded(d, job.batch * Batch)'
  BY <1>1, <1>b DEF Folded
<1>9. WrittenInv'
  BY <1>7, <1>a, <1>b DEF WrittenInv
<1>10. ProgressInv'
  BY <1>5, <1>6, <1>8, <1>a, <1>b, <1>c DEF ProgressInv
<1> QED BY <1>9, <1>10, <1>a, <1>b DEF RestoreInv, FinishedInv, ResumedInv

\* The row a restore is at, and what has been written of it.
LEMMA AtRow ==
  ASSUME NEW stmt, RecoveryInv, RestoreInv, AtAsset(stmt)
  PROVE  \E k \in DOMAIN job.doc.coverage : \E c :
           /\ k = job.asset /\ c = job.doc.coverage[k] /\ c = Restoring
           /\ job.stmt = stmt /\ SetUntil(c, stmt) /\ daemon = "restoring"
           /\ c \in [asset : Asset, from : Nat, to : Nat] /\ c.from <= c.to
           /\ c.asset \in DOMAIN cursors =>
                /\ cursors[c.asset] \in Cursor
                /\ cursors[c.asset].tail \in {c.from, c.to}
<1>1. daemon = "restoring" /\ job.stmt = stmt /\ job.asset <= Len(job.doc.coverage)
  BY DEF AtAsset
<1>2. /\ Restoring \in [asset : Asset, from : Nat, to : Nat] /\ Restored
      /\ job.asset \in 1 .. Len(job.doc.coverage)
  BY <1>1, RestoringIs
<1>3. PICK d : d = job.doc
  OBVIOUS
<1>4. DocSound(d) /\ Wrote(d) /\ SetAt(d, job.asset, stmt)
  BY <1>1, <1>2, <1>3 DEF RecoveryInv, CopiesInv, JobInv, RestoreInv, WrittenInv, ProgressInv
<1>5. DOMAIN d.coverage = 1 .. Len(d.coverage)
  BY <1>4 DEF DocSound, CoverageSound
<1>6. PICK k \in DOMAIN d.coverage : k = job.asset
  BY <1>2, <1>3, <1>5
<1>7. PICK c : c = d.coverage[k]
  OBVIOUS
<1>8. c = Restoring
  BY <1>3, <1>6, <1>7 DEF Restoring
<1>9. SetUntil(c, stmt)
  BY <1>4, <1>6, <1>7 DEF SetAt
<1>10. c.from <= c.to
  BY <1>4, <1>7 DEF DocSound, CoverageSound
<1>11. ASSUME c.asset \in DOMAIN cursors
       PROVE  cursors[c.asset] \in Cursor /\ cursors[c.asset].tail \in {c.from, c.to}
  <2>1. cursors[c.asset] \in Cursor
    BY <1>11 DEF RecoveryInv, IndexInv
  <2>2. PICK i \in DOMAIN d.coverage :
          /\ d.coverage[i].asset = c.asset
          /\ cursors[c.asset].tail = d.coverage[i].from \/ cursors[c.asset].tail = d.coverage[i].to
    BY <1>4, <1>11 DEF Wrote, CursorOf
  <2>3. i = k
    BY <1>4, <1>7, <2>2, OneRowEach
  <2> QED BY <1>7, <2>1, <2>2, <2>3
<1> QED BY <1>1, <1>2, <1>3, <1>6, <1>7, <1>8, <1>9, <1>10, <1>11

LEMMA RegisterWrites == ASSUME RecoveryInv, RestoreInv, RestoreRegister PROVE RestoreInv'
<1>1. AtAsset("register")
  BY DEF RestoreRegister
<1>2. PICK k, c :
        /\ k \in DOMAIN job.doc.coverage /\ k = job.asset /\ c = job.doc.coverage[k] /\ c = Restoring
        /\ daemon = "restoring" /\ c \in [asset : Asset, from : Nat, to : Nat]
        /\ c.asset \in DOMAIN cursors => cursors[c.asset].tail \in {c.from, c.to}
  BY <1>1, AtRow
<1>3. PICK d : d = job.doc
  OBVIOUS
<1>4. cursors' = Registered(cursors, c.asset, c.from) /\ UNCHANGED <<rows, registry, daemon>>
  BY <1>2 DEF RestoreRegister, epochVars
<1>5. /\ DOMAIN cursors' = DOMAIN cursors \cup {c.asset}
      /\ \A b \in DOMAIN cursors : b # c.asset => cursors'[b] = cursors[b]
      /\ cursors'[c.asset].tail \in {c.from, c.to}
  <2>1. CASE c.asset \in DOMAIN cursors
    BY <1>2, <1>4, <2>1 DEF Registered
  <2>2. CASE c.asset \notin DOMAIN cursors
    BY <1>4, <2>2 DEF Registered
  <2> QED BY <2>1, <2>2
<1>6. PICK stmt : stmt = "backfill"
  OBVIOUS
<1>7. job'.stmt = stmt /\ job'.doc = job.doc /\ job'.asset = k /\ job'.batch = job.batch
  BY <1>2, <1>6 DEF RestoreRegister, RecoveryInv, JobInv
<1>8. SetUntil(c, stmt)'
  BY <1>5, <1>6 DEF SetUntil
<1>9. RowAt(d, k, c)
  BY <1>2, <1>3 DEF RowAt
<1>10. CursorMoved(c)
  BY <1>4, <1>5, <1>7 DEF CursorMoved
<1>11. RowMoved(k, c, stmt, k)
  BY <1>6, <1>7, <1>8 DEF RowMoved
<1> QED BY ONLY <1>9, <1>10, <1>11, RecoveryInv, RestoreInv, CursorWritten

LEMMA CursorWrites ==
  ASSUME RecoveryInv, RestoreInv, RestoreBackfill \/ RestoreFloor \/ RestoreTail
  PROVE  RestoreInv'
<1>1. PICK at : at \in {"backfill", "floor", "tail"} /\ AtAsset(at)
  BY DEF RestoreBackfill, RestoreFloor, RestoreTail
<1>2. PICK k, c :
        /\ k \in DOMAIN job.doc.coverage /\ k = job.asset /\ c = job.doc.coverage[k] /\ c = Restoring
        /\ job.stmt = at /\ SetUntil(c, at) /\ daemon = "restoring"
        /\ c \in [asset : Asset, from : Nat, to : Nat] /\ c.from <= c.to
        /\ c.asset \in DOMAIN cursors =>
             /\ cursors[c.asset] \in Cursor
             /\ cursors[c.asset].tail \in {c.from, c.to}
  BY <1>1, AtRow
<1>3. PICK d : d = job.doc
  OBVIOUS
<1>4. PICK u : u = cursors[c.asset]
  OBVIOUS
<1>5. c.asset \in DOMAIN cursors /\ u \in Cursor /\ u.tail \in {c.from, c.to}
  BY <1>1, <1>2, <1>4 DEF SetUntil
<1>6. ASSUME NEW new, NEW stmt, SetCursor(new, stmt), new.tail \in {c.from, c.to},
             stmt \in {"register", "floor", "tail"},
             IF stmt = "register" THEN IsSet(c)' ELSE SetUntil(c, stmt)'
      PROVE  RestoreInv'
  <2>1. cursors' = [cursors EXCEPT ![c.asset] = new] /\ UNCHANGED <<rows, registry, daemon>>
    BY <1>2, <1>6 DEF SetCursor, epochVars
  <2>2. PICK n : n = IF stmt = "register" THEN k + 1 ELSE k
    OBVIOUS
  <2>3. job' = [job EXCEPT !.stmt = stmt, !.asset = n]
    BY <1>2, <1>6, <2>2 DEF SetCursor
  <2>4. job'.stmt = stmt /\ job'.doc = job.doc /\ job'.asset = n /\ job'.batch = job.batch
    BY <2>3 DEF RecoveryInv, JobInv
  <2>5. /\ DOMAIN cursors' = DOMAIN cursors \cup {c.asset}
        /\ \A b \in DOMAIN cursors : b # c.asset => cursors'[b] = cursors[b]
        /\ cursors'[c.asset].tail \in {c.from, c.to}
    BY <1>5, <1>6, <2>1
  <2>6. RowAt(d, k, c)
    BY <1>2, <1>3 DEF RowAt
  <2>7. CursorMoved(c)
    BY <2>1, <2>4, <2>5 DEF CursorMoved
  <2>8. RowMoved(k, c, stmt, n)
    BY <1>6, <2>2, <2>4 DEF RowMoved
  <2> QED BY ONLY <2>6, <2>7, <2>8, RecoveryInv, RestoreInv, CursorWritten
<1>7. ASSUME NEW new, NEW stmt, SetCursor(new, stmt)
      PROVE  c.asset \in DOMAIN cursors' /\ cursors'[c.asset] = new
  BY <1>2, <1>5, <1>7 DEF SetCursor
<1>8. CASE RestoreBackfill
  <2>1. at = "backfill"
    BY <1>2, <1>8 DEF RestoreBackfill, AtAsset
  <2>2. PICK m : m = Max({0, c.from - 1})
    OBVIOUS
  <2>3. PICK new : new = [u EXCEPT !.next = m, !.done = TRUE]
    OBVIOUS
  <2>4. new.tail = u.tail /\ new.done
    BY <1>5, <2>3 DEF Cursor
  <2>5. SetCursor(new, "floor")
    BY <1>2, <1>4, <1>8, <2>2, <2>3 DEF RestoreBackfill
  <2>6. SetUntil(c, "floor")'
    BY <1>7, <2>4, <2>5 DEF SetUntil
  <2> QED BY <1>5, <1>6, <2>4, <2>5, <2>6
<1>9. CASE RestoreFloor
  <2>1. at = "floor"
    BY <1>2, <1>9 DEF RestoreFloor, AtAsset
  <2>2. u.done
    BY <1>2, <1>4, <2>1 DEF SetUntil
  <2>3. PICK new : new = [u EXCEPT !.floor = c.from]
    OBVIOUS
  <2>4. new.tail = u.tail /\ new.done /\ new.floor = c.from
    BY <1>5, <2>2, <2>3 DEF Cursor
  <2>5. SetCursor(new, "tail")
    BY <1>2, <1>4, <1>9, <2>3 DEF RestoreFloor
  <2>6. SetUntil(c, "tail")'
    BY <1>7, <2>4, <2>5 DEF SetUntil
  <2> QED BY <1>5, <1>6, <2>4, <2>5, <2>6
<1>10. CASE RestoreTail
  <2>1. at = "tail"
    BY <1>2, <1>10 DEF RestoreTail, AtAsset
  <2>2. u.done /\ u.floor = c.from
    BY <1>2, <1>4, <2>1 DEF SetUntil
  <2>3. PICK m : m = Max({u.tail, c.to})
    OBVIOUS
  <2>4. m = c.to
    <3>1. c.from \in Nat /\ c.to \in Nat /\ u.tail <= c.to
      BY <1>2, <1>5
    <3>2. \E x \in {u.tail, c.to} : \A y \in {u.tail, c.to} : x >= y
      BY <3>1
    <3>3. m \in {u.tail, c.to} /\ m >= c.to
      BY <2>3, <3>2 DEF Max
    <3> QED BY <1>5, <3>1, <3>3
  <2>5. PICK new : new = [u EXCEPT !.tail = m]
    OBVIOUS
  <2>6. new.tail = c.to /\ new.done /\ new.floor = c.from
    BY <1>5, <2>2, <2>4, <2>5 DEF Cursor
  <2>7. SetCursor(new, "register")
    BY <1>2, <1>4, <1>10, <2>3, <2>5 DEF RestoreTail
  <2>8. IsSet(c)'
    BY <1>7, <2>6, <2>7 DEF IsSet
  <2> QED BY <1>6, <2>6, <2>7, <2>8
<1> QED BY <1>8, <1>9, <1>10

LEMMA BatchWrites == ASSUME RecoveryInv, RestoreInv, RestoreBatch PROVE RestoreInv'
<1>1. /\ daemon = "restoring" /\ daemon' = daemon /\ UNCHANGED <<cursors, registry>>
      /\ job.asset > Len(job.doc.coverage)
  BY DEF RestoreBatch, AtRows, epochVars
<1>2. Restored /\ DOMAIN job = {"doc", "asset", "stmt", "batch"}
  BY <1>1 DEF RecoveryInv, CopiesInv, JobInv
<1>3. PICK d : d = job.doc
  OBVIOUS
<1>4. /\ DocSound(d) /\ job.batch \in Nat /\ Wrote(d)
      /\ SetBefore(d, job.asset) /\ SetAt(d, job.asset, job.stmt) /\ Folded(d, job.batch * Batch)
      /\ job.stmt \in {"register", "backfill", "floor", "tail"}
  BY <1>1, <1>2, <1>3 DEF RecoveryInv, CopiesInv, JobInv, RestoreInv, WrittenInv, ProgressInv
<1>5. PICK b \in Nat : b = job.batch
  BY <1>4
<1>6. job' = [job EXCEPT !.batch = b + 1]
  BY <1>5 DEF RestoreBatch
<1>7. /\ job'.doc = d /\ job'.asset = job.asset /\ job'.stmt = job.stmt /\ job'.batch = b + 1
  BY <1>2, <1>3, <1>6
<1>8. PICK all : all = Interactions(d)
  OBVIOUS
<1>9. PICK R : R = {r \in Row : r.first = d.from /\ <<r.account, r.asset>> \in Pairs(d)}
  OBVIOUS
<1>10. all \in Seq(R)
  BY <1>4, <1>8, <1>9, InteractionsAre
<1>11. PICK len \in Nat : len = Len(all)
  BY <1>10
<1>12. DOMAIN all = 1 .. len /\ \A i \in DOMAIN all : all[i] \in R
  BY <1>10, <1>11
<1>13. PICK from : from = b * Batch + 1
  OBVIOUS
<1>14. Batch \in Nat \ {0} /\ b * Batch \in Nat /\ (b + 1) * Batch = b * Batch + Batch
  BY BatchAssumption DEF BatchAssumption
<1>15. PICK upto : upto = Min({len, from + Batch - 1})
  OBVIOUS
<1>16. /\ upto \in Nat /\ upto <= len
       /\ \A k \in Nat : k <= len /\ k <= b * Batch + Batch => k <= upto
  <2>1. PICK x : x = from + Batch - 1
    OBVIOUS
  <2>2. x \in Nat /\ x = b * Batch + Batch
    BY <1>13, <1>14, <2>1
  <2>3. {len, x} \subseteq Nat /\ {len, x} # {}
    BY <2>2
  <2>4. upto \in {len, x} /\ \A m \in {len, x} : upto <= m
    BY <1>15, <2>1, <2>3, LeastOf
  <2> QED BY <2>2, <2>4
<1>17. PICK new : new = {all[i] : i \in from .. upto}
  OBVIOUS
<1>18. rows' = FoldInteractions(rows, new)
  BY <1>3, <1>5, <1>8, <1>11, <1>13, <1>15, <1>17 DEF RestoreBatch
<1>19. \A r \in new : r.first = d.from /\ <<r.account, r.asset>> \in Pairs(d)
  <2>1. \A i \in from .. upto : i \in 1 .. len
    BY <1>13, <1>14, <1>16
  <2>2. new \subseteq R
    BY <1>12, <1>17, <2>1
  <2> QED BY <1>9, <2>2
<1>20. PICK D : D = DOMAIN rows \cup {<<r.account, r.asset>> : r \in new}
  OBVIOUS
<1>21. DOMAIN rows' = D
  BY <1>18, <1>20 DEF FoldInteractions
<1>22. ASSUME NEW p \in D PROVE p \in Pairs(d) /\ rows'[p].first = d.from
  <2>1. p \in Pairs(d)
    BY <1>4, <1>19, <1>20 DEF Wrote
  <2>2. PICK N : N = {r \in new : p = <<r.account, r.asset>>}
    OBVIOUS
  <2>3. PICK A : A = {r.first : r \in N} \cup (IF p \in DOMAIN rows THEN {rows[p].first} ELSE {})
    OBVIOUS
  <2>4. PICK B : B = {r.last : r \in N} \cup (IF p \in DOMAIN rows THEN {rows[p].last} ELSE {})
    OBVIOUS
  <2>5. rows'[p] = [first |-> Min(A), last |-> Max(B)]
    BY <1>18, <1>20, <2>2, <2>3, <2>4 DEF FoldInteractions
  <2>6. \A x \in A : x = d.from
    BY <1>4, <1>19, <2>2, <2>3 DEF Wrote
  <2>7. A # {}
    <3>1. CASE p \in DOMAIN rows
      BY <2>3, <3>1
    <3>2. CASE p \notin DOMAIN rows
      <4>1. PICK r \in new : p = <<r.account, r.asset>>
        BY <1>20, <3>2
      <4>2. r \in N
        BY <2>2, <4>1
      <4> QED BY <2>3, <4>2
    <3> QED BY <3>1, <3>2
  <2>8. A \subseteq Nat
    BY <1>4, <2>6 DEF DocSound
  <2>9. Min(A) \in A
    BY <2>7, <2>8, LeastOf
  <2> QED BY <2>1, <2>5, <2>6, <2>9
<1>23. Wrote(d)'
  <2>1. RestoreVerified(d)'
    BY <1>1, <1>4 DEF Wrote, RestoreVerified
  <2>2. \A a \in DOMAIN cursors' : CursorOf(d, a)'
    BY <1>1, <1>4 DEF Wrote, CursorOf
  <2> QED BY <1>21, <1>22, <2>1, <2>2 DEF Wrote
<1>24. Folded(d, (b + 1) * Batch)'
  <2>1. ASSUME NEW k \in DOMAIN all, k <= b * Batch + Batch
        PROVE  <<all[k].account, all[k].asset>> \in DOMAIN rows'
    <3>1. k \in 1 .. len
      BY <1>12
    <3>2. CASE k <= b * Batch
      BY <1>4, <1>5, <1>8, <1>20, <1>21, <3>2 DEF Folded
    <3>3. CASE ~(k <= b * Batch)
      <4>1. k \in from .. upto
        BY <1>13, <1>14, <1>16, <2>1, <3>1, <3>3
      <4> QED BY <1>17, <1>20, <1>21, <4>1
    <3> QED BY <3>2, <3>3
  <2> QED BY <1>8, <1>14, <2>1 DEF Folded
<1>25. SetBefore(d, job.asset)' /\ SetAt(d, job.asset, job.stmt)'
  <2>1. PICK n : n = job.asset
    OBVIOUS
  <2>2. PICK stmt : stmt = job.stmt
    OBVIOUS
  <2>3. SetBefore(d, n)' /\ SetAt(d, n, stmt)'
    BY <1>1, <1>4, <2>1, <2>2 DEF SetBefore, SetAt, IsSet, SetUntil
  <2> QED BY <1>7, <2>1, <2>2, <2>3
<1>26. WrittenInv'
  BY <1>1, <1>7, <1>23 DEF WrittenInv
<1>27. ProgressInv'
  BY <1>1, <1>4, <1>7, <1>24, <1>25 DEF ProgressInv
<1> QED BY <1>1, <1>26, <1>27 DEF RestoreInv, FinishedInv, ResumedInv

LEMMA DoneWrites ==
  ASSUME RecoveryInv, RestoreInv, RestoreDone \/ RestoreFails PROVE RestoreInv'
<1>1. /\ daemon = "restoring" /\ daemon' \in {"restored", "failed"}
      /\ UNCHANGED <<cursors, rows, registry, job>>
  BY DEF RestoreDone, RestoreFails, AtRows, artefactVars, indexVars, epochVars
<1>2. PICK d : d = job.doc
  OBVIOUS
<1>3. Wrote(d)'
  BY <1>1, <1>2 DEF RestoreInv, WrittenInv, Wrote, CursorOf, RestoreVerified
<1>4. WrittenInv'
  BY <1>1, <1>2, <1>3 DEF WrittenInv
<1>5. ProgressInv'
  BY <1>1 DEF RestoreInv, ProgressInv, SetBefore, SetAt, Folded, IsSet, SetUntil
<1>6. FinishedInv'
  BY <1>1 DEF FinishedInv, RestoreDone, RestoreFails, AtRows
<1> QED BY <1>1, <1>4, <1>5, <1>6 DEF RestoreInv, ResumedInv

\* The database of a finished restore.
LEMMA FinishedIs ==
  ASSUME RecoveryInv, RestoreInv, daemon = "restored"
  PROVE  /\ DocSound(job.doc) /\ RestoreVerified(job.doc) /\ Wrote(job.doc)
         /\ \A i \in DOMAIN job.doc.coverage : IsSet(job.doc.coverage[i])
         /\ \A p \in Pairs(job.doc) : p \in DOMAIN rows
<1>1. Restored
  BY DEF RecoveryInv, CopiesInv
<1>2. PICK d : d = job.doc
  OBVIOUS
<1>3. /\ DocSound(d) /\ job.batch \in Nat /\ Wrote(d) /\ SetBefore(d, job.asset)
      /\ Folded(d, job.batch * Batch) /\ job.asset \in 1 .. (Len(d.coverage) + 1)
      /\ job.asset > Len(d.coverage) /\ job.batch = Batches(d)
  BY <1>1, <1>2 DEF RecoveryInv, CopiesInv, JobInv, RestoreInv, WrittenInv, ProgressInv, FinishedInv
<1>4. \A i \in DOMAIN d.coverage : IsSet(d.coverage[i])
  <2>1. DOMAIN d.coverage = 1 .. Len(d.coverage) /\ Len(d.coverage) \in Nat
    BY <1>3 DEF DocSound, CoverageSound
  <2>2. \A i \in DOMAIN d.coverage : i < job.asset
    BY <1>3, <2>1
  <2> QED BY <1>3, <2>2 DEF SetBefore
<1>5. PICK all : all = Interactions(d)
  OBVIOUS
<1>6. PICK len \in Nat : len = Len(all) /\ DOMAIN all = 1 .. len
  <2>1. PICK R : R = {r \in Row : r.first = d.from /\ <<r.account, r.asset>> \in Pairs(d)}
    OBVIOUS
  <2>2. all \in Seq(R)
    BY <1>3, <1>5, <2>1, InteractionsAre
  <2> QED BY <2>2
<1>7. len <= job.batch * Batch
  <2>1. PICK b \in Nat : b = job.batch
    BY <1>3
  <2>2. b = (len + Batch - 1) \div Batch
    BY <1>3, <1>5, <1>6, <2>1 DEF Batches
  <2>3. PICK x \in Nat : x = len + Batch - 1
    BY BatchAssumption DEF BatchAssumption
  <2>4. Batch \in Nat \ {0}
    BY BatchAssumption DEF BatchAssumption
  <2>5. x = Batch * (x \div Batch) + (x % Batch) /\ x % Batch <= Batch - 1
    BY <2>4
  <2>6. Batch * b = b * Batch
    BY <2>4
  <2>7. x \div Batch = b /\ x % Batch \in Nat /\ Batch * b \in Nat
    BY <2>2, <2>3, <2>4
  <2> QED BY <2>1, <2>3, <2>4, <2>5, <2>6, <2>7
<1>8. ASSUME NEW p \in Pairs(d) PROVE p \in DOMAIN rows
  <2>1. PICK k \in DOMAIN all : <<all[k].account, all[k].asset>> = p
    BY <1>3, <1>5, InteractionsAre
  <2>2. k <= job.batch * Batch
    <3>1. job.batch * Batch \in Nat
      BY <1>3, BatchAssumption DEF BatchAssumption
    <3> QED BY <1>6, <1>7, <3>1
  <2> QED BY <1>3, <1>5, <2>1, <2>2 DEF Folded
<1> QED BY <1>2, <1>3, <1>4, <1>8 DEF Wrote

LEMMA StartResumes == ASSUME RecoveryInv, RestoreInv, StartDaemon PROVE RestoreInv'
<1>1. daemon = "restored" /\ daemon' = "up" /\ UNCHANGED <<logs, cursors, rows, job>>
  BY DEF StartDaemon, artefactVars, indexVars
<1>2. PICK d : d = job.doc
  OBVIOUS
<1>3. /\ \A i \in DOMAIN d.coverage : IsSet(d.coverage[i])
      /\ \A p \in Pairs(d) : p \in DOMAIN rows
  BY <1>1, <1>2, FinishedIs
<1>4. ASSUME NEW i \in DOMAIN d.coverage PROVE Resumed(d, d.coverage[i])
  <2>1. PICK c : c = d.coverage[i]
    OBVIOUS
  <2>2. /\ c.asset \in DOMAIN cursors /\ cursors[c.asset].done
        /\ cursors[c.asset].floor = c.from /\ cursors[c.asset].tail = c.to
    BY <1>3, <2>1 DEF IsSet
  <2>3. ASSUME NEW l \in logs, l.asset = c.asset, c.from <= l.block, l.block <= c.to,
               l \notin Unlisted(d.leaves, c)
        PROVE  <<l.account, l.asset>> \in DOMAIN rows
    <3>1. PICK j \in DOMAIN d.leaves : d.leaves[j].account = l.account /\ l.asset \in d.leaves[j].assets
      BY <2>3 DEF Unlisted
    <3>2. <<l.account, l.asset>> \in PairsOf(d, j)
      BY <3>1 DEF PairsOf
    <3> QED BY <1>3, <3>2, PairsAre
  <2>4. Resumed(d, c)
    BY <2>2, <2>3 DEF Resumed
  <2> QED BY <2>1, <2>4
<1>5. ASSUME NEW c, Resumed(d, c) PROVE Resumed(d, c)'
  <2>1. Unlisted(d.leaves, c)' = Unlisted(d.leaves, c)
    BY <1>1 DEF Unlisted
  <2> QED BY <1>1, <1>5, <2>1 DEF Resumed
<1>6. ResumedInv'
  BY <1>1, <1>2, <1>4, <1>5 DEF ResumedInv
<1> QED BY <1>1, <1>6, UpRests

LEMMA RestoreInvStep ==
  RecoveryInv /\ RestoreInv /\ [RecoveryNext]_allVars /\ SameCopy => RestoreInv'
<1> SUFFICES ASSUME RecoveryInv, RestoreInv, [RecoveryNext]_allVars, SameCopy PROVE RestoreInv'
  OBVIOUS
<1>1. RegistryKept
  BY RegistryStaysKept
<1>2. CASE UNCHANGED <<indexVars, daemon, job>>
  BY <1>1, <1>2, RestoreRests
<1>3. CASE Serving
  <2>1. UNCHANGED recoveryVars /\ UNCHANGED <<daemon, job>>
    BY <1>3 DEF Serving, recoveryVars
  <2>2. CASE daemon = "up" /\ IndexStep
    BY <2>1, <2>2, FollowResumes, ScanResumes DEF IndexStep
  <2>3. CASE daemon = "up" /\ EpochStep
    <3>1. UNCHANGED indexVars
      BY <2>3 DEF EpochStep, BuildRange, BuildSnapshot, BuildStore, Publish, Notice, OthersPublish,
                  Decide, Upgrade
    <3> QED BY <1>2, <2>1, <3>1
  <2>4. CASE daemon = "up" /\ ReadStep
    <3>1. UNCHANGED indexVars
      BY <2>4 DEF ReadStep, Lookup, ServeCCIP, ServeENS, CallBack, ServeHintFilter, LookupEpoch, GetCommitted,
                  GetCached, GetRebuild, GetSnapshot, GetStore
    <3> QED BY <1>2, <2>1, <3>1
  <2>5. CASE \E i \in DOMAIN registry : Decide(i, "finalized")
    <3>1. UNCHANGED indexVars
      BY <2>5 DEF Decide
    <3> QED BY <1>2, <2>1, <3>1
  <2> QED BY <1>3, <2>2, <2>3, <2>4, <2>5 DEF Serving
<1>4. CASE \E i \in DOMAIN epochs :
             \E cut \in 0 .. Len(epochs[i].coverage) + Len(epochs[i].leaves) : Mirror(i, cut)
  <2>1. UNCHANGED <<indexVars, daemon, job>>
    BY <1>4 DEF Mirror
  <2> QED BY <1>2, <2>1
<1>5. CASE Lose
  BY <1>5, LoseStarts
<1>6. CASE \E d \in copies : RestoreBegin(d)
  BY <1>6, BeginStarts
<1>7. CASE RestoreStep
  BY <1>7, RegisterWrites, CursorWrites, BatchWrites, DoneWrites DEF RestoreStep
<1>8. CASE RestoreFails \/ StartDaemon
  BY <1>8, DoneWrites, StartResumes
<1>9. CASE UNCHANGED allVars
  <2>1. UNCHANGED <<indexVars, daemon, job>>
    BY <1>9 DEF allVars, artefactVars, recoveryVars
  <2> QED BY <1>2, <2>1
<1> QED BY <1>3, <1>4, <1>5, <1>6, <1>7, <1>8, <1>9 DEF RecoveryNext

\* A database restored from a whole copy is the one that was committed.
LEMMA RestoredAsCommitted == RecoveryInv /\ CopiesWhole /\ RestoreInv => RestoredIsCommitted
<1> SUFFICES ASSUME RecoveryInv, CopiesWhole, RestoreInv, daemon = "restored"
             PROVE  LET on == registry[job.doc.onchain]
                    IN  /\ Root(Leaves(SnapshotIndex(on.to))) = on.root
                        /\ Root(CoverageFromCursors(on.to)) = on.coverage
  BY DEF RestoredIsCommitted
<1>1. PICK d : d = job.doc
  OBVIOUS
<1>2. /\ DocSound(d) /\ RestoreVerified(d) /\ Wrote(d)
      /\ \A i \in DOMAIN d.coverage : IsSet(d.coverage[i])
      /\ \A p \in Pairs(d) : p \in DOMAIN rows
  BY <1>1, FinishedIs
<1>3. PICK on : on = registry[d.onchain]
  OBVIOUS
<1>4. Root(Leaves(d.leaves)) = on.root /\ Root(d.coverage) = on.coverage
  BY <1>2, <1>3 DEF RestoreVerified, Matches, Rebuild
<1>5. on.to = d.to
  <2>1. DOMAIN registry = 1 .. Len(registry)
    BY Lists DEF RecoveryInv
  <2>2. d.onchain # 0
    BY <1>2, <2>1 DEF RestoreVerified
  <2> QED BY <1>2, <1>3, <2>2 DEF DocSound
<1>6. IndexInv /\ RowsSound(rows)
  BY DEF RecoveryInv, IndexInv
<1>7. DocWhole(d)
  <2>1. d \in copies
    BY <1>1 DEF RecoveryInv, CopiesInv, JobInv
  <2> QED BY <2>1 DEF CopiesWhole
<1>8. SnapshotIndex(d.to) = d.leaves
  <2>1. DOMAIN rows = Pairs(d) /\ \A p \in DOMAIN rows : rows[p].first = d.from
    BY <1>2 DEF Wrote
  <2>2. \A i \in DOMAIN d.leaves : d.leaves[i].assets # {}
    BY <1>2, <1>7 DEF DocWhole
  <2> QED BY <1>2, <1>6, <2>1, <2>2, SnapshotIsCopy
<1>9. CoverageFromCursors(d.to) = d.coverage
  <2>1. \A a \in DOMAIN cursors : \E i \in DOMAIN d.coverage : d.coverage[i].asset = a
    BY <1>2 DEF Wrote, CursorOf
  <2> QED BY <1>2, <1>6, <2>1, CoverageIsCopy
<1> QED BY <1>1, <1>3, <1>4, <1>5, <1>8, <1>9

\* A database restored from a copy serves what the registry finalized of it, the daemon resumes
\* without leaving out a block, and no copy that was cut short is restored, wherever earlier
\* attempts stopped (restore.Apply and the cursors it writes), as long as an attempt that broke
\* off is followed by one with the same copy: evmscan-restore does not empty the tables first,
\* so a second copy would be laid over what is left of the first.
THEOREM RestoreAlwaysFaithful == RecoverySpec /\ SameCopyAgain => []RestoreFaithful
<1>1. RecoveryInit => RestoreInv
  BY DEF RecoveryInit, ArtefactsInit, RestoreInv, WrittenInv, ProgressInv, FinishedInv, ResumedInv,
         Restored
<1>2. RecoveryInv /\ RestoreInv /\ [RecoveryNext]_allVars /\ [SameCopy]_allVars => RestoreInv'
  <2>1. UNCHANGED allVars => SameCopy
    BY DEF SameCopy, allVars, recoveryVars
  <2> QED BY <2>1, RestoreInvStep
<1>3. RecoverySpec /\ SameCopyAgain => []RestoreInv
  BY <1>1, <1>2, RecoveryAlwaysInv, PTL DEF RecoverySpec, SameCopyAgain
<1>4. RecoveryInv /\ RestoreInv => NothingLostByRestore
  BY DEF RestoreInv, ResumedInv, Resumed, NothingLostByRestore
<1>5. RecoveryInv /\ CopiesWhole /\ RestoreInv /\ CutCopyRefused => RestoreFaithful
  BY <1>4, RestoredAsCommitted DEF RestoreFaithful
<1> QED BY <1>3, <1>5, AlwaysWhole, CutCopiesAlwaysRefused, PTL
=============================================================================
