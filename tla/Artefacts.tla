------------------------------ MODULE Artefacts ------------------------------
(***************************************************************************)
(* What a deployment hands out about one chain's index, and what a reader  *)
(* checks it against.  The indexer keeps folding logs into the rollup      *)
(* while commitments are built from it, posted and finalized; inclusion    *)
(* proofs, gateway answers and membership filters are served from the same *)
(* tables in between.  The scan, the submission of an epoch and the        *)
(* registry have modules of their own (Indexer, Publisher, HintRegistry):  *)
(* here a scan window, a publication and a finalization are one step each. *)
(***************************************************************************)
EXTENDS Merkle, Integers, FiniteSets, FiniteSetsExt

CONSTANTS
  Account, Asset,   \* sets of numbers, so that the address order is theirs
  Requester,        \* concurrent requests for the index filter
  Floor,            \* the block every backfill walks down to
  Top,              \* bound: the last block mined
  Deployments       \* logs of the chain, its head, and a bound on each kind of step

ASSUME ArtefactsAssumption ==
  /\ Account \subseteq Nat /\ IsFiniteSet(Account)
  /\ Asset \subseteq Nat /\ IsFiniteSet(Asset)
  /\ Floor \in Nat \ {0} /\ Top \in Nat
  /\ \A s \in Deployments :
       /\ s.logs \subseteq [account : Account, asset : Asset, block : 0 .. Top]
       /\ s.head \in 0 .. Top

VARIABLES
  logs,        \* the chain's logs: account, asset, block
  head,        \* its confirmed head
  cursors,     \* asset_cursors, by registered asset
  rows,        \* interactions: first_block and last_block by <<account, asset>>
  upgraded,    \* migrations 0005 and 0008 have run
  building,    \* Publisher.Build in progress
  epochs,      \* epochs with epoch_leaves and epoch_coverage, by local id
  registry,    \* the epochs of HintRegistry, by on-chain id counted from 1
  cache,       \* hintfilter.Cache of the chain
  gets,        \* requests inside Cache.Get
  file,        \* the filter a reader downloaded last
  answer,      \* a gateway's answer on its way to the callback
  left         \* how many more steps of each kind the scenario allows

indexVars == <<logs, head, cursors, rows>>
epochVars == <<upgraded, building, epochs, registry>>
readVars  == <<cache, gets, file, answer>>
artefactVars == <<indexVars, epochVars, readVars, left>>

Absent == [absent |-> TRUE]

\* One more step of a kind the scenario bounds.
Spend(kind) == left[kind] > 0 /\ left' = [left EXCEPT ![kind] = @ - 1]

-----------------------------------------------------------------------------
(* The index.                                                              *)

\* FoldInteractions: first_block can only fall, last_block only rise.
FoldInteractions(table, new) ==
  LET Of(p) == {r \in new : p = <<r.account, r.asset>>}
      Old(p, field) == IF p \in DOMAIN table THEN {table[p][field]} ELSE {}
  IN  [p \in DOMAIN table \cup {<<r.account, r.asset>> : r \in new} |->
         [first |-> Min({r.first : r \in Of(p)} \cup Old(p, "first")),
          last  |-> Max({r.last : r \in Of(p)} \cup Old(p, "last"))]]

\* The rollup rows of the logs of assets in a block range.
Scanned(a, from, to) ==
  {[account |-> l.account, asset |-> a, first |-> l.block, last |-> l.block] :
     l \in {g \in logs : g.asset = a /\ from <= g.block /\ g.block <= to}}

\* RegisterAsset: a cursor is seeded once, at an anchor, and never rewound.
Registered(table, a, anchor) ==
  IF a \in DOMAIN table THEN table
  ELSE [b \in DOMAIN table \cup {a} |->
          IF b = a THEN [next |-> anchor - 1, done |-> FALSE, floor |-> 0, tail |-> anchor]
          ELSE table[b]]

RegisterAsset(a) ==
  /\ a \notin DOMAIN cursors
  /\ cursors' = Registered(cursors, a, head)
  /\ Spend("assets")
  /\ UNCHANGED <<logs, head, rows, epochVars, readVars>>

\* The follower after one more block: every asset from its own tail to the head.
Follow ==
  /\ head < Top
  /\ head' = head + 1
  /\ rows' = FoldInteractions(rows,
       UNION {Scanned(a, cursors[a].tail + 1, head + 1) : a \in DOMAIN cursors})
  /\ cursors' = [a \in DOMAIN cursors |-> [cursors[a] EXCEPT !.tail = head + 1]]
  /\ UNCHANGED <<logs, epochVars, readVars, left>>

\* A backfill window of one block: its rows, then the cursor.
Backfill(a) ==
  LET c == cursors[a]
  IN  /\ ~c.done
      /\ rows' = FoldInteractions(rows, IF c.next < Floor THEN {} ELSE Scanned(a, c.next, c.next))
      /\ cursors' = [cursors EXCEPT ![a] =
           IF c.next <= Floor THEN [c EXCEPT !.done = TRUE, !.floor = Floor]
           ELSE [c EXCEPT !.next = @ - 1, !.floor = Floor]]
      /\ UNCHANGED <<logs, head, epochVars, readVars, left>>

\* CoverageRange: of the rollup, not of the cursors.
CoverageRange ==
  [from |-> IF DOMAIN rows = {} THEN 0 ELSE Min({rows[p].first : p \in DOMAIN rows}),
   to   |-> IF DOMAIN rows = {} THEN 0 ELSE Max({rows[p].last : p \in DOMAIN rows})]

\* ORDER BY of an address.
InOrder(set) ==
  CHOOSE s \in [1 .. Cardinality(set) -> set] : \A i, j \in DOMAIN s : i < j => s[i] < s[j]

\* SnapshotIndex: accounts in order, each with the assets first seen by a block.
SnapshotIndex(to) ==
  LET seen == {p \in DOMAIN rows : rows[p].first <= to}
      who  == InOrder({p[1] : p \in seen})
  IN  [i \in DOMAIN who |->
         [account |-> who[i], assets |-> {p[2] : p \in {q \in seen : q[1] = who[i]}}]]

\* FromIndex: the file holds one key per pair, and the block it is true as of.
FromIndex(sets, to) ==
  [pairs |-> UNION {{<<sets[i].account, a>> : a \in sets[i].assets} : i \in DOMAIN sets},
   to    |-> to]

-----------------------------------------------------------------------------
(* Commitments.                                                            *)

Leaves(sets) == [i \in DOMAIN sets |-> LeafHash(sets[i].account, AssetsHash(sets[i].assets))]

\* CoverageFromCursors
CoverageFromCursors(to) ==
  LET lo(c) == IF c.done THEN c.floor ELSE c.next + 1
      hi(c) == Min({c.tail, to})
      covered == {a \in DOMAIN cursors : hi(cursors[a]) > 0 /\ lo(cursors[a]) <= hi(cursors[a])}
      order == InOrder(covered)
  IN  [i \in DOMAIN order |->
         CoverageLeaf(order[i], lo(cursors[order[i]]), hi(cursors[order[i]]))]

\* Build, first read: the block the commitment will be as of.
BuildRange ==
  /\ building = Absent
  /\ Spend("builds")
  /\ building' = [stage |-> "range", from |-> CoverageRange.from, to |-> CoverageRange.to]
  /\ UNCHANGED <<indexVars, upgraded, epochs, registry, readVars>>

\* Build, second read: the leaves, or nothing to commit.
BuildSnapshot ==
  /\ building # Absent /\ building.stage = "range"
  /\ building' = IF SnapshotIndex(building.to) = <<>> THEN Absent
       ELSE [stage |-> "rows", from |-> building.from, to |-> building.to,
             sets |-> SnapshotIndex(building.to)]
  /\ UNCHANGED <<indexVars, upgraded, epochs, registry, readVars, left>>

\* LatestCommittedRoots: the newest epoch that reached the chain.
LatestCommittedRoots ==
  LET sent == {i \in DOMAIN epochs : epochs[i].status \in {"published", "finalized"}}
  IN  IF sent = {} THEN Absent
      ELSE [root |-> epochs[Max(sent)].root, coverage |-> Root(epochs[Max(sent)].coverage)]

\* The filter's digest, from the rows the root was built from.
IndexFilterDigest(b) == FromIndex(b.sets, b.to)

\* Faulty variant of NewEpoch: the filter is built over the rows as they are by now.
NewEpochLateFilter(b, coverage) ==
  [from |-> Min({b.from} \cup {coverage[i].from : i \in DOMAIN coverage}),
   to |-> b.to, root |-> Root(Leaves(b.sets)), coverage |-> coverage,
   leaves |-> [i \in DOMAIN b.sets |->
     [account |-> b.sets[i].account, hash |-> AssetsHash(b.sets[i].assets),
      assets |-> IF upgraded THEN b.sets[i].assets ELSE {}]],
   filter |-> IF upgraded THEN FromIndex(SnapshotIndex(b.to), b.to) ELSE Absent,
   onchain |-> 0, status |-> "built"]

\* CreateEpoch: the asset lists and the digest are columns of later migrations; a leaf
\* of before has no list.
NewEpoch(b, coverage) ==
  [from |-> Min({b.from} \cup {coverage[i].from : i \in DOMAIN coverage}),
   to |-> b.to, root |-> Root(Leaves(b.sets)), coverage |-> coverage,
   leaves |-> [i \in DOMAIN b.sets |->
     [account |-> b.sets[i].account, hash |-> AssetsHash(b.sets[i].assets),
      assets |-> IF upgraded THEN b.sets[i].assets ELSE {}]],
   filter |-> IF upgraded THEN IndexFilterDigest(b) ELSE Absent,
   onchain |-> 0, status |-> "built"]

\* Build, last: the cursors as they are by now, and the epoch unless it is unchanged.
BuildStore ==
  LET new == NewEpoch(building, CoverageFromCursors(building.to))
  IN  /\ building # Absent /\ building.stage = "rows"
      /\ epochs' = IF LatestCommittedRoots = [root |-> new.root, coverage |-> Root(new.coverage)]
                   THEN epochs ELSE Append(epochs, new)
      /\ building' = Absent
      /\ UNCHANGED <<indexVars, upgraded, registry, readVars, left>>

\* Publish and settle: the registry numbers the epoch and keeps its roots and its uri,
\* which names the local id.
Publish(i) ==
  /\ epochs[i].status = "built"
  /\ registry' = Append(registry,
       [root |-> epochs[i].root, coverage |-> Root(epochs[i].coverage),
        to |-> epochs[i].to, uri |-> i, status |-> "proposed"])
  /\ epochs' = [epochs EXCEPT ![i].status = "published", ![i].onchain = Len(registry) + 1]
  /\ UNCHANGED <<indexVars, upgraded, building, readVars, left>>

\* Another publisher's commitment for the chain.
OthersPublish ==
  /\ Spend("foreign")
  /\ registry' = Append(registry, [root |-> [theirs |-> Len(registry)], coverage |-> ZeroHash,
                                   to |-> head, uri |-> 0, status |-> "proposed"])
  /\ UNCHANGED <<indexVars, upgraded, building, epochs, readVars>>

\* The window closes, or the epoch is disputed and lost.
Decide(i, verdict) ==
  /\ registry[i].status = "proposed"
  /\ registry' = [registry EXCEPT ![i].status = verdict]
  /\ UNCHANGED <<indexVars, upgraded, building, epochs, readVars, left>>

\* FinalizeDue notices it, a tick or more later.
Notice(i) ==
  /\ epochs[i].status = "published"
  /\ registry[epochs[i].onchain].status # "proposed"
  /\ epochs' = [epochs EXCEPT ![i].status = registry[epochs[i].onchain].status]
  /\ UNCHANGED <<indexVars, upgraded, building, registry, readVars, left>>

\* A release with the later migrations is deployed.
Upgrade ==
  /\ ~upgraded
  /\ upgraded' = TRUE
  /\ UNCHANGED <<indexVars, building, epochs, registry, readVars, left>>

-----------------------------------------------------------------------------
(* Proofs and gateway answers.                                             *)

\* latestFinalizedEpoch of the registry; 0 when there is none.
RegistryLatest ==
  LET final == {i \in DOMAIN registry : registry[i].status = "finalized"}
  IN  IF final = {} THEN 0 ELSE Max(final)

\* LatestFinalizedEpoch of the store, which knows what FinalizeDue has noticed.
LatestFinalizedEpoch ==
  LET final == {i \in DOMAIN epochs : epochs[i].status = "finalized"}
  IN  IF final = {} THEN 0
      ELSE CHOOSE i \in final : \A j \in final : epochs[j].onchain <= epochs[i].onchain

\* EpochByOnchainID
EpochByOnchainID(id) ==
  LET those == {i \in DOMAIN epochs : epochs[i].onchain = id}
  IN  IF those = {} THEN 0 ELSE Max(those)

\* Faulty variant of LatestFinalizedFor: the local view, which lags the registry.
LatestFinalizedLocally == LatestFinalizedEpoch

\* latestFinalizedFor: the registry's id, mapped to the local commitment.
LatestFinalizedFor == IF RegistryLatest = 0 THEN 0 ELSE EpochByOnchainID(RegistryLatest)

\* EpochLeafFor: the position of an account's leaf, 0 when it has none.
EpochLeafFor(e, account) ==
  LET at == {i \in DOMAIN e.leaves : e.leaves[i].account = account}
  IN  IF at = {} THEN 0 ELSE Min(at)

\* ProofFor: the tree of the stored leaves and the path in it.
ProofFor(e, i) ==
  Proof(Build([j \in DOMAIN e.leaves |-> LeafHash(e.leaves[j].account, e.leaves[j].hash)]), i - 1)

\* AccountAssets: the contracts the live rollup says an account has touched.
AccountAssets(account) == {p[2] : p \in {q \in DOMAIN rows : q[1] = account}}

FirstSeenBy(account, to) == {a \in AccountAssets(account) : rows[<<account, a>>].first <= to}

\* The list the leaf was committed over; for an epoch without stored lists the live
\* rollup's, as of the epoch's block.
LeafAssets(e, i) ==
  IF e.leaves[i].assets # {} THEN e.leaves[i].assets
  ELSE FirstSeenBy(e.leaves[i].account, e.to)

\* accountProof: the list must still hash to the leaf.
AccountProof(e, account) ==
  LET i == EpochLeafFor(e, account)
  IN  IF i = 0 \/ AssetsHash(LeafAssets(e, i)) # e.leaves[i].hash THEN Absent
      ELSE [assets |-> LeafAssets(e, i), proof |-> ProofFor(e, i)]

\* epochProof, by local id.
EpochProof(id, account) == AccountProof(epochs[id], account)

\* verifyInclusion of the registry.
VerifyInclusion(id, account, assetsHash, proof) ==
  Verify(registry[id].root, LeafHash(account, assetsHash), proof)

\* run of evmscan-verify: the leaf is recomputed from the list, checked against the
\* root the API states and, once the epoch is on chain, by the registry.
ProofVerified(id, account, pr) ==
  /\ Verify(epochs[id].root, LeafHash(account, AssetsHash(pr.assets)), pr.proof)
  /\ epochs[id].onchain # 0 =>
       VerifyInclusion(epochs[id].onchain, account, AssetsHash(pr.assets), pr.proof)

\* committedSet: the latest finalized leaf of an account, as far as this database knows.
CommittedSet(account) ==
  LET e == epochs[LatestFinalizedEpoch]
  IN  IF LatestFinalizedEpoch = 0 THEN {}
      ELSE IF EpochLeafFor(e, account) = 0 THEN {} ELSE LeafAssets(e, EpochLeafFor(e, account))

\* accountContracts: what a page lists, and what it shows as committed.
AccountContracts(account) ==
  {[asset |-> a, committed |-> a \in CommittedSet(account)] : a \in AccountAssets(account)}

-----------------------------------------------------------------------------
(* Lookups through a gateway (ERC-3668).                                   *)

\* Resolve, first half: the contract reverts with the lookup to make.  contractsOf
\* needs a finalized epoch; the signed resolver of another chain cannot tell.
Lookup(account, via) ==
  /\ answer = Absent
  /\ via = "ccip" => RegistryLatest # 0
  /\ Spend(via)
  /\ answer' = [stage |-> "asked", via |-> via, account |-> account]
  /\ UNCHANGED <<indexVars, epochVars, cache, gets, file>>

GatewayAnswer(via, account, assets, proof) ==
  [stage |-> "answered", via |-> via, account |-> account, latest |-> RegistryLatest,
   epoch |-> epochs[LatestFinalizedFor].onchain, assets |-> assets, proof |-> proof]

\* serveCCIP: an epoch that is not ours, a missing leaf and a failed proof are errors.
CcipAnswer(account) ==
  LET pr == AccountProof(epochs[LatestFinalizedFor], account)
  IN  IF LatestFinalizedFor = 0 THEN Absent ELSE IF pr = Absent THEN Absent
      ELSE GatewayAnswer("ccip", account, pr.assets, pr.proof)

\* ensRecord: nothing to say is an empty text, and only a failed proof is an error.
EnsRecord(account) ==
  LET e == epochs[LatestFinalizedFor]
      empty == [stage |-> "answered", via |-> "ens", account |-> account, latest |-> RegistryLatest,
                epoch |-> 0, assets |-> {}, proof |-> <<>>]
  IN  IF LatestFinalizedFor = 0 THEN empty
      ELSE IF EpochLeafFor(e, account) = 0 THEN empty
      ELSE IF AccountProof(e, account) = Absent THEN Absent
      ELSE GatewayAnswer("ens", account, AccountProof(e, account).assets, <<>>)

ServeCCIP ==
  /\ answer # Absent /\ answer.stage = "asked" /\ answer.via = "ccip"
  /\ answer' = CcipAnswer(answer.account)
  /\ UNCHANGED <<indexVars, epochVars, cache, gets, file, left>>

\* serveENS signs the record for the resolver.
ServeENS ==
  /\ answer # Absent /\ answer.stage = "asked" /\ answer.via = "ens"
  /\ answer' = EnsRecord(answer.account)
  /\ UNCHANGED <<indexVars, epochVars, cache, gets, file, left>>

\* contractsOfCallback
ContractsOfCallback(r) ==
  IF r.epoch # RegistryLatest THEN "StaleEpoch"
  ELSE IF ~VerifyInclusion(r.epoch, r.account, AssetsHash(r.assets), r.proof) THEN "BadProof"
  ELSE "verified"

\* The cross-check of runENS: contractsOf, resolved now, returns the same list.
CrossChecked(r) ==
  LET direct == CcipAnswer(r.account)
  IN  ContractsOfCallback(direct) = "verified" /\ direct.assets = r.assets

\* Resolve, second half: the callback, with what the gateway answered.
CallBack ==
  /\ answer # Absent /\ answer.stage = "answered"
  /\ answer' = Absent
  /\ UNCHANGED <<indexVars, epochVars, cache, gets, file, left>>

-----------------------------------------------------------------------------
(* The index filter.                                                       *)

\* filterBytes, the committed way: rebuilt as of the epoch's block, and refused when
\* its digest is not the one the epoch recorded.
EpochFilter(e) ==
  LET f == FromIndex(SnapshotIndex(e.to), e.to)
  IN  IF f = e.filter THEN f ELSE Absent

\* A reader asks, and the newest finalized epoch is looked up.
LookupEpoch(r) ==
  LET e == LatestFinalizedEpoch
      committed == e # 0 /\ epochs[e].filter # Absent
  IN  /\ gets[r] = Absent
      /\ Spend("gets")
      /\ gets' = [gets EXCEPT ![r] = IF committed THEN [stage |-> "epoch", id |-> e] ELSE [stage |-> "cache"]]
      /\ UNCHANGED <<indexVars, epochVars, cache, file, answer>>

\* A committed filter is answered from the rows as they are by then.
GetCommitted(r) ==
  /\ gets[r] # Absent /\ gets[r].stage = "epoch"
  /\ file' = EpochFilter(epochs[gets[r].id])
  /\ gets' = [gets EXCEPT ![r] = Absent]
  /\ UNCHANGED <<indexVars, epochVars, cache, answer, left>>

\* Cache.Get on a filter that covers the rollup, or was built within MinInterval.
GetCached(r) ==
  /\ gets[r] # Absent /\ gets[r].stage = "cache" /\ cache # Absent
  /\ file' = cache
  /\ gets' = [gets EXCEPT ![r] = Absent]
  /\ UNCHANGED <<indexVars, epochVars, cache, answer, left>>

\* Cache.Get sets out to rebuild, as of the block the rollup reaches.
GetRebuild(r) ==
  /\ gets[r] # Absent /\ gets[r].stage = "cache"
  /\ cache # Absent => cache.to < CoverageRange.to
  /\ gets' = [gets EXCEPT ![r] = [stage |-> "read", to |-> CoverageRange.to]]
  /\ UNCHANGED <<indexVars, epochVars, cache, file, answer, left>>

\* serveHintFilter
ServeHintFilter(r) == LookupEpoch(r) \/ GetCommitted(r) \/ GetCached(r) \/ GetRebuild(r)

\* The snapshot, read without the lock; an empty index is ErrEmpty.
GetSnapshot(r) ==
  /\ gets[r] # Absent /\ gets[r].stage = "read"
  /\ LET f == FromIndex(SnapshotIndex(gets[r].to), gets[r].to)
     IN  gets' = [gets EXCEPT ![r] = IF f.pairs = {} THEN Absent ELSE [stage |-> "store", filter |-> f]]
  /\ UNCHANGED <<indexVars, epochVars, cache, file, answer, left>>

\* Faulty variant of Newer: the build that finishes last wins.
NewerAlways(f) == f

\* Keep whichever covers more.
Newer(f) == IF cache = Absent \/ f.to >= cache.to THEN f ELSE cache

\* Under the lock: the cache, and what every caller is handed.
GetStore(r) ==
  /\ gets[r] # Absent /\ gets[r].stage = "store"
  /\ cache' = Newer(gets[r].filter)
  /\ file' = cache'
  /\ gets' = [gets EXCEPT ![r] = Absent]
  /\ UNCHANGED <<indexVars, epochVars, answer, left>>

\* epochManifest and manifestBody: what the document an epoch's uri names says of its filter.
EpochManifest(id) == IF id \in DOMAIN epochs THEN epochs[id].filter ELSE Absent

\* runFilter: the file against the manifest the registry's latest epoch points at.
FilterAccepted(f) ==
  /\ f # Absent /\ RegistryLatest # 0
  /\ EpochManifest(registry[RegistryLatest].uri) = f
  /\ f.to = registry[RegistryLatest].to

-----------------------------------------------------------------------------

IndexStep ==
  \/ Follow
  \/ \E a \in Asset : RegisterAsset(a)
  \/ \E a \in DOMAIN cursors : Backfill(a)

EpochStep ==
  \/ BuildRange \/ BuildSnapshot \/ BuildStore
  \/ \E i \in DOMAIN epochs : Publish(i) \/ Notice(i)
  \/ OthersPublish
  \/ \E i \in DOMAIN registry, v \in {"finalized", "rejected"} : Decide(i, v)
  \/ Upgrade

ReadStep ==
  \/ \E a \in Account, via \in {"ccip", "ens"} : Lookup(a, via)
  \/ ServeCCIP \/ ServeENS \/ CallBack
  \/ \E r \in Requester : ServeHintFilter(r) \/ GetSnapshot(r) \/ GetStore(r)

ArtefactsInit ==
  \E s \in Deployments :
    /\ logs = s.logs /\ head = s.head /\ upgraded = s.upgraded /\ left = s.left
    /\ cursors = <<>> /\ rows = <<>>
    /\ building = Absent /\ epochs = <<>> /\ registry = <<>>
    /\ cache = Absent /\ gets = [r \in Requester |-> Absent] /\ file = Absent /\ answer = Absent

=============================================================================
