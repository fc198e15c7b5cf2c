# A TLA+ verification of evm-scan

evm-scan indexes which accounts touched which contracts on an EVM chain, commits
to that index on-chain under a bond, is paid per block of coverage, and serves the
index to readers who can check it against the commitment. This directory holds TLA+
models of the parts of it that are hard to test, the TLC configurations that check
them, and TLAPS proofs of what they promise for every value of their constants.

Run a model with `tlc -config X.cfg MCModule`, a component's proofs with `tlapm
XProofs.tla` (*Modules* says which file holds whose). `PROJECT.json` lists the
components, the runs, the mapping from definitions to source lines, the findings and the
hazards.

## The system

| Part | State | Operations | Talks to | Module |
|---|---|---|---|---|
| `contracts/src/HintRegistry.sol` | hints, funding, paid ranges, epochs, votes, wei | register, fund, revoke, vote, publish, challenge, resolve, finalize, claim, oracle callbacks | publishers, challengers, arbiter or oracle | `HintRegistry`, `Demand` |
| `internal/indexer/service.go`, one per chain | cursors, pending buffer, rollup | follow tick, backfill tick | node, store, mirror | `Indexer` |
| `internal/chain/history.go`, `logs_errors.go`, `source.go` | history floor, sweep windows | probe, classify, sweep | node, indexer | `History` |
| `internal/indexer/discovery.go`, `internal/store/discovery.go` | candidates, discovery cursor, cooldowns | sweep, auto-promote, operator's verdicts | node, API | `Discovery` |
| `internal/hintreg/publisher.go` with `cmd/evmscand` | epochs table, one funded account | build, publish, resume, finalize, claim | index tables, registry | `Publisher` |
| `internal/hintreg/mirror.go`, `internal/api/demand.go`, `internal/store/demand.go` | demand tables, relay's memory | mirror votes, relay signed votes, record verdicts | registry, readers | `Votes` |
| `internal/userstate`, `internal/store/userstate.go`, `internal/api/userstate.go` | signed states, generations, the older tables | accept a state, project it, import, restore | API, wallets | `UserState` |
| `internal/statepub` | checkpoints, stored transactions | build, sign, send, settle, confirm | ENS resolver, node | `StatePublisher` |
| `cmd/evmscand/chains.go`, `internal/chainset`, `internal/api/chains.go` | the running chains, their profiles and trust | start, stop, quarantine, restart | indexer, API | `Supervisor` |
| `internal/api` gateways, proofs, account pages; `internal/hintfilter`, `internal/merkle` | filter cache, artefacts of an epoch | prove, answer CCIP reads, build and serve filters | store, registry, readers | `Artefacts`, `Merkle` |
| `internal/snapshot`, `cmd/evmscan-restore`, `cmd/evmscan-verify` | the document, the tables being rebuilt | copy, verify, restore | store, registry | `Recovery` |
| `cmd/evmscan-ens`, `internal/api/names.go`, `accounthint.go`, `HintAliasResolver.sol` | ENS wiring, aliases, hints | attach, claim, release, relay, post | ENS contracts, readers | `Names` |
| `internal/price`, `lens`, `token`, `evmlog`, `mirror/`, `web/` | at most a cache | reads, decoding, copying | node, API | none |

What is hard here:

* **Concurrency.** Per chain a follower, a backfiller and a discovery loop run beside
  the mirror, the publishers and the API's handlers over the same rows, with a read in
  one transaction and the write in a later one.
* **The node moves.** Head, hashes and logs are read by separate calls while blocks
  arrive, are reorganised or pruned, through backends that are not equally far.
* **Failure between steps.** Every tick, request and command is several transactions; a
  failed call or a dead process leaves any prefix of them done, and the next one starts
  over.
* **Transactions.** A submission may be mined late, dropped, reverted or replaced; its
  receipt may not come in time; other parties finalize, claim and carry signatures too.
* **Signatures outlive their purpose.** Votes, verdicts, states, names and hints are
  signed once and may be presented at any time, by anyone, any number of times.
* **Money.** Claims are paid from overlapping ranges, epochs resolve in any order, and
  a recipient may refuse payment.

What makes each part correct: the registry never owes more than it holds, pays no block
twice, keeps the challenge window and its decisions; the index records every event of
the range it vouches for, once, and nothing a reorg can undo; the floor of a node's
history is neither trusted too far nor given up too early; nothing the head emits
escapes discovery, and what readers want gets indexed; the publisher follows every bond
to its end and never misstates a verdict; a voter counts once and is paid for once; a
reader's last signed word stands; the published checkpoint only moves forward; the set
of chains is what its operators asked for; whatever is served proves against what the
registry finalized, and what was lost comes back from it.

## Modules

Every module's header says what it leaves out. In all of them a step is one RPC answer
or one database statement (a transaction, where the code opens one), and what one handler
does within such a step is one action.

**Scenarios.** All but `HintRegistry`, `Demand` and `History` take a constant
`Scenarios` (`Deployments` in `Artefacts`): each behaviour picks one at the start, a
table of how often each disturbance (a reorg, a failed tick, a crash, a dropped
transaction, an operator's request, ...) may happen in it, and a counter keeps what has
happened. An instance thus covers several combinations of faults, each exhaustively and
at every point, without their product. Properties name the disturbances they do not
survive.

### `HintRegistry` - the contract

State: `assets`, `assetKeys`, `funding`, `epochs`, `latestFinalized`, the oracle's
`assertions`, the contract's `ether` and the block time `now`; `earned` and `paidBlocks`
are history variables. Each external function is one action; a call that reverts is a
disabled action. `OracleMode` selects the adjudication; in oracle mode `OracleDispute`,
`OracleVote` and `OracleSettle` are the oracle's own functions, each with and without
the callback reaching the registry, because the contract is written to survive a skipped
one. Addresses whose receive hook reverts (`Refusers`) cannot be paid. A Merkle root is
the table it commits to and a proof is membership in it (`Merkle` is about that).
Timestamps are stored modulo `U64`.

### `Demand` and `Votes` - who wants what

`Demand` is `vote` and `voteFor` with nonces, deadlines, ballots that repeat a token and
signatures presented again. `Votes` extends it end to end: the relay (`RelayVote`,
`ReadNonce`, `ReadFresh`, `SimulateVote`, `SendVote` or `SubmitFails`, `ReadReceipt` or
`GiveUp`), whose reads may come from a backend one change behind; the mirror
(`BeginSync`, `ReadPage`, `EndSync`); the deployment's own unsigned votes and signed
verdicts (`RecordDemand`, `ReplaceVerdicts`); and `MoveRegistry`, an operator who puts a
new registry in use.

### `Indexer` - follower and backfiller

A block is a height and a hash, and the hash decides which assets emit in it. A follow
tick is `FollowHead`, `CheckHeader`..., either `DropPendingFrom` and `RewindTail` or
`ReorgChecked`, then `ListCursors`, chunks of `SweepRead`, `InsertPending` and
`PromoteChunk`, one `AdvanceTail` per asset and `PromoteTick`, in the order of
`followTick`. A backfill step is `BackfillPick` (the cursor), `BackfillAsset` (the asset's
row), `BackfillFloor` and `BackfillScanning` where they are due, `BackfillLogs`,
`BackfillReprobe` if the node refused, `BackfillFold` and `BackfillAdvance`; a walk that
ends goes through the three statements of `finishBackfill`: `FinishDone`, `FinishFloor`,
`FinishLive`. `AbortFollow` and `AbortBackfill` end a tick between any two of them.
`Register` and `Revoke`, and `ResyncRead` and `Resync` (or `AbortSync`) in two
transactions, are what the mirror and the API do to an asset and its cursor. The node
mines, reorganises no deeper than `Confirmations`, and prunes, also between the store's
floor and the read of the logs.

`AtLeastOnce` reads the range a cursor vouches for as `CoverageFromCursors` does, with one
difference: between `FinishDone` and `FinishFloor` the cursor is done and still holds the
floor of an earlier tick, and the property claims only what lies above the floor the walk
ended at. A tick that dies there (`FloorBehind`) is counted as `unfloored`.

### `History` - how far back a node goes

`ProbeHead`, `ProbeGenesis`, `ProbeSearch`, `ProbeSample`, `ProbeBisect` and
`ProbeAnchor` are the requests of `ProbeHistoryFloor` one at a time, `RetryTransient`
its retries; `ClassifyLogsError` is translated case by case over what it looks at. The
floor is kept, adopted at start, found too low by `BackfillRead` and searched again; the
walk is `BackfillAsset`, `BackfillRead`, `AdvanceBackfill`, `FinishDone` and `FinishFloor`,
and `FailBackfill` ends it between any two.
`SweepWindow` is one call of `SweepLogs` with its halving and widening. A node is honest
with a proper error, honest with one nobody recognises, quiet (pruned blocks look
empty), or a light client that refuses only blocks with logs.

### `Discovery` - candidates and promotion

`StartTick`, `SweepChunk`..., `SetDiscoveryCursor`, then `QueryPromotable` and
`QueryUnseen` fill a queue that `Dequeue` empties within the tick's budget; a promotion
is `PromoteRegister` and, in a later transaction, `PromoteMark`, or `PromoteDeferred`
with a cooldown when there is no code. Operators promote, register, mark and clear spam
in between; the API's readings of the table (`Ledger`, `CandidateView`, `Offered`,
`CandidateStats`) are definitions over it.

### `Publisher` - the commitment lifecycle

`content` stands for the index and coverage roots as they would be built now. The loop
worker runs `settleTick` and `buildTick` stage by stage (`Query`, then one of
`ResumeRow`, `FinalizeRow`, `ClaimRow` per row, then `Build`, `Bond`, `Publish`), with
`Send`, `MarkSubmitted` and `Receipt` or `GiveUp` as separate steps; the mutex of
`publisherLoop` is why its two tickers are one worker. The `api` worker is `CreateEpoch`,
which takes no mutex. Transactions are mined in nonce order at any later time, may be
dropped, and are replaced when a nonce is used twice. The registry is reduced to what
this account sees of it; a dispute at the oracle reaches it or, as in `HintRegistry`, is
`silent`: the epoch stays proposed, and its assertion is settled by the judgement.

### `UserState`, `StatePublisher`, `StateRecord` - signed states and checkpoints

`UserState` has both ways to write an account's choices, the whole-account state with
its generation and revision and the older verdicts, lists and votes over the same tables.
`ImportState` and `ImportCheckpoint` restore history, and the manifests of checkpoints are
stored by the import, by a publisher's build, and by whoever asks (`PostCheckpoint`).
A page's reading of the projection (`getUserState`) takes four statements, each a step.
`StatePublisher` extends it with daemons whose tick holds a session lock and goes through
build, signing, storing, sending, and settling at `Depth` blocks (receipt, head, canonical
hash and record are four calls), on a chain that reorganises, evicts and reverts.
`StateRecord` is the abstract specification: accounts
move to later revisions, and now and then a cut of them, no older than the last and no
newer than what was accepted, becomes the confirmed record.
`StatePublisher!Abstract` instantiates it with the revisions of the heads and of the
newest confirmed job.

### `Supervisor` - the chains of a process

`StartConfigChain` for each configured chain, `ListStored`, `RestartStored`, `Serve`;
requests that add, delete, enable and judge chains, each several steps (`BeginStart`,
`DialAndAdd`, `Persist`, `ClearAndLaunch`, `Stop`, `Disable`, ...); indexer goroutines
that begin, fail, quarantine their chain or take the process down; crashes and restarts
over the stored profiles. The set is a sequence, because its first entry is what a
request without a chain id means.

### `Merkle`, `Artefacts`, `Recovery` - what is served, and what comes back

`Merkle` builds trees, proofs and their verification over free hashes. `Artefacts` lets
the rollup grow while epochs are built in two reads, posted and finalized, beside
foreign publishers; a filter request looks up the epoch, reads the index and is answered
in separate steps; epoch proofs, both gateways and account pages
are definitions and steps over the same tables, and so is what `evmscan-verify` accepts.
`Recovery` adds a copy of an epoch (possibly cut short), the loss of the database, the
restore statement by statement with attempts that stop, and the daemon that resumes.

### `Names` - ENS wiring, aliases, hints

The command line run of `attach` transaction by transaction, with runs that die, time
out or lose a nonce and whose transactions may be mined later; `claimFor` and
`releaseFor` by signatures that a relay or anyone else carries; hints posted, replaced
and replayed.

`MC*` modules give the constants of the runs. The theorems and their lemmas are in
`HintRegistryProofs`, `VotesProofs` (of `Demand` and `Votes`), `IndexerProofs`,
`PublisherProofs`, `DiscoveryProofs`, `StateProofs` (of `UserState`, `StatePublisher` and
the refinement of `StateRecord`), `SupervisorProofs` and `ServiceProofs` (of `History`,
`Names`, and `Merkle` with `Artefacts` and `Recovery`: three components that share no
state, one after the other).

## Runs

| Run | Module | Question |
|---|---|---|
| RegistryOracle | MCHintRegistry | do replayed, overlapping, skipping and spanning leaves pay each block at most once and lose no wei (`NoBlockPaidTwice`, `PaidInsideHull`, `FundingConserved`); does the latest pointer survive resolution in either order (`LatestFinalizedIsNewest`); does only the oracle decide, is a hint listed once, is everything owed covered (`BooksAgree`)? |
| RegistryArbiter | MCHintRegistry | with an arbiter and bonds, pots and rewards in one balance: is every payment covered, are decisions final and windows kept, although one party cannot be paid (`Solvent`, `DecidedForGood`, `WindowHonoured`)? |
| Votes | MCVotes | does an address, and a signature, count once (`VotesCounted`); does the relay pay once (`RelayedOnce`); does a signed verdict stand (`VerdictStands`); does the mirrored tally become the chain's (`MirrorFollows`)? |
| Indexer | MCIndexer | do follower and backfiller share the chain without gap or overlap (`AtLeastOnce`, `CountedOnce`), is only what is final folded and nothing scanned lost (`FollowerSound`), is every final event folded and does every walk end (`EventuallyFolded`, `BackfillCompletes`)? |
| Publisher | MCPublisher | does the epochs table tell the truth (`RowsTruthful`), is every bond followed and worth something (`BondsAccounted`), does the loop keep its nonces (`LoopKeepsNonces`), does everything come to rest, with the endpoint too (`EverythingSettled`)? |
| States | MCStatePublisher | do the two ways to write choices not undo each other (`OneSourceOfChoices`), does a state replace only what its page showed (`ReviewedBeforeReplaced`), does the record catch up (`RecordCatchesUp`), does the whole implement `StateRecord` (`PublishesCuts`)? |
| Discovery | MCDiscovery | is nothing below the cursor unread (`NothingMissed`), do ledger, badge, queue and budget agree (`CandidatesAgree`), is what readers want indexed in the end (`WantedIsIndexed`)? |
| Supervisor | MCSupervisor | does a removed chain stay gone and the configuration come first (`SetAsAsked`), does trust change only deliberately (`TrustIsDeliberate`), does an added chain come back (`AddedReturns`)? |
| Recovery | MCRecovery | does every answer and proof verify against what the registry holds (`AnswersProve`), is an accepted filter the committed one (`AcceptedFilterIsCommitted`), does the cache only move forward (`FilterNeverGoesBack`), does a restore give back what was committed (`RestoreFaithful`)? |
| History | MCHistory | is the floor kept the node's (`ProbeSound`), do windows tile their range (`SweepTiles`), does a walk end (`WalkEnds`)? |
| Names | MCNames | does what a reader signed last stand (`LastWordStands`), does an attach that is run again get there (`AttachCompletes`)? |
| IndexerEmptyBlock | MCIndexer | expects a violation: `AggregateNeverWrong`, a sentence of `src/README.md` (316-317), fails when a scanned block that was empty is replaced: it left no hash to compare |

Several properties are conjunctions of named parts; each part is defined, with its own
comment, above the conjunction.

### Where the text and the code differ

One run above expects a violation. The following configurations are kept for the same
purpose: each checks one sentence of the repository and TLC shows a behaviour of the
code that differs. `tlc -config X.cfg M` prints it.

| Configuration (module) | The sentence | What the trace shows |
|---|---|---|
| RegistryGap (MCHintRegistry) | "is paid `rewardPerBlock` for every block in that range that no earlier claim on the asset has been paid for" (`HintRegistry.sol` 737) | blocks between two paid leaves are inside the hull and never earn (800) |
| IndexerUnconfirmed (MCIndexer) | "the rollup contains nothing above the confirmation depth" (`service.go` 357) | the first backfill window, which starts at the head, is folded directly (`service.go` 512) |
| IndexerAnchor (MCIndexer) | "the contiguous block range whose logs are in the rollup" (`publisher.go` 251) | the anchor block is declared covered and read by neither worker (`assets.go` 166) |
| PublisherNonce (MCPublisher) | "an EOA has one nonce, so they take turns rather than overlap" (`main.go` 391) | `createEpoch` does not take turns and takes the nonce of the loop's queued transaction (`handlers.go` 924) |
| DiscoveryReplay (MCDiscovery) | "driven by a monotonic cursor and never replays a range it has already folded in" (`store/discovery.go` 102) | the cursor is written after all chunks: a tick that fails half-way folds them again (`discovery.go` 198) |
| SupervisorFatal (MCSupervisor) | "take the process down and let the supervisor restart it rather than serve stale answers" (`chains.go` 243) | the failure cancels `runCtx`, every indexer stops, and `main`, which waits on its parent context, goes on serving until a signal comes (`main.go` 365) |
| VotesRelay (MCVotes) | "one relayed transaction per voter per chain voted for per relayWindow" (`api/demand.go` 195) | two requests pass the window's check before either marks it (349-357) |
| IndexerUnfloored (MCIndexer) | "Complete means the walk reached as far back as was asked for" (`handlers.go` 110) | a walk the node's pruning cut short is marked done in one statement and its floor raised in the next; a tick that dies between them leaves `history_complete` true over blocks nobody read (`service.go` 556, 559, 446) |
| RecoveryRace (MCRecovery) | "the contiguous block range whose logs are in the rollup" (`publisher.go` 251) | the cursors are read after the index, and claim blocks folded in between (152, 180) |
| FilterRebuild (MCRecovery) | "it rebuilds deterministically from interactions as of ToBlock" (`store/epochs.go` 55) | history backfilled below `ToBlock` afterwards changes what is rebuilt, and the filter of a final epoch is refused (`hintfilters.go` 212) |

### What the properties except

The exceptions written into the properties are behaviours of the code, each found by
checking the property without it:

| Property | Exception | Why |
|---|---|---|
| `CountedOnce` | a shorter chain, with a header that could not be read | the tail is rewound below rows that were promoted against the longer one |
| `CountedOnce` | a failed tick | rows promoted before the tick failed are inserted and promoted again by the next (`service.go` 344) |
| `CountedOnce` | a restarted cursor | `ReRegisterAsset` walks the history again and `FoldInteractions` adds (`assets.go` 156) |
| `CountedOnce` | a rewind below the anchor | `RewindTail` lowers every tail of the chain, into the backfiller's range (`assets.go` 358) |
| `AtLeastOnce` | a restarted cursor | a walk under way overwrites the new cursor with its own position (`assets.go` 336) |
| `AtLeastOnce` | a torn rewind, after a header that could not be read | the read failure counts as a divergence: rows are dropped, and a tick that dies before the tails are rewound leaves nothing to notice |
| `AtLeastOnce` | a reorg | one that reaches a block the backfiller folded leaves its row on the old fork (`service.go` 512) |
| `AtLeastOnce` | a tick that dies between `done` and its floor | the row keeps the lower floor of an earlier tick, and the cursor vouches for good for blocks the node had pruned: IndexerUnfloored |
| `FollowerComplete` | a torn rewind | rows dropped, tails not rewound: nothing diverges any more (`service.go` 388) |
| `FollowerComplete` | a reorg of an empty block | the run IndexerEmptyBlock |
| `FollowerComplete` | a shorter chain | the sweep reads nothing above the new head, and the tail advances to the old one |
| `FollowerComplete`, `FollowerFoldsFinal` | a reorg and two assets | their tails differ, so a height is read again on another fork: rows of two forks at one height, one hash compared (`index.go` 151) |
| the same | a reorg and a failed tick | the failed tick's rows stay above the tails and the next tick adds those of the new fork: again two hashes at one height, and a stale row may be promoted |
| the same | a restarted cursor | the new anchor may lie below rows read already |
| `EveryBondTracked`, `OneBondPerContent`, `EverythingSettled` | a crash | the transaction is sent before its reference is stored (`publisher.go` 333) |
| the same | a stale submission | marked failed without voiding its nonce, and mined afterwards (`publisher.go` 439) |
| `OneBondPerContent` | a call of the endpoint | it may force an unchanged epoch, and builds while another is in flight |
| `LocalVerdict`, in `RowsTruthful` | a dispute the registry was not told of | `FinalizeDue` reads the verdict back only where it saw the epoch challenged; otherwise it records a successful `finalizeIndex` as finalized, although it settled against the publisher (`publisher.go` 550) |
| `EverythingSettled` | the same, lost | the row stands for final, its claim reverts in simulation, and `ClaimDue` returns that error before the rows behind it (`publisher.go` 586) |
| `ClaimRecorded` | an abandoned wait or a crash | the claim pays, the next tick finds nothing claimable and records nothing (`publisher.go` 626) |
| `RelayedOnce` | overlapping requests of one voter | check and mark under two locks; the failing one deletes the other's mark (`api/demand.go` 349-357, 402-410) |
| `RecordCatchesUp` | a foreign use of the key | the stored transaction's nonce is gone, and it is resent for ever (`statepub/publisher.go` 195) |
| `RecordCatchesUp`, `ConfirmedStays`, `PublishesCuts` | a reorg deeper than the depth | only the newest job is looked at again (`statepub/publisher.go` 136) |
| `AddedReturns` | a lost statement | the list, or the error that would say why, was not written |
| `RestoreFaithful`, as a theorem | a second copy laid over a broken-off restore | see *Artefacts and recovery* below |
| `AcceptedFilterIsCommitted` | a restored database | it numbers epochs anew, so an old URI names another epoch |
| `WalkEnds` | a quiet node or a light client, a provider whose span limit is below the window | see below |
| `AttachCompletes` | a stranded proxy | no rerun leaves that state; it is repaired by hand (`LinkByHand`) |

### Further behaviours met while modelling

Not properties of a run, but what the models' control flow shows:

* **Registry.** A `challengeWindow` near 2^64, which the constructor accepts, wraps the
  deadline into the past and breaks `WindowHonoured` (`HintRegistry.sol` 631).
* **Indexer.** A walk's end is three statements (`service.go` 556, 559, 563). Coverage read
  between the first two vouches for blocks the node had pruned, until the second; a tick
  that dies between them leaves it so, and one that dies before the third leaves the asset
  scanning. `SetAssetStatus` writes whatever the row says by now: an asset revoked while its
  walk is under way becomes scanning or live again.
* **Discovery.** A spam mark set between auto-promotion's query and
  `MarkCandidatePromoted` is cleared, although "auto-promote cannot reach a spam row at
  all" (`store/discovery.go` 243). Counts of blocks that are reorganised away stay.
* **Supervisor.** `Stop` leaves the chain's indexer goroutine running, so adding the
  chain again makes two indexers on one chain, which `chainset.go` (73-75) rules out for
  entries; the old goroutine's quarantine then removes the new entry. A profile that
  cannot be stored after `set.Add` leaves an entry without an indexer. Trust survives
  delete and re-add. Enabling a chain by `PATCH` does not start it. The publisher does
  not look at the trust again between build and publish.
* **Votes.** A registry without `listDemand` keeps the tallies mirrored before. The
  relay's memory is empty after a restart. `chain/tx.go` (36) counts on the daemon being
  "the only sender from its key", which relay, publisher and names together are not.
* **History.** The audit after the search stops after one raise because it waits for
  `res.Floor == 0`, so `monotonicityRounds` is not reached, and on a light client the
  floor can land on a block without logs below the horizon; the walk then fails for ever.
  `backfillAsset` asks for whole windows, so a provider's span limit below
  `BackfillWindow` fails every tick. A quiet node is only found out where discovery has
  read.
* **Artefacts and recovery.** `Cache.Get` lets an older build that reaches the same block
  replace a newer one. `serveENS` signs an empty answer where the other gateway reports
  an error, when the latest epoch is another publisher's. `snapshot.Read` lacks the order
  and count checks of the verifier and relies on the roots; the document's own block range
  is not committed to. Epochs from before migration 0005 have no stored lists, so a
  snapshot of one never verifies. A restore does not bring back the epochs table and
  marks half-walked backfills done. It does not empty the tables either
  (`snapshot/restore.go` 54): when the restore of one epoch's copy breaks off after a
  batch, and an older epoch's copy is restored over what it wrote, the result rebuilds
  neither root. The run keeps one copy, and the theorem assumes that an attempt that
  broke off is followed by one with the same copy.
* **Names.** `attach` is called idempotent in `cmd/evmscan-ens/main.go` (19); `docs/MAINNET.md`
  (488) has it right. The relay's window and the hints' minimum gap are checked before
  they are set.

### Bounds

Amounts, heights and counts are the smallest that let the interesting case happen.

* *Registry:* four blocks give leaves that skip a block and later span it, with a balance
  that covers the claim or runs out; two epochs let an older one resolve after a newer
  one, on one chain or on two.
* *Indexer:* up to four heights with a confirmation depth of two give a reorg below, at
  and above the buffer; windows of two make a walk and a sweep take several chunks;
  two prunings let the horizon pass a walk's cursor;
  `empty`, `x` and `y` are a block without events and two forks alike in content. Two
  assets, registered at different heights, share the undisturbed scenario; faults meet
  one asset.
* *Publisher:* two contents and two rows, so a failed, rejected or stale row is followed
  by another for the same content; with an arbiter, and at an oracle with one or two
  epochs in dispute, the registry told of it or not.
* *Votes:* a ballot that names one token twice, two tokens on two chains, two requests.
* *States:* two devices of one account, two deadlines, two entries to a state, revisions
  up to two and generations up to four, two daemons, a depth of two.
* *Discovery:* two contracts, one of which may have no code, one promotion per tick, a
  cooldown of two ticks, sweeps of two blocks in chunks of one.
* *Supervisor:* a configured chain and two added ones, a local and a remote node for one
  of them, two operators.
* *Recovery:* two accounts and two assets over four blocks, two epochs of ours and one of
  another publisher, one copy of an epoch, restore batches of two. Trees are checked for
  every shape up to nine leaves.
* *History:* six blocks, so the search takes three rounds; two attempts, two samples, two
  failing calls, two blocks pruned and one restart anywhere.
* *Names:* two accounts, two labels, a plain and an alias resolver, two copies of a
  signature in flight.

A scenario allows at most three disturbances of a kind: each property is about what one
of them, or two together, do at an arbitrary point.

The indexer and the publisher run on tickers and must never stop, so their runs check
deadlock. The others end when their scenario is used up or their clock stands still.

### Fairness

Nothing is assumed of mining new blocks, reorgs, failures, other parties or operators
except what is listed.

| Specification | Fairness | Why |
|---|---|---|
| `Indexer!FairSpec` | weak for the follow tick and for a backfill under way, strong for picking each asset | both loops run on tickers, and a backfill tick visits every asset in turn; an asset is pickable only between ticks |
| `Publisher!FairSpec` | weak for the build ticker, for each worker's running steps, for mining, for the end of a window and for a judgement | the loop lives as long as the process; a wait ends at its deadline; a chain mines what is queued, its time passes, an arbiter answers |
| `StatePublisher!FairSpec` | weak for a tick under way and for mining, strong for starting a tick | two daemons take turns by a session lock, so starting is enabled again and again, not always |
| `Discovery!FairSpec` | weak for the tick's steps | the discovery loop runs on a ticker |
| `Supervisor!FairSpec` | weak for the main goroutine | it is one goroutine that is always runnable |
| `Votes!VotesFairSpec` | weak for the mirror and for backends catching up | the mirror runs on the sync interval; a backend that never catches up has left the network |
| `History!FairHistory` | weak for the walk | the backfill ticker |
| `Names!FairSpec` | weak for the tool and for mining, strong for the repair by hand | the property is about an operator who runs `attach` again until the label resolves, and repairs what `docs/MAINNET.md` says to repair |

## Proofs

Every theorem is about the specification the runs check, with no bound on the sets, the
windows, the amounts, the number of leaves or of disturbances. 31 of the 39 listed ones
state a property of a run; every invariant and safety property of the runs is stated by
one. What is assumed of the constants stands in the `ASSUME` of each module and is a
fact about the code or its deployment: windows, depths and chunks are positive (`Depth`,
`TailWindow`, `BackfillWindow`, ...), a "none" is not also an account, a daemon or a
node (`StatePublisherAssumption`, `NamesAssumption`, `SupervisorAssumption`), chain ids,
token addresses and contracts are finite in number (`KeysAssumption`,
`DiscoveryAssumption`, `SupervisorAssumption`), a configuration names a chain once, the
node starts with a block (`InitHead`), and the addresses with a log are finite in number
and ordered (`ArtefactsAssumption`). The hashes of `Merkle` are free, that is, without
collisions.

| Module | Theorem | States | Inductive invariant |
|---|---|---|---|
| `HintRegistryProofs` | `TypeCorrect` | `TypeOK` | itself |
| | `BlocksPaidOnce`, `HullContainsPaid`, `FundingIsConserved` | `NoBlockPaidTwice`, `PaidInsideHull`, `FundingConserved` | `RewardInv` |
| | `LatestIsNewest` | `LatestFinalizedIsNewest` | `LatestInv` |
| | `DecisionsStand` | `DecidedForGood` | `TypeOK` |
| | `WindowsAreHonoured` | `WindowHonoured`, given `NoWrap` | `WindowInv` |
| | `BooksAlwaysAgree`, `AlwaysSolvent` | `BooksAgree`, `Solvent` | `BooksInv` |
| `VotesProofs` | `VotesAlwaysCounted`, `RelaysOnce` | `VotesCounted`, `RelayedOnce` | `VotesInv` |
| | `VerdictsStand` | `VerdictStands` | `VerdictInv` |
| `IndexerProofs` | `IndexerTyped`, `EveryEventAtLeastOnce`, `NoneCountedTwice`, `FollowerIsSound` | `TypeOK`, `AtLeastOnce`, `CountedOnce`, `FollowerSound` | `IndexerInv` |
| `PublisherProofs` | `PublisherTyped` | `TypeOK` | `PublisherInv` |
| | `RowsAlwaysTruthful` | `RowsTruthful` | `PublisherInv`, `ClaimInv` |
| | `LoopNeverReplaces` | `LoopKeepsNonces` | `PublisherInv`, `NonceInv` |
| | `BondsAlwaysAccounted` | `BondsAccounted` | `PublisherInv`, `NonceInv`, `TrackInv`, `ContentInv` |
| `DiscoveryProofs` | `SweepMissesNothing`, `CandidatesAlwaysAgree` | `NothingMissed`, `CandidatesAgree` | `DiscoveryInv` |
| `StateProofs` | `ChoicesHaveOneSource` | `OneSourceOfChoices` | `ChoicesInv` |
| | `ReviewComesFirst` | `ReviewedBeforeReplaced` | `ChoicesInv`, `ReviewInv` |
| | `ConfirmedIsFinal`, `PublisherImplementsRecord` | `ConfirmedStays`, `PublishesCuts` | `ChoicesInv`, `RecordInv` |
| `SupervisorProofs` | `SetAlwaysAsAsked`, `TrustStaysDeliberate`, `OneEntryForEachChain` | `SetAsAsked`, `TrustIsDeliberate`, one entry a chain | `SupervisorInv` |
| `ServiceProofs` (`History`) | `SweepAlwaysTiles` | `SweepTiles` | `SweepInv` |
| | `ProbeAlwaysSound` | `ProbeSound` | `ProbeInv` |
| `ServiceProofs` (`Names`) | `NamesLastWord` | `LastWordStands` | `AliasInv`, `HintInv` |
| `ServiceProofs` (`Merkle`) | `PathsAlwaysVerify`, `VerifiedIsLeaf` | every path of `Proof` verifies, and nothing but a leaf does | none |
| `ServiceProofs` (`Recovery`) | `AnswersAlwaysProve`, `AcceptedFilterAlwaysCommitted`, `FilterNeverDoesGoBack` | `AnswersProve`, `AcceptedFilterIsCommitted`, `FilterNeverGoesBack` | `RecoveryInv` |
| | `CutCopiesAlwaysRefused` | `CutCopyRefused` | `RecoveryInv`, `CopiesWhole` |
| | `RestoreAlwaysFaithful` | `RestoreFaithful`, given `SameCopyAgain` | `RecoveryInv`, `CopiesWhole`, `RestoreInv` |

None of the properties but `TypeOK` is inductive as it stands. Why, and what is added:

* **Registry.** A claim pays the blocks of its leaf outside the hull; `RewardInv` joins
  the three reward properties because only the hull's containing every paid block makes
  those blocks new (`FreshCounts`, `PaidGrows`, `RewardClaim`). `LatestInv` bounds the
  pointer by the epochs there are. `WindowInv` remembers that an undisputed settlement
  came after the deadline, because a skipped callback puts the oracle's answer and the
  epoch's status in different steps; `NoWrap`, the theorem's hypothesis, says that the
  clock stays a window short of 2^64 where the contract truncates (see *Further
  behaviours* for what happens otherwise). `BooksInv` adds that a revoked hint has no bond
  left. The sums of `Solvent` are over functions that change at one argument or grow by
  one; what such a step does to a sum (`SumChange`, `SumGrows`) is
  shown by taking a smallest counterexample among the subsets of a finite set.
* **Votes.** A ballot is a fold over its keys; each round keeps a sound tally sound, so
  the fold does. `VotesInv` adds, for voters served alone, what a request in flight was
  admitted with (`Admitted`) and that the relay still remembers each send or forgot it a
  window ago (`Remembered`).
* **Indexer.** The properties speak of what is recorded; the invariant says where every
  row lies between any two transactions of either worker. `NodeInv`, `RowsInv` and
  `TickInv` tie heads, rows and the local state of a tick to the chain. `ReachInv` keeps
  buffered rows below the tails or what this tick has swept, and `UniqueInv` one to a
  height, so that comparing one hash a height compares all. `SettledInv` is the argument
  of `handleReorg`: a row deep enough to promote is canonical, still to be compared, or
  about to be dropped. `RowedInv` says that every emitting block passed by the follower
  has a row, under whatever hash, and `WalkInv` and `WalkedInv` that the walk has folded
  what it is past: above the floor in hand until `FinishFloor` has stored it, above the
  stored one from then on. `BehindInv` keeps what the follower has folded strictly behind what it
  buffers and rewinds, and `ApartInv` the two workers off each other's heights; `CountedInv`
  follows. Each part carries the disturbances under which it holds. Every action has a
  lemma that says what it does (`InsertDoes`, `PromoteChunkDoes`, ...), and each part is proved
  against those and a few frame lemmas (`StepCases`, `NodeFrame`, `BackfillingFrame`).
* **Publisher.** `PublisherInv` says what a row, a transaction and an on-chain epoch
  tell of each other, and that what a worker read before a call is still true after it
  (`Remembers`): a row in hand keeps its transaction, a commitment seen unchallenged
  after its window can only be finalized (`SawRightly`), and loop and endpoint hold
  different rows (`Apart`). `ClaimInv` follows a claim from the row it is for to the row
  that records it, as long as no wait was abandoned. `NonceInv`, for the loop alone,
  puts all nonces in use below the next one and has them mined in order, so the nonce
  read before signing is still the next when it is sent. `TrackInv` says that a
  publication has a row or is just being recorded, and that a row is failed only by a
  transaction that was. `ContentInv` orders the rows by content and keeps those that
  stand apart: the loop builds only when nothing it submitted is unresolved, and then
  something new. Each of these carries the disturbances under which it holds; each
  action has a lemma that says which rows, transactions and epochs it changes, and the
  parts are proved against those.
* **History.** `SweepInv` keeps windows at least one block wide. `ProbeInv` records, stage
  by stage, what each answer taught the probe, none of which pruning takes back.
* **Discovery.** `SweepInv` says that everything below the height a tick has got to is
  read or excused at each point the tick may die at; `BudgetInv` that what the queue may
  still cost fits what is left; no row carries both marks.
* **States.** `ChoicesInv` adds a floor for every signed row and that no applied signature
  is later than its floor. `ReviewInv` says that a page's reading agrees with the tables as
  far as it has gone, unless the generation has moved. `RecordInv` orders the jobs by the
  cuts they were made from, gives each transaction the nonce of its place, and puts every
  confirmed job where no reorg within `Depth` of the greatest height seen reaches. The
  refinement maps a step that accepts a state to an abstract step of that account, a step
  that confirms a job to an abstract confirmation, and the others to stutters.
* **Supervisor.** `LockInv` says who may be starting a chain, and `GoneInv` that what is
  left to do about a chain asked to stop is in the hands of a request.
* **Names.** Every signature in circulation names a nonce the account has not passed, and
  one for the present nonce has seen every withdrawal (`UpToDate`); a hint's stored
  deadline only rises.
* **Merkle trees.** A level is a function of the one below. A path leads from a leaf to
  the root one level at a time; a pair determines its two nodes, so whatever verifies
  against a root is a leaf under it, and lists with the same root have the same leaves.
* **Artefacts and recovery.** `RecoveryInv` ties every epoch, answer, cached filter and
  copy to the roots the registry holds, while the index (`IndexInv`) and a build in
  progress (`BuildingInv`) move on. An accepted filter rebuilds a root, and the root
  determines the pairs. A copy that verifies is whole (`CopiesWhole`), since a proper
  prefix lacks a leaf and so has another root. `RestoreInv` follows a restore statement
  by statement: what is written is of the copy, at the heights the copy names
  (`WrittenInv`), everything before the statement it is at is there (`ProgressInv`), a
  finished restore has written all (`FinishedInv`), and the daemon that resumes has
  every log between floor and tail that the copy did not lack (`ResumedInv`). An ordered
  list of a finite set is unique, so tables that hold a copy's pairs and cursors give
  back its leaves and coverage.

Minima and maxima (`Min`, `Max` of the community modules) are characterised through
`WFMin`, the one well-foundedness theorem without an operator parameter.

### What the proofs changed

Attempts that failed corrected the models and the properties:

* `AtLeastOnce`, `CountedOnce` and `FollowerSound` held on the instance and were false in
  general: the exceptions for a torn rewind, a shorter chain, and a reorg that meets a
  failed tick, a second asset or a restarted cursor (see the table of exceptions) came
  from steps that could not be proved. `MCIndexer` now has scenarios in which a reorg meets a
  failed tick and a lost header a torn rewind, and checks the corrected properties there.
* `ConfirmedStays` needed the greatest height the chain has had (`peak`): reorgs that
  each stay within `Depth` of the present head can together undo a confirmed block.
* Where guards of a `CASE` overlapped, the code's order of checks is now an `IF` chain
  (`ClassifyLogsError`, `ClassifyStatusOnly`, `Refusals`, `ContractsOfCallback`, `Reorg`).
* `RemoveEntry` takes out the first entry with the id, as the loop of `Set.Remove` does,
  and uniqueness is a theorem rather than an assumption of that step.
* `ClaimRecorded` compared a row's reward with a sum over the claims mined for it. It now
  says what makes that so: at most one claim is mined for a commitment, and the row
  records its result.
* A restore that is run again with another copy (see *Artefacts and recovery*) came from
  a step of `RestoreInv` that could not be proved; TLC then showed the trace with two
  copies. `RestoreInv` itself was checked with two copies and two losses under the
  theorem's hypothesis.
* `Merkle` builds its levels with a recursive function rather than a recursive operator,
  `SnapshotIndex` and `CoverageFromCursors` order their rows by one helper (`InOrder`),
  and `ArtefactsAssumption` says that addresses are numbers, because the code orders them.
* `Solvent` names its two sums (`Owed`, `Stakes`), and the heads, floors and blocks of
  `UserState` and `StatePublisher` are total functions and plain records.

### Only model-checked

Liveness under fairness, which the prover does not reach: `EventuallyFolded`,
`BackfillCompletes`, `EverythingSettled`, `MirrorFollows`, `RecordCatchesUp`,
`WantedIsIndexed`, `AddedReturns`, `WalkEnds` and `AttachCompletes`. The violations of
*Where the text and the code differ* are traces of instances, which is all they need.

## Plan

1. *Done:* the modules and runs above, and a theorem for every safety property they check.
2. Next: an abstract index ("each final event of the covered range counted once") that the
   follower's part of `Indexer` implements on behaviours without failures, and a contract
   of the publisher against `HintRegistry` in place of the account's view of it.

## Not modelled, and why

* Log decoding, ABI, DNS and byte formats, and the bits inside a hint filter are
  stateless conversions; a false positive of a filter is a matter of chance. A row of
  `Indexer` stands for what decoding yields; accounts and roles inside a block's events
  are left out there, because what is scanned, buffered and folded does not depend on them.
* Pricing, lens and token reads keep at most a cache keyed by block and compute numbers
  from one block's state.
* The static mirror in `mirror/` is a program of its own that copies finished artefacts;
  what it copies is checked by the tools modelled in `Artefacts` and `Recovery`.
* The demo and deployment commands are run once and sequential; `web/` is presentation.
* In the API, authentication, paging, rendering and the reads that only format rows are
  left out; parsing and defaults of the configuration as well.
* A gas estimate that succeeds for a call that would revert (`fallback_gas` set) is left
  out of `Publisher`: it adds reverted transactions, which disputes and rivals already
  produce.
