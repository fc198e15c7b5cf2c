---------------------------- MODULE HintRegistry ----------------------------
(***************************************************************************)
(* The on-chain registry of contracts/src/HintRegistry.sol: asset hints    *)
(* and their funding, optimistic index commitments (epochs), and coverage  *)
(* rewards, in both adjudication modes.  A transaction is atomic, so every *)
(* external function is one action; a call that reverts changes nothing    *)
(* and is therefore no action.                                             *)
(*                                                                         *)
(* Epoch id n of the contract is index n + 1 here, so latestFinalized      *)
(* holds exactly what the contract stores: the id plus one, 0 for none.    *)
(* A coverage root is the set of leaves it commits to.                     *)
(***************************************************************************)
EXTENDS Integers, Sequences, FiniteSets, FiniteSetsExt

CONSTANTS
  Users,            \* accounts that call the registry
  Refusers,         \* accounts whose receive hook reverts: they cannot be paid
  NoOne,            \* the zero address
  Chains, Tokens,   \* a hint names a (chainId, token) pair
  OracleMode,       \* TRUE when an optimistic oracle was configured
  assetBond, publisherBond, challengeWindow, minFunding, rewardPerBlock,
  U64,              \* 2^64: the width of a stored timestamp
  Amounts,          \* wei a caller may attach
  EpochRanges,      \* block ranges a publisher may commit to, <<from, to>>
  Coverages,        \* coverage tables a publisher may commit to
  MaxTime, MaxEpochs, MaxVouched   \* bounds: clock, epochs, wei vouched per asset

Keys == Chains \X Tokens
Leaf == [key : Keys, from : Nat, to : Nat]

ASSUME RegistryAssumption ==
  /\ Refusers \subseteq Users /\ NoOne \notin Users
  /\ OracleMode \in BOOLEAN
  /\ assetBond \in Nat /\ publisherBond \in Nat
  /\ minFunding \in Nat /\ rewardPerBlock \in Nat
  /\ U64 \in Nat \ {0} /\ challengeWindow \in 1 .. (U64 - 1)
  /\ Amounts \subseteq Nat
  /\ EpochRanges \subseteq Nat \X Nat
  /\ Coverages \subseteq SUBSET Leaf
  /\ MaxTime \in Nat /\ MaxEpochs \in Nat /\ MaxVouched \in Nat

\* A chain id has 64 bits and a token address 160.
ASSUME KeysAssumption == IsFiniteSet(Chains) /\ IsFiniteSet(Tokens)

VARIABLES
  assets,           \* _assets: hint rows; known stands for registeredAt # 0
  assetKeys,        \* _assetKeys: the order listAssets pages through
  funding,          \* _funding: balance, paid hull, lifetime vouched
  epochs,           \* _epochs
  latestFinalized,  \* _latestFinalized
  assertions,       \* oracle mode: the assertion behind each epoch
  ether,            \* the contract's own wei
  now,              \* block.timestamp
  earned,           \* history: wei paid out of each asset's funding
  paidBlocks        \* history: blocks named by the leaves that were paid

vars == <<assets, assetKeys, funding, epochs, latestFinalized, assertions,
          ether, now, earned, paidBlocks>>
assetVars   == <<assets, assetKeys>>
moneyVars   == <<funding, earned, paidBlocks>>
epochVars   == <<epochs, latestFinalized, assertions>>

Status == {"Proposed", "Challenged", "Finalized", "Rejected"}

AssetRow  == [known : BOOLEAN, active : BOOLEAN,
              registrant : Users \cup {NoOne}, bond : Nat]
Funding   == [balance : Nat, paidFrom : Nat, paidTo : Nat, vouched : Nat]
Epoch     == [chain : Chains, from : Nat, to : Nat, coverage : SUBSET Leaf,
              publisher : Users, challenger : Users \cup {NoOne}, bond : Nat,
              publishedAt : Nat, deadline : Nat, status : Status]
Assertion == [disputed : BOOLEAN, voteCast : BOOLEAN, voteTruthful : BOOLEAN,
              settled : BOOLEAN, truthful : BOOLEAN]

Blocks(l) == l.from .. l.to

-----------------------------------------------------------------------------
(* Internals shared by the entry points.                                   *)

\* _pay: a transfer of nothing is skipped, a refused transfer reverts the call.
CanPay(to, amount) == amount = 0 \/ to \notin Refusers

\* A known row keeps its place in the key list.
Listed(k) == IF assets[k].known THEN assetKeys ELSE Append(assetKeys, k)

\* _register: the row is written whole, so a re-registration changes its owner.
Register(u, k) ==
  /\ assets' = [assets EXCEPT ![k] = [known |-> TRUE, active |-> TRUE,
                                      registrant |-> u, bond |-> assetBond]]
  /\ assetKeys' = Listed(k)

\* Faulty variant of Fund: the lifetime counter forgotten.
FundBalanceOnly(k, amount) ==
  /\ funding[k].vouched + amount <= MaxVouched
  /\ funding' = [funding EXCEPT ![k].balance = @ + amount]

\* _fund: the only place balance and vouched rise.
Fund(k, amount) ==
  /\ funding[k].vouched + amount <= MaxVouched
  /\ funding' = [funding EXCEPT ![k].balance = @ + amount, ![k].vouched = @ + amount]

\* Faulty variant of Fresh: the whole leaf counted, paid blocks included.
FreshWholeLeaf(f, from, to) == to - from + 1

\* _fresh: blocks of the leaf outside the paid hull; paidTo = 0 means none paid.
Fresh(f, from, to) ==
  LET lo == IF from < f.paidFrom THEN f.paidFrom ELSE from
      hi == IF to > f.paidTo THEN f.paidTo ELSE to
  IN  (to - from + 1) - (IF f.paidTo # 0 /\ lo <= hi THEN hi - lo + 1 ELSE 0)

\* Faulty variant of Extend: the hull grows upwards only.
ExtendUpOnly(f, from, to) ==
  [f EXCEPT !.paidFrom = IF f.paidTo = 0 THEN from ELSE @,
            !.paidTo   = IF f.paidTo = 0 \/ to > @ THEN to ELSE @]

\* _extend: the paid hull grows to include the leaf.
Extend(f, from, to) ==
  [f EXCEPT !.paidFrom = IF f.paidTo = 0 \/ from < @ THEN from ELSE @,
            !.paidTo   = IF f.paidTo = 0 \/ to > @ THEN to ELSE @]

\* What one leaf is paid: fresh blocks at the fixed price, capped by the funding.
Reward(f, from, to) ==
  LET due == Fresh(f, from, to) * rewardPerBlock
  IN  IF due > f.balance THEN f.balance ELSE due

\* The wei a decision releases: bonds are held here in local mode only.
Pot(i) == IF OracleMode THEN 0 ELSE epochs[i].bond

\* Faulty variant of NewestOf: the last epoch to resolve taken for the newest.
LastResolved(slot, i) == i

\* The latest pointer only moves forward.
NewestOf(slot, i) == IF i > slot THEN i ELSE slot

\* Faulty variant of Resolve: the pot leaves and its record stays.
ResolveKeepsBond(i, upheld) ==
  LET e == epochs[i]
  IN  /\ CanPay(IF upheld THEN e.publisher ELSE e.challenger, Pot(i))
      /\ epochs' = [epochs EXCEPT ![i].status = IF upheld THEN "Finalized" ELSE "Rejected"]
      /\ latestFinalized' = IF upheld
                              THEN [latestFinalized EXCEPT ![e.chain] = NewestOf(@, i)]
                              ELSE latestFinalized
      /\ ether' = ether - Pot(i)

\* _resolve: an outcome is applied and the pot leaves.
Resolve(i, upheld) ==
  LET e == epochs[i]
      recipient == IF upheld THEN e.publisher ELSE e.challenger
  IN  /\ CanPay(recipient, Pot(i))
      /\ epochs' = [epochs EXCEPT ![i].bond = 0,
                      ![i].status = IF upheld THEN "Finalized" ELSE "Rejected"]
      /\ latestFinalized' = IF upheld
                              THEN [latestFinalized EXCEPT ![e.chain] = NewestOf(@, i)]
                              ELSE latestFinalized
      /\ ether' = ether - Pot(i)

\* Faulty variant of WindowClosed: the last second of the window counted as closed.
WindowClosedEarly(i) == now >= epochs[i].deadline

WindowClosed(i) == now > epochs[i].deadline

Undecided(i) == epochs[i].status \in {"Proposed", "Challenged"}

-----------------------------------------------------------------------------
(* Asset hints and their funding.                                          *)

RegisterAsset(u, k) ==
  /\ ~assets[k].active
  /\ Register(u, k)
  /\ ether' = ether + assetBond
  /\ UNCHANGED <<moneyVars, epochVars, now>>

\* An inactive asset is registered first and the bond comes off the payment.
RequestIndexing(u, k, value) ==
  /\ IF assets[k].active
       THEN /\ value >= minFunding
            /\ Fund(k, value)
            /\ UNCHANGED assetVars
       ELSE /\ value >= assetBond + minFunding
            /\ Fund(k, value - assetBond)
            /\ Register(u, k)
  /\ ether' = ether + value
  /\ UNCHANGED <<earned, paidBlocks, epochVars, now>>

FundAsset(k, value) ==
  /\ assets[k].active
  /\ Fund(k, value)
  /\ ether' = ether + value
  /\ UNCHANGED <<assetVars, earned, paidBlocks, epochVars, now>>

\* The bond goes back, the funding stays: it bought blocks.
RevokeAsset(u, k) ==
  /\ assets[k].active
  /\ assets[k].registrant = u
  /\ CanPay(u, assets[k].bond)
  /\ assets' = [assets EXCEPT ![k].active = FALSE, ![k].bond = 0]
  /\ ether' = ether - assets[k].bond
  /\ UNCHANGED <<assetKeys, moneyVars, epochVars, now>>

-----------------------------------------------------------------------------
(* Optimistic index commitments.                                           *)

\* publishIndex: the deadline is a truncated 64-bit timestamp; in oracle mode the
\* bond goes to the oracle with a fresh assertion.
PublishIndex(u, chain, range, coverage) ==
  /\ Len(epochs) < MaxEpochs
  /\ range[1] <= range[2]
  /\ epochs' = Append(epochs,
       [chain |-> chain, from |-> range[1], to |-> range[2], coverage |-> coverage,
        publisher |-> u, challenger |-> NoOne, bond |-> publisherBond,
        publishedAt |-> now, deadline |-> (now + challengeWindow) % U64,
        status |-> "Proposed"])
  /\ IF OracleMode
       THEN /\ now + challengeWindow < U64      \* the oracle's own sum is checked
            /\ assertions' = Append(assertions,
                 [disputed |-> FALSE, voteCast |-> FALSE, voteTruthful |-> FALSE,
                  settled |-> FALSE, truthful |-> FALSE])
            /\ UNCHANGED ether
       ELSE /\ ether' = ether + publisherBond
            /\ UNCHANGED assertions
  /\ UNCHANGED <<latestFinalized, assetVars, moneyVars, now>>

\* The oracle's disputeAssertion: live, undisputed and inside the window.
Disputable(i) ==
  /\ ~assertions[i].settled
  /\ ~assertions[i].disputed
  /\ ~WindowClosed(i)

\* Faulty variant of ChallengeIndex: a decided epoch challenged while its window is open.
ChallengeAnyStatus(u, i) ==
  /\ ~OracleMode
  /\ ~WindowClosed(i)
  /\ epochs' = [epochs EXCEPT ![i].challenger = u, ![i].status = "Challenged",
                              ![i].bond = @ + epochs[i].bond]
  /\ ether' = ether + epochs[i].bond
  /\ UNCHANGED <<assertions, latestFinalized, assetVars, moneyVars, now>>

\* challengeIndex.  Oracle mode: the status flips whether or not the oracle called
\* back.  Local mode: the challenger matches the bond.
ChallengeIndex(u, i) ==
  /\ epochs[i].status = "Proposed"
  /\ ~WindowClosed(i)
  /\ IF OracleMode
       THEN /\ Disputable(i)
            /\ assertions' = [assertions EXCEPT ![i].disputed = TRUE]
            /\ epochs' = [epochs EXCEPT ![i].challenger = u, ![i].status = "Challenged"]
            /\ UNCHANGED ether
       ELSE /\ epochs' = [epochs EXCEPT ![i].challenger = u, ![i].status = "Challenged",
                                        ![i].bond = @ + epochs[i].bond]
            /\ ether' = ether + epochs[i].bond
            /\ UNCHANGED assertions
  /\ UNCHANGED <<latestFinalized, assetVars, moneyVars, now>>

\* Faulty variant of ResolveChallenge: onlyLocalArbiter dropped.
ResolveAnyMode(i, upheld) ==
  /\ epochs[i].status = "Challenged"
  /\ Resolve(i, upheld)
  /\ UNCHANGED <<assertions, assetVars, moneyVars, now>>

\* resolveChallenge: the local arbiter's decision.
ResolveChallenge(i, upheld) ==
  /\ ~OracleMode
  /\ epochs[i].status = "Challenged"
  /\ Resolve(i, upheld)
  /\ UNCHANGED <<assertions, assetVars, moneyVars, now>>

\* What the oracle answers when asked to settle: undisputed after the window, or the vote.
Settleable(i) ==
  \/ assertions[i].settled
  \/ ~assertions[i].disputed /\ WindowClosed(i)
  \/ assertions[i].disputed /\ assertions[i].voteCast

Outcome(i) ==
  IF assertions[i].settled THEN assertions[i].truthful
  ELSE ~assertions[i].disputed \/ assertions[i].voteTruthful

SettleAt(i) ==
  assertions' = [assertions EXCEPT ![i].settled = TRUE, ![i].truthful = Outcome(i)]

\* finalizeIndex.  Oracle mode: settle, then resolve through the callback or, when
\* the callback was skipped, from the returned answer: the same step either way.
FinalizeIndex(i) ==
  /\ IF OracleMode
       THEN /\ Undecided(i)
            /\ Settleable(i)
            /\ SettleAt(i)
            /\ Resolve(i, Outcome(i))
       ELSE /\ epochs[i].status = "Proposed"
            /\ WindowClosed(i)
            /\ Resolve(i, TRUE)
            /\ UNCHANGED assertions
  /\ UNCHANGED <<assetVars, moneyVars, now>>

-----------------------------------------------------------------------------
(* The oracle used directly, behind the registry's back.  A callback may   *)
(* be skipped: the registry's fallbacks are written for that.              *)

\* disputeAssertion, then assertionDisputedCallback.
OracleDispute(i, calledBack) ==
  /\ OracleMode
  /\ Disputable(i)
  /\ assertions' = [assertions EXCEPT ![i].disputed = TRUE]
  /\ epochs' = IF calledBack /\ epochs[i].status = "Proposed"
                 THEN [epochs EXCEPT ![i].status = "Challenged"]
                 ELSE epochs
  /\ UNCHANGED <<latestFinalized, assetVars, moneyVars, ether, now>>

\* The vote on a disputed assertion; it may be recast until the assertion settles.
OracleVote(i, truthful) ==
  /\ OracleMode
  /\ assertions[i].disputed /\ ~assertions[i].settled
  /\ assertions' = [assertions EXCEPT ![i].voteCast = TRUE, ![i].voteTruthful = truthful]
  /\ UNCHANGED <<epochs, latestFinalized, assetVars, moneyVars, ether, now>>

\* settleAndGetAssertionResult, then assertionResolvedCallback, which ignores an
\* epoch that is already decided.
OracleSettle(i, calledBack) ==
  /\ OracleMode
  /\ ~assertions[i].settled
  /\ Settleable(i)
  /\ SettleAt(i)
  /\ IF calledBack /\ Undecided(i)
       THEN Resolve(i, Outcome(i))
       ELSE UNCHANGED <<epochs, latestFinalized, ether>>
  /\ UNCHANGED <<assetVars, moneyVars, now>>

-----------------------------------------------------------------------------
(* Coverage rewards.                                                       *)

\* claimCoverage for one leaf.  A call with several claims runs this for each in
\* turn: its checks read only the epoch and the asset row, which no claim changes.
\* A claim that pays nothing leaves the paid hull alone.
ClaimCoverage(i, l) ==
  LET e == epochs[i]
      f == funding[l.key]
      reward == Reward(f, l.from, l.to)
  IN  /\ e.status = "Finalized"
      /\ l.from >= e.from /\ l.to <= e.to /\ l.to >= l.from /\ l.to # 0
      /\ assets[l.key].known /\ l.key[1] = e.chain
      /\ l \in e.coverage
      /\ reward > 0
      /\ CanPay(e.publisher, reward)
      /\ funding' = [funding EXCEPT ![l.key] =
                       [Extend(f, l.from, l.to) EXCEPT !.balance = @ - reward]]
      /\ ether' = ether - reward
      /\ earned' = [earned EXCEPT ![l.key] = @ + reward]
      /\ paidBlocks' = [paidBlocks EXCEPT ![l.key] = @ \cup Blocks(l)]
      /\ UNCHANGED <<assetVars, epochVars, now>>

Tick ==
  /\ now < MaxTime
  /\ now' = now + 1
  /\ UNCHANGED <<assetVars, moneyVars, epochVars, ether>>

-----------------------------------------------------------------------------
Init ==
  /\ assets = [k \in Keys |-> [known |-> FALSE, active |-> FALSE,
                               registrant |-> NoOne, bond |-> 0]]
  /\ assetKeys = <<>>
  /\ funding = [k \in Keys |-> [balance |-> 0, paidFrom |-> 0, paidTo |-> 0, vouched |-> 0]]
  /\ epochs = <<>>
  /\ latestFinalized = [c \in Chains |-> 0]
  /\ assertions = <<>>
  /\ ether = 0
  /\ now = 0
  /\ earned = [k \in Keys |-> 0]
  /\ paidBlocks = [k \in Keys |-> {}]

AssetNext ==
  \E k \in Keys :
    \/ \E u \in Users : RegisterAsset(u, k) \/ RevokeAsset(u, k)
    \/ \E u \in Users, v \in Amounts : RequestIndexing(u, k, v)
    \/ \E v \in Amounts : FundAsset(k, v)

EpochNext ==
  \/ \E u \in Users, c \in Chains, r \in EpochRanges, cov \in Coverages :
       PublishIndex(u, c, r, cov)
  \/ \E i \in DOMAIN epochs :
       \/ \E u \in Users : ChallengeIndex(u, i)
       \/ \E upheld \in BOOLEAN : ResolveChallenge(i, upheld)
       \/ FinalizeIndex(i)
       \/ \E l \in epochs[i].coverage : ClaimCoverage(i, l)

OracleNext ==
  \E i \in DOMAIN assertions, b \in BOOLEAN :
    OracleDispute(i, b) \/ OracleVote(i, b) \/ OracleSettle(i, b)

Next == AssetNext \/ EpochNext \/ OracleNext \/ Tick

Spec == Init /\ [][Next]_vars

-----------------------------------------------------------------------------
(* Properties.                                                             *)

\* Every variable stays in its type; the assertions run beside the epochs.
TypeOK ==
  /\ assets \in [Keys -> AssetRow]
  /\ assetKeys \in Seq(Keys)
  /\ funding \in [Keys -> Funding]
  /\ epochs \in Seq(Epoch)
  /\ latestFinalized \in [Chains -> Nat]
  /\ assertions \in Seq(Assertion)
  /\ Len(assertions) = (IF OracleMode THEN Len(epochs) ELSE 0)
  /\ ether \in Int
  /\ now \in Nat
  /\ earned \in [Keys -> Nat]
  /\ paidBlocks \in [Keys -> SUBSET Nat]

\* What the contract owes for each asset, and what each epoch has at stake.
Owed == [k \in Keys |-> assets[k].bond + funding[k].balance]
Stakes == [i \in DOMAIN epochs |-> epochs[i].bond]

\* Solvency: the contract holds exactly the asset bonds, the unspent funding and, in
\* local mode, the bonds at stake: every refund, payout and pot can be paid.
Solvent ==
  ether = SumFunction(Owed) + (IF OracleMode THEN 0 ELSE SumFunction(Stakes))

\* No block is paid for twice: whatever epochs and claims were posted, an asset has
\* paid out at most the fixed price of the distinct blocks its paid leaves name.
NoBlockPaidTwice ==
  \A k \in Keys : earned[k] <= rewardPerBlock * Cardinality(paidBlocks[k])

\* The hull stored per asset contains every block a paid leaf named: it is what Fresh
\* subtracts, so a block outside it would be paid for again.
PaidInsideHull ==
  \A k \in Keys :
    /\ paidBlocks[k] \subseteq funding[k].paidFrom .. funding[k].paidTo
    /\ funding[k].paidTo = 0 => paidBlocks[k] = {}

\* Funding is conserved: every wei vouched is still in the balance or was paid out, so
\* vouched is the lifetime demand its comment promises.
FundingConserved ==
  \A k \in Keys : funding[k].vouched = funding[k].balance + earned[k]

FinalizedOn(i, c) == epochs[i].chain = c /\ epochs[i].status = "Finalized"

\* latestFinalizedEpoch answers with the newest finalized epoch of the chain, although
\* epochs resolve in any order.
LatestFinalizedIsNewest ==
  \A c \in Chains :
    /\ \A i \in DOMAIN epochs : FinalizedOn(i, c) => i <= latestFinalized[c]
    /\ latestFinalized[c] # 0 =>
         latestFinalized[c] \in DOMAIN epochs /\ FinalizedOn(latestFinalized[c], c)

\* The key list pages every asset ever registered exactly once, through any sequence
\* of registrations, revocations and re-registrations.
AssetListedOnce ==
  /\ \A k \in Keys : assets[k].known <=> \E n \in DOMAIN assetKeys : assetKeys[n] = k
  /\ \A m, n \in DOMAIN assetKeys : assetKeys[m] = assetKeys[n] => m = n

\* In oracle mode the oracle decides and nobody else: a resolved epoch carries the
\* settled answer, and a truthful answer to a dispute needs the vote.
OracleDecides ==
  OracleMode => \A i \in DOMAIN epochs :
    /\ epochs[i].status = "Finalized" => assertions[i].settled /\ assertions[i].truthful
    /\ epochs[i].status = "Rejected" => assertions[i].settled /\ ~assertions[i].truthful
    /\ assertions[i].settled /\ assertions[i].disputed =>
         assertions[i].voteCast /\ assertions[i].truthful = assertions[i].voteTruthful

\* The registry's books: its balance is what it owes, its list what was registered, and its
\* verdicts the oracle's, whichever of callbacks, refunds and claims came first.
BooksAgree == Solvent /\ AssetListedOnce /\ OracleDecides

\* A decided epoch is decided for good, its pot spent: neither a late callback, a second
\* finalize nor a challenge reopens it.
DecidedForGood ==
  [][\A i \in DOMAIN epochs :
       epochs[i].status \in {"Finalized", "Rejected"} => epochs'[i] = epochs[i]]_vars

\* A commitment nobody disputed finalizes only after challengeWindow whole seconds, in
\* which anyone could have disputed it.
WindowHonoured ==
  [][\A i \in DOMAIN epochs :
       (/\ epochs[i].status = "Proposed" /\ epochs'[i].status = "Finalized"
        /\ OracleMode => ~assertions[i].disputed)
       => now > epochs[i].publishedAt + challengeWindow]_vars

\* "paid rewardPerBlock for every block in that range that no earlier claim on the
\* asset has been paid for, capped by the asset's funding" (claimCoverage's doc).
EveryUnpaidBlockEarns ==
  [][\A i \in DOMAIN epochs : \A l \in epochs[i].coverage :
       LET k == l.key
           due == rewardPerBlock * Cardinality(Blocks(l) \ paidBlocks[k])
       IN  ClaimCoverage(i, l) =>
             earned'[k] - earned[k] = Min({due, funding[k].balance})]_vars
=============================================================================
