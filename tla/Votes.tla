-------------------------------- MODULE Votes --------------------------------
(***************************************************************************)
(* Who wants what indexed, end to end: the contract's votes (Demand), the  *)
(* relay of internal/api/demand.go that carries signed ones and pays for   *)
(* them, the mirror of internal/hintreg/mirror.go that copies the tally    *)
(* into asset_demand_onchain, and the deployment's own votes and signed    *)
(* verdicts in asset_demand.                                               *)
(*                                                                         *)
(* The registry is read through a public RPC whose backends may be one     *)
(* change behind, so each read picks the latest state or the one before.   *)
(***************************************************************************)
EXTENDS Demand, Integers

CONSTANTS
  ChainOf,      \* the chain an asset key names
  RelayWindow,  \* relayWindow, in clock ticks
  FallbackGas,  \* whether a transaction is sent that the node cannot estimate
  PageSize,     \* listDemand's page
  Requests,     \* bound: relay requests served at once
  MaxTxs,       \* bound: transactions the relay sends
  Splits,       \* verdicts readers sign: [deadline, weights], one chain each
  Scenarios     \* bounds: which disturbances may happen together, how often

Disturbance ==
  {"signs", "direct",      \* votes signed, and votes that reach the contract past the relay
   "votes", "verdicts",    \* what the deployment's own routes record
   "relays",               \* requests to carry a signed vote
   "drops", "fails",       \* transactions dropped, calls failed
   "moves",                \* restarts against a new registry
   "syncs"}                \* 1: the mirror runs

Weights == {-1, 0, 1} \* 0: no row

ASSUME VotesAssumption ==
  /\ ChainOf \in [Keys -> Nat]
  /\ \A b \in Ballots : Len(b) > 0 /\ \A k, l \in ToSet(b) : ChainOf[k] = ChainOf[l]
  /\ RelayWindow \in Nat /\ PageSize \in Nat \ {0} /\ FallbackGas \in BOOLEAN
  /\ Splits \subseteq [deadline : Nat, chain : Nat, weights : [Keys -> Weights]]
  /\ Scenarios \subseteq [Disturbance -> Nat]

VARIABLES
  older,      \* what a backend that is behind still answers
  weight,     \* asset_demand: each account's row for an asset
  deadline,   \* account_verdicts: the deadline of the last split, -1 before one
  mirrored,   \* asset_demand_onchain
  mirror,     \* the mirror's pass over listDemand
  relayLast,  \* what the relay remembers: at and nonce
  requests,   \* the relay requests being served
  txs,        \* the transactions the relay sent
  crowded,    \* history: voters two of whose requests were served at once
  seen,       \* history: the nonce after the last one each voter was seen to spend
  split,      \* history: the last split each account signed
  trouble     \* how often each disturbance may happen in this behaviour, and has

contractVars == <<voted, voters, demandKeys, nonces, carried, older>>
tableVars    == <<weight, deadline, split>>
mirrorVars   == <<mirrored, mirror>>
relayVars    == <<relayLast, requests, crowded, seen>>
votesVars == <<contractVars, signed, now, tableVars, mirrorVars, relayVars, txs, trouble>>

Chains == {ChainOf[k] : k \in Keys}
ChainVoted(s) == ChainOf[Head(s.ballot)]
Never == -1

Latest == [voted |-> voted, voters |-> voters, keys |-> demandKeys, nonces |-> nonces]
Views == {Latest, older}

Disturb(kind) ==
  /\ trouble.seen[kind] < trouble.allowed[kind]
  /\ trouble' = [trouble EXCEPT !.seen[kind] = @ + 1]

-----------------------------------------------------------------------------
(* The registry's chain.                                                   *)

\* A wallet that holds gas sends its own vote.
DirectVote(v, ballot) ==
  /\ Vote(v, ballot)
  /\ older' = Latest
  /\ Disturb("direct")
  /\ UNCHANGED <<tableVars, mirrorVars, relayVars, txs>>

SignVote(s) ==
  /\ Sign(s)
  /\ Disturb("signs")
  /\ UNCHANGED <<older, tableVars, mirrorVars, relayVars, txs>>

\* Anyone may carry a signature the page handed out.
CarriedByOther(s) ==
  /\ VoteFor(s)
  /\ older' = Latest
  /\ Disturb("direct")
  /\ UNCHANGED <<tableVars, mirrorVars, relayVars, txs>>

Clock ==
  /\ Tick
  /\ UNCHANGED <<older, tableVars, mirrorVars, relayVars, txs, trouble>>

CatchUp ==
  /\ older' = Latest
  /\ UNCHANGED <<voted, voters, demandKeys, nonces, carried, signed, now, tableVars,
                 mirrorVars, relayVars, txs, trouble>>

Accepted(s, view) == now <= s.deadline /\ s.nonce = view.nonces[s.voter]

MineAccepted(t) ==
  /\ txs[t].state = "pending"
  /\ VoteFor(txs[t].sig)
  /\ older' = Latest
  /\ txs' = [txs EXCEPT ![t].state = "ok"]
  /\ UNCHANGED <<tableVars, mirrorVars, relayVars, trouble>>

MineReverted(t) ==
  /\ txs[t].state = "pending" /\ ~Accepted(txs[t].sig, Latest)
  /\ txs' = [txs EXCEPT ![t].state = "reverted"]
  /\ UNCHANGED <<contractVars, signed, now, tableVars, mirrorVars, relayVars, trouble>>

Drop(t) ==
  /\ txs[t].state = "pending"
  /\ txs' = [txs EXCEPT ![t].state = "dropped"]
  /\ Disturb("drops")
  /\ UNCHANGED <<contractVars, signed, now, tableVars, mirrorVars, relayVars>>

-----------------------------------------------------------------------------
(* The deployment's own table.                                             *)

\* Faulty variant of RecordDemand: a repeat sets the row to a vote for.
RecordDemandOverwrites(v, ballot) ==
  /\ weight' = [weight EXCEPT ![v] = [k \in Keys |-> IF k \in ToSet(ballot) THEN 1 ELSE @[k]]]
  /\ Disturb("votes")
  /\ UNCHANGED <<contractVars, signed, now, deadline, split, mirrorVars, relayVars, txs>>

\* POST /v1/demand, unsigned: a new row counts for; a repeat only touches its time.
RecordDemand(v, ballot) ==
  /\ weight' = [weight EXCEPT ![v] =
                  [k \in Keys |-> IF k \in ToSet(ballot) /\ @[k] = 0 THEN 1 ELSE @[k]]]
  /\ Disturb("votes")
  /\ UNCHANGED <<contractVars, signed, now, deadline, split, mirrorVars, relayVars, txs>>

\* ReplaceVerdicts: the account's rows on the chain become exactly the split.
ReplaceVerdicts(v, x) ==
  LET onChain(k) == ChainOf[k] = x.chain
  IN  /\ deadline[v][x.chain] < x.deadline
      /\ deadline' = [deadline EXCEPT ![v][x.chain] = x.deadline]
      /\ weight' = [weight EXCEPT ![v] = [k \in Keys |-> IF onChain(k) THEN x.weights[k] ELSE @[k]]]
      /\ split' = [split EXCEPT ![v] = [k \in Keys |-> IF onChain(k) THEN x.weights[k] ELSE @[k]]]
      /\ Disturb("verdicts")
      /\ UNCHANGED <<contractVars, signed, now, mirrorVars, relayVars, txs>>

-----------------------------------------------------------------------------
(* The mirror: Sync's syncDemand over ListDemand's pages.                  *)

MirrorIdle == [pc |-> "idle", total |-> 0, offset |-> 0, counts |-> [k \in Keys |-> 0]]

\* demandCount.
BeginSync(view) ==
  /\ mirror.pc = "idle" /\ trouble.allowed["syncs"] > 0
  /\ mirror' = [MirrorIdle EXCEPT !.pc = "page", !.total = Len(view.keys)]
  /\ UNCHANGED <<contractVars, signed, now, tableVars, mirrored, relayVars, txs, trouble>>

\* listDemand(offset, PageSize); an empty page ends the list early.
Page(view, offset) ==
  {view.keys[i] : i \in {j \in DOMAIN view.keys : offset < j /\ j <= offset + PageSize}}

ReadPage(view) ==
  LET page == Page(view, mirror.offset)
  IN  /\ mirror.pc = "page" /\ mirror.offset < mirror.total
      /\ mirror' = [mirror EXCEPT
                      !.offset = IF page = {} THEN mirror.total ELSE @ + PageSize,
                      !.counts = [k \in Keys |-> IF k \in page THEN view.voters[k] ELSE @[k]]]
      /\ UNCHANGED <<contractVars, signed, now, tableVars, mirrored, relayVars, txs, trouble>>

\* Faulty variant of Replacement: rows the registry does not list stay.
UpsertOnly(counts) == [k \in Keys |-> IF counts[k] > 0 THEN counts[k] ELSE mirrored[k]]

\* ReplaceOnchainDemand: what the registry does not list is deleted.
Replacement(counts) == counts

EndSync ==
  /\ mirror.pc = "page" /\ mirror.offset >= mirror.total
  /\ mirrored' = Replacement(mirror.counts)
  /\ mirror' = MirrorIdle
  /\ UNCHANGED <<contractVars, signed, now, tableVars, relayVars, txs, trouble>>

\* A call failed: what was mirrored stays.
SyncFails ==
  /\ mirror.pc = "page"
  /\ mirror' = MirrorIdle
  /\ Disturb("fails")
  /\ UNCHANGED <<contractVars, signed, now, tableVars, mirrored, relayVars, txs>>

-----------------------------------------------------------------------------
(* The relay: one request is a sequence of reads, a send and a wait.       *)

NoSig == [voter |-> CHOOSE v \in Voters : TRUE, ballot |-> <<>>, nonce |-> 0, deadline |-> 0]
Done == [pc |-> "idle", sig |-> NoSig, started |-> 0, tx |-> 0]
Busy(r) == requests[r].pc # "idle"

\* One step of request r: on to the next, or answered with an error.
Goes(r, ok, next) ==
  LET q == requests[r]
  IN  requests' = [requests EXCEPT ![r] =
                     IF ok THEN [pc |-> next, sig |-> q.sig, tx |-> q.tx,
                                 started |-> IF next = "send" THEN now ELSE q.started]
                     ELSE Done]

\* A request is only served outside the window of the last one sent.
WindowOpen(s) ==
  LET last == relayLast.at[s.voter][ChainVoted(s)]
  IN  last = Never \/ now - last >= RelayWindow

RelayVote(r, s) ==
  /\ ~Busy(r)
  /\ now <= s.deadline
  /\ WindowOpen(s)
  /\ requests' = [requests EXCEPT ![r] = [Done EXCEPT !.pc = "nonce", !.sig = s]]
  /\ crowded' = IF \E q \in Requests : Busy(q) /\ requests[q].sig.voter = s.voter
                THEN crowded \cup {s.voter} ELSE crowded
  /\ Disturb("relays")
  /\ UNCHANGED <<contractVars, signed, now, tableVars, mirrorVars, relayLast, seen, txs>>

\* Faulty variant of RelayNonce: whatever the backend says.
RelayNonceUnlifted(v, view) == view.nonces[v]

\* relayNonce: never below a nonce this process has seen spent.
RelayNonce(v, view) ==
  IF relayLast.nonce[v] > view.nonces[v] THEN relayLast.nonce[v] ELSE view.nonces[v]

ReadNonce(r, view) ==
  /\ requests[r].pc = "nonce"
  /\ LET s == requests[r].sig
     IN  Goes(r, s.nonce = RelayNonce(s.voter, view), "fresh")
  /\ UNCHANGED <<contractVars, signed, now, tableVars, mirrorVars, relayLast, crowded, seen,
                 txs, trouble>>

\* hasVoted for each token: a vote that would count nothing is refused.
ReadFresh(r, view) ==
  /\ requests[r].pc = "fresh"
  /\ LET s == requests[r].sig
     IN  Goes(r, \E k \in ToSet(s.ballot) : s.voter \notin view.voted[k], "simulate")
  /\ UNCHANGED <<contractVars, signed, now, tableVars, mirrorVars, relayLast, crowded, seen,
                 txs, trouble>>

\* The call as the relay would send it; one that passes starts the window.
SimulateVote(r, view) ==
  LET s == requests[r].sig
      ok == Accepted(s, view)
  IN  /\ requests[r].pc = "simulate"
      /\ Goes(r, ok, "send")
      /\ relayLast' = IF ok THEN [relayLast EXCEPT !.at[s.voter][ChainVoted(s)] = now] ELSE relayLast
      /\ UNCHANGED <<contractVars, signed, now, tableVars, mirrorVars, crowded, seen, txs, trouble>>

\* Submit: the node estimates the call, then takes the transaction.
SendVote(r, view) ==
  LET s == requests[r].sig
  IN  /\ requests[r].pc = "send" /\ Len(txs) < MaxTxs
      /\ Accepted(s, view) \/ FallbackGas
      /\ txs' = Append(txs, [sig |-> s, at |-> requests[r].started, state |-> "pending",
                             spent |-> s.nonce < seen[s.voter]])
      /\ requests' = [requests EXCEPT ![r].pc = "wait", ![r].tx = Len(txs) + 1]
      /\ UNCHANGED <<contractVars, signed, now, tableVars, mirrorVars, relayLast, crowded, seen,
                     trouble>>

\* What was not sent does not start the window.
SubmitFails(r) ==
  LET s == requests[r].sig
  IN  /\ requests[r].pc = "send"
      /\ relayLast' = [relayLast EXCEPT !.at[s.voter][ChainVoted(s)] = Never]
      /\ requests' = [requests EXCEPT ![r] = Done]
      /\ Disturb("fails")
      /\ UNCHANGED <<contractVars, signed, now, tableVars, mirrorVars, crowded, seen, txs>>

\* Wait returns a receipt: the nonce after an accepted vote is what the next must carry.
ReadReceipt(r) ==
  LET tx == txs[requests[r].tx]
      v == tx.sig.voter
      ok == tx.state = "ok"
  IN  /\ requests[r].pc = "wait" /\ tx.state \in {"ok", "reverted"}
      /\ Goes(r, ok, "agree")
      /\ relayLast' = IF ok THEN [relayLast EXCEPT !.nonce[v] = tx.sig.nonce + 1] ELSE relayLast
      /\ seen' = IF ok /\ seen[v] <= tx.sig.nonce
                 THEN [seen EXCEPT ![v] = tx.sig.nonce + 1] ELSE seen
      /\ UNCHANGED <<contractVars, signed, now, tableVars, mirrorVars, crowded, txs, trouble>>

\* The answer waits until a read agrees with the receipt.
ReadAgrees(r, view) ==
  /\ requests[r].pc = "agree"
  /\ view.nonces[requests[r].sig.voter] > requests[r].sig.nonce
  /\ requests' = [requests EXCEPT ![r] = Done]
  /\ UNCHANGED <<contractVars, signed, now, tableVars, mirrorVars, relayLast, crowded, seen,
                 txs, trouble>>

\* A read failed before the send, or relayMinedWait passed after it.
GiveUp(r) ==
  /\ requests[r].pc \notin {"idle", "send"}
  /\ requests' = [requests EXCEPT ![r] = Done]
  /\ Disturb("fails")
  /\ UNCHANGED <<contractVars, signed, now, tableVars, mirrorVars, relayLast, crowded, seen, txs>>

-----------------------------------------------------------------------------
NothingSent == [at |-> [v \in Voters |-> [c \in Chains |-> Never]], nonce |-> [v \in Voters |-> 0]]

\* The daemon restarts against a registry deployed anew: nobody has voted there, the old
\* domain's signatures are void and the relay's memory is gone; the tables stay.
MoveRegistry ==
  /\ voted' = [k \in Keys |-> {}] /\ voters' = [k \in Keys |-> 0] /\ demandKeys' = <<>>
  /\ nonces' = [v \in Voters |-> 0] /\ signed' = {} /\ carried' = [s \in {} |-> 0]
  /\ older' = [voted |-> voted', voters |-> voters', keys |-> <<>>, nonces |-> nonces']
  /\ relayLast' = NothingSent /\ requests' = [r \in Requests |-> Done] /\ txs' = <<>>
  /\ crowded' = {} /\ seen' = nonces'
  /\ mirror' = MirrorIdle
  /\ Disturb("moves")
  /\ UNCHANGED <<now, tableVars, mirrored>>

VotesInit ==
  /\ Init
  /\ older = [voted |-> voted, voters |-> voters, keys |-> demandKeys, nonces |-> nonces]
  /\ weight = [v \in Voters |-> [k \in Keys |-> 0]]
  /\ deadline = [v \in Voters |-> [c \in Chains |-> -1]]
  /\ split = weight
  /\ mirrored = [k \in Keys |-> 0] /\ mirror = MirrorIdle
  /\ relayLast = NothingSent /\ requests = [r \in Requests |-> Done] /\ txs = <<>>
  /\ crowded = {} /\ seen = nonces
  /\ \E allowed \in Scenarios :
       trouble = [allowed |-> allowed, seen |-> [d \in Disturbance |-> 0]]

RelayStep(r) ==
  \/ \E view \in Views : \/ ReadNonce(r, view) \/ ReadFresh(r, view) \/ SimulateVote(r, view)
                         \/ SendVote(r, view) \/ ReadAgrees(r, view)
  \/ SubmitFails(r)
  \/ ReadReceipt(r)
  \/ GiveUp(r)

MirrorStep == (\E view \in Views : BeginSync(view) \/ ReadPage(view)) \/ EndSync

VotesNext ==
  \/ \E v \in Voters, ballot \in Ballots : DirectVote(v, ballot) \/ RecordDemand(v, ballot)
  \/ \E s \in Signature : SignVote(s)
  \/ \E s \in signed : CarriedByOther(s)
  \/ Clock
  \/ CatchUp
  \/ \E t \in DOMAIN txs : MineAccepted(t) \/ MineReverted(t) \/ Drop(t)
  \/ \E v \in Voters, x \in Splits : ReplaceVerdicts(v, x)
  \/ MirrorStep
  \/ SyncFails
  \/ \E r \in Requests, s \in signed : RelayVote(r, s)
  \/ \E r \in Requests : RelayStep(r)
  \/ MoveRegistry

VotesSpec == VotesInit /\ [][VotesNext]_votesVars

\* The mirror's ticker keeps firing, and a backend that is behind catches up.
VotesFairSpec == VotesSpec /\ WF_votesVars(MirrorStep) /\ WF_votesVars(CatchUp)

-----------------------------------------------------------------------------
(* Properties.                                                             *)

Alone(v) == v \notin crowded

\* As long as a voter's requests do not overlap, at most one transaction is sent for the
\* voter and chain per window, whatever failed or was answered late in between.
OnePerWindow ==
  \A t, u \in DOMAIN txs :
    t < u /\ txs[t].sig.voter = txs[u].sig.voter /\ Alone(txs[t].sig.voter)
      /\ ChainVoted(txs[t].sig) = ChainVoted(txs[u].sig)
    => txs[u].at - txs[t].at >= RelayWindow

\* As long as a voter's requests do not overlap, the relay never pays for a vote whose
\* nonce it has seen spent, however far behind the backends are that it asks.
NeverResent == \A t \in DOMAIN txs : txs[t].spent => ~Alone(txs[t].sig.voter)

\* What the relay pays for: one vote per voter, chain and window, and none twice (relayVote).
RelayedOnce == OnePerWindow /\ NeverResent

\* The same without the condition: one transaction per voter, chain and window.
RelayWindowKept ==
  \A t, u \in DOMAIN txs :
    t < u /\ txs[t].sig.voter = txs[u].sig.voter
      /\ ChainVoted(txs[t].sig) = ChainVoted(txs[u].sig)
    => txs[u].at - txs[t].at >= RelayWindow

\* What a reader signed against or for a contract stands until they sign again, whatever
\* unsigned votes are recorded in their name.
VerdictStands ==
  \A v \in Voters, k \in Keys : split[v][k] # 0 => weight[v][k] = split[v][k]

\* In the end the queue counts each asset's on-chain voters, those of the registry in use
\* and no others.
MirrorFollows ==
  trouble.allowed["syncs"] > 0 => <>[](\A k \in Keys : mirrored[k] = voters[k])
=============================================================================
