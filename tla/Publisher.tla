----------------------------- MODULE Publisher ------------------------------
(***************************************************************************)
(* The commitment lifecycle of internal/hintreg/publisher.go, driven by    *)
(* the loop of cmd/evmscand and by the epochs endpoint of the API, over    *)
(* the epochs table and one funded account's transactions.  The account's  *)
(* calls are mined in nonce order, at any later time; a wait for a receipt *)
(* may give up first.                                                      *)
(*                                                                         *)
(* What an epoch commits to, index root and coverage root together, is one *)
(* number that grows with the index; coverage up to n is worth what no     *)
(* claim has been paid for yet.  The registry is the part of HintRegistry  *)
(* this account sees: ids, statuses, windows and what claims have paid.    *)
(***************************************************************************)
EXTENDS Integers, Sequences, FiniteSets, FiniteSetsExt

CONSTANT
  Scenarios     \* the registry's mode, and bounds: how far the index grows, which
                \* disturbances may happen together and how often

Disturbance ==
  {"rows",      \* epochs built
   "posts",     \* calls of the epochs endpoint
   "crashes",   \* restarts of the process
   "stale",     \* submissions that outlive StaleAfter
   "drops",     \* transactions that fall out of the mempool
   "faults",    \* sends that fail, waits for a call that give up while it is queued
   "disputes", "rivals"}  \* challenges; blocks another publisher is paid for

ASSUME PublisherAssumption ==
  Scenarios \subseteq [oracle : BOOLEAN, growth : Nat, allowed : [Disturbance -> Nat]]

Workers == {"loop", "api"}   \* the loop of cmd/evmscand, the epochs endpoint

VARIABLES
  content,   \* the index and coverage as they stand
  rows,      \* the epochs table
  txs,       \* every transaction the account has sent
  registry,  \* the on-chain epochs this account published
  allowance, \* bonds the registry may pull (oracle mode)
  paid,      \* content up to which coverage has been paid for
  worker,    \* the local state of each worker
  scenario,  \* what this behaviour's deployment is and may meet
  trouble    \* how often each disturbance has happened

vars == <<content, rows, txs, registry, allowance, paid, worker,
          scenario, trouble>>
chainVars == <<txs, registry, allowance, paid>>

RowStatus == {"built", "submitted", "published", "finalized", "rejected", "failed"}
Row == [content : Nat, status : RowStatus, ref : Nat, stale : BOOLEAN, onchain : Nat,
        claimed : BOOLEAN, reward : Nat]
Tx  == [call : {"approve", "publish", "finalize", "claim"}, arg : Nat, nonce : Nat,
        state : {"mempool", "ok", "reverted", "replaced", "dropped"},
        result : Nat]   \* the on-chain id of a publish, the wei of a claim
OnchainEpoch == [content : Nat, status : {"Proposed", "Challenged", "Finalized", "Rejected"},
                 open : BOOLEAN, verdict : {"none", "upheld", "refuted"},
                 silent : BOOLEAN]   \* disputed, and the oracle skipped its callback
Worker == [pc : {"idle", "query", "pick", "build", "bond", "publish", "send", "mark", "wait"},
           stage : {"resume", "finalize", "claim", "build"},
           todo : SUBSET Nat,      \* rows of this stage still to visit
           row : Nat,              \* the row being worked on
           call : {"approve", "publish", "finalize", "claim"}, arg : Nat, nonce : Nat,
           ref : Nat,              \* the transaction being waited for
           inFlight : BOOLEAN,     \* ResumePending left something unresolved
           building : BOOLEAN,     \* a build tick, or a settle tick
           seen : {"none", "Proposed", "Challenged"}]  \* the status FinalizeDue read

Idle == [pc |-> "idle", stage |-> "resume", todo |-> {}, row |-> 0, call |-> "publish",
         arg |-> 0, nonce |-> 0, ref |-> 0, inFlight |-> FALSE, building |-> FALSE,
         seen |-> "none"]

RowsWith(status) == {r \in DOMAIN rows : rows[r].status = status}

Init ==
  /\ content = 0
  /\ rows = << >>
  /\ txs = << >>
  /\ registry = << >>
  /\ allowance = 0
  /\ paid = 0
  /\ worker = [w \in Workers |-> Idle]
  /\ scenario \in Scenarios
  /\ trouble = [d \in Disturbance |-> 0]

Seen(kind) == trouble[kind]
Allowed(kind) == Seen(kind) < scenario.allowed[kind]

\* A disturbance happens, as often as the scenario allows.
Disturb(kind) ==
  /\ Allowed(kind)
  /\ trouble' = [trouble EXCEPT ![kind] = @ + 1]

\* The registry adjudicates at an oracle, not with an arbiter.
OracleMode == scenario.oracle

-----------------------------------------------------------------------------
(* The chain.                                                              *)

Undecided(i) == registry[i].status \in {"Proposed", "Challenged"}

\* Disputed, whether or not the registry was told.
Disputed(i) == registry[i].status = "Challenged" \/ (registry[i].silent /\ Undecided(i))

\* finalizeIndex would succeed: see HintRegistry!FinalizeIndex.
Finalizable(i) ==
  \/ registry[i].status = "Proposed" /\ ~Disputed(i) /\ ~registry[i].open
  \/ OracleMode /\ Disputed(i) /\ registry[i].verdict # "none"

Settled(i) ==
  [registry EXCEPT ![i].status =
     IF registry[i].verdict = "refuted" THEN "Rejected" ELSE "Finalized"]

\* claimable: the blocks of the coverage nobody was paid for.
Claimable(n) == IF n > paid THEN n - paid ELSE 0

CanPublish == OracleMode => allowance > 0

\* One transaction is mined, in nonce order; a call whose checks fail is mined reverted.
MineTx(t) ==
  LET tx == txs[t]
      Mined(state, result) == txs' = [txs EXCEPT ![t].state = state, ![t].result = result]
      MinedOk(result) == Mined("ok", result)
  IN  /\ tx.state = "mempool"
      /\ \A u \in DOMAIN txs : txs[u].state = "mempool" => txs[u].nonce >= tx.nonce
      /\ \/ /\ tx.call = "approve"
            /\ MinedOk(0)
            /\ allowance' = 1
            /\ UNCHANGED <<registry, paid>>
         \/ /\ tx.call = "publish" /\ CanPublish
            /\ MinedOk(Len(registry) + 1)
            /\ registry' = Append(registry, [content |-> tx.arg, status |-> "Proposed",
                                             open |-> TRUE, verdict |-> "none",
                                             silent |-> FALSE])
            /\ allowance' = 0
            /\ UNCHANGED paid
         \/ /\ tx.call = "finalize" /\ Finalizable(tx.arg)
            /\ MinedOk(0)
            /\ registry' = Settled(tx.arg)
            /\ UNCHANGED <<allowance, paid>>
         \/ /\ tx.call = "claim" /\ registry[tx.arg].status = "Finalized"
            /\ MinedOk(Claimable(registry[tx.arg].content))
            /\ paid' = paid + Claimable(registry[tx.arg].content)
            /\ UNCHANGED <<registry, allowance>>
         \/ /\ \/ tx.call = "publish" /\ ~CanPublish
               \/ tx.call = "finalize" /\ ~Finalizable(tx.arg)
            /\ Mined("reverted", 0)
            /\ UNCHANGED <<registry, allowance, paid>>
      /\ UNCHANGED <<content, rows, worker, trouble>>

\* The newest queued transaction falls out of the mempool; its nonce is free again.
DropTx(t) ==
  /\ txs[t].state = "mempool"
  /\ \A u \in DOMAIN txs : txs[u].state = "mempool" => txs[u].nonce <= txs[t].nonce
  /\ \A w \in Workers : worker[w].pc # "send"
  /\ txs' = [txs EXCEPT ![t].state = "dropped"]
  /\ Disturb("drops")
  /\ UNCHANGED <<content, rows, registry, allowance, paid, worker>>

CloseWindow(i) ==
  /\ registry[i].open
  /\ registry' = [registry EXCEPT ![i].open = FALSE]
  /\ UNCHANGED <<content, rows, txs, allowance, paid, worker, trouble>>

\* challengeIndex, or a dispute at the oracle, whose callback to the registry may be skipped.
Dispute(i, silent) ==
  /\ registry[i].open /\ registry[i].status = "Proposed" /\ ~Disputed(i)
  /\ silent => OracleMode
  /\ registry' = [registry EXCEPT ![i].status = IF silent THEN @ ELSE "Challenged",
                                 ![i].silent = silent]
  /\ Disturb("disputes")
  /\ UNCHANGED <<content, rows, txs, allowance, paid, worker>>

\* The arbiter resolves a challenge; the oracle's voters only record their verdict.
Judge(i, verdict) ==
  /\ Disputed(i) /\ registry[i].verdict = "none"
  /\ registry' = [registry EXCEPT ![i].verdict = verdict,
                    ![i].status = IF OracleMode THEN @
                                  ELSE IF verdict = "upheld" THEN "Finalized" ELSE "Rejected"]
  /\ UNCHANGED <<content, rows, txs, allowance, paid, worker, trouble>>

\* Anyone may finalize what is due.
FinalizeByOther(i) ==
  /\ Finalizable(i)
  /\ registry' = Settled(i)
  /\ UNCHANGED <<content, rows, txs, allowance, paid, worker, trouble>>

\* Another publisher is paid for the same blocks first.
ClaimByOther ==
  /\ paid < content
  /\ paid' = paid + 1
  /\ Disturb("rivals")
  /\ UNCHANGED <<content, rows, txs, registry, allowance, worker>>

\* The indexer folded or covered something new.
IndexGrows ==
  /\ content < scenario.growth
  /\ content' = content + 1
  /\ UNCHANGED <<rows, chainVars, worker, trouble>>

-----------------------------------------------------------------------------
(* The worker's local state after each kind of step.                       *)

\* The queries of ResumePending, FinalizeDue and ClaimDue.
StageRows(stage) ==
  CASE stage = "resume"   -> RowsWith("submitted")
    [] stage = "finalize" -> RowsWith("published")
    [] stage = "claim"    -> {r \in RowsWith("finalized") : ~rows[r].claimed}

\* settleTick, then buildTick: an error ends its stage only, and only a tick with
\* nothing in flight builds.
NextStage(st) ==
  CASE st.stage = "resume"   -> [st EXCEPT !.stage = "finalize", !.pc = "query"]
    [] st.stage = "finalize" -> [st EXCEPT !.stage = "claim", !.pc = "query"]
    [] st.stage = "claim" /\ st.building /\ ~st.inFlight
                             -> [st EXCEPT !.stage = "build", !.pc = "build"]
    [] OTHER                 -> Idle

RowDone(st) == IF st.stage = "build" THEN Idle
               ELSE [st EXCEPT !.pc = "pick", !.todo = @ \ {st.row}]

\* settle returned an error: ResumePending counts the row and goes on.
Unresolved(st) == IF st.stage = "resume" THEN [RowDone(st) EXCEPT !.inFlight = TRUE] ELSE Idle

\* Submit or Wait returned an error outside ResumePending.
StageFails(st) == NextStage(st)

\* Faulty variant of PendingNonce: the nonce of the latest block.
MinedNonce == Cardinality({t \in DOMAIN txs : txs[t].state \in {"ok", "reverted"}})

\* PendingNonceAt: everything mined or queued counts.
PendingNonce == Cardinality({t \in DOMAIN txs : txs[t].state \in {"mempool", "ok", "reverted"}})

\* signedTx: the nonce is read here, and the transaction sent in a later step.
Prepare(st, row, call, arg) ==
  [st EXCEPT !.pc = "send", !.row = row, !.call = call, !.arg = arg, !.nonce = PendingNonce]

To(w, st) == worker' = [worker EXCEPT ![w] = st]

-----------------------------------------------------------------------------
(* settleTick and buildTick, one call of the store or the chain at a time. *)

\* The mutex makes the loop's two tickers one worker.
BeginTick(w, building) ==
  /\ w = "loop" /\ worker[w].pc = "idle"
  /\ To(w, [Idle EXCEPT !.pc = "query", !.building = building])
  /\ UNCHANGED <<content, rows, chainVars, trouble>>

Query(w) ==
  /\ worker[w].pc = "query"
  /\ To(w, [worker[w] EXCEPT !.todo = StageRows(worker[w].stage), !.pc = "pick"])
  /\ UNCHANGED <<content, rows, chainVars, trouble>>

EndStage(w) ==
  /\ worker[w].pc = "pick" /\ worker[w].todo = {}
  /\ To(w, NextStage(worker[w]))
  /\ UNCHANGED <<content, rows, chainVars, trouble>>

Picked(w, stage) == worker[w].pc = "pick" /\ worker[w].stage = stage /\ worker[w].todo # {}

\* Oldest first.
PickedRow(w) == Min(worker[w].todo)
AtRow(w) == [worker[w] EXCEPT !.row = PickedRow(w)]

ResumeRow(w) ==
  LET r == PickedRow(w)
  IN  /\ Picked(w, "resume")
      /\ IF rows[r].stale
           THEN /\ rows' = [rows EXCEPT ![r].status = "failed"]
                /\ To(w, RowDone(AtRow(w)))
           ELSE /\ To(w, [AtRow(w) EXCEPT !.pc = "wait", !.call = "publish", !.ref = rows[r].ref])
                /\ UNCHANGED rows
      /\ UNCHANGED <<content, chainVars, trouble>>

\* A decision taken without us.
Mirrored(status) == IF status = "Finalized" THEN "finalized" ELSE "rejected"

\* A commitment seen unchallenged waits for the registry's own deadline; the simulation
\* stands for the rest.
FinalizeRow(w) ==
  LET r == PickedRow(w)
      i == rows[r].onchain
      due == Finalizable(i) /\ (registry[i].status = "Proposed" => ~registry[i].open)
  IN  /\ Picked(w, "finalize")
      /\ \/ /\ ~Undecided(i)
            /\ rows' = [rows EXCEPT ![r].status = Mirrored(registry[i].status)]
            /\ To(w, RowDone(AtRow(w)))
         \/ /\ Undecided(i) /\ ~due
            /\ To(w, RowDone(AtRow(w)))
            /\ UNCHANGED rows
         \/ /\ due
            /\ To(w, Prepare([worker[w] EXCEPT !.seen = registry[i].status], r, "finalize", i))
            /\ UNCHANGED rows
      /\ UNCHANGED <<content, chainVars, trouble>>

MarkClaimed(r, reward) == [rows EXCEPT ![r].claimed = TRUE, ![r].reward = reward]

ClaimRow(w) ==
  LET r == PickedRow(w)
      i == rows[r].onchain
  IN  /\ Picked(w, "claim")
      /\ \/ /\ Claimable(rows[r].content) = 0
            /\ rows' = MarkClaimed(r, 0)
            /\ To(w, RowDone(AtRow(w)))
         \/ /\ Claimable(rows[r].content) > 0
            /\ To(w, IF registry[i].status = "Finalized" THEN Prepare(worker[w], r, "claim", i)
                      ELSE StageFails(worker[w]))
            /\ UNCHANGED rows
      /\ UNCHANGED <<content, chainVars, trouble>>

\* Faulty variant of Committed: a finalized commitment no longer counts.
CommittedPending == {r \in DOMAIN rows : rows[r].status \in {"submitted", "published"}}

\* LatestCommittedRoots: the newest row on the chain or on its way there.
Committed == {r \in DOMAIN rows : rows[r].status \in {"submitted", "published", "finalized"}}

Unchanged == Committed # {} /\ rows[Max(Committed)].content = content

\* Build refuses an empty index and, unless forced, an unchanged one; CreateEpoch adds the row.
Builds(force) == content > 0 /\ (~force => ~Unchanged) /\ Allowed("rows")
NewRow == [content |-> content, status |-> "built", ref |-> 0, stale |-> FALSE, onchain |-> 0,
           claimed |-> FALSE, reward |-> 0]
Publishing == [Idle EXCEPT !.stage = "build", !.pc = "bond", !.row = Len(rows) + 1]

\* buildTick: an epoch that is built is published.
Build(w) ==
  /\ w = "loop" /\ worker[w].pc = "build"
  /\ IF Builds(FALSE)
       THEN rows' = Append(rows, NewRow) /\ To(w, Publishing) /\ Disturb("rows")
       ELSE To(w, Idle) /\ UNCHANGED <<rows, trouble>>
  /\ UNCHANGED <<content, chainVars>>

\* createEpoch: the endpoint builds without looking at what is in flight, may force an
\* unchanged epoch, and may leave it unpublished.  What Build refuses, it answers with an error.
CreateEpoch(w, force, publish) ==
  /\ w = "api" /\ worker[w].pc = "idle" /\ Allowed("posts")
  /\ Builds(force)
  /\ rows' = Append(rows, NewRow)
  /\ To(w, IF publish THEN Publishing ELSE Idle)
  /\ trouble' = [trouble EXCEPT !["rows"] = @ + 1, !["posts"] = @ + 1]
  /\ UNCHANGED <<content, chainVars>>

\* ensureBondAllowance.
Bond(w) ==
  /\ worker[w].pc = "bond"
  /\ To(w, IF CanPublish THEN [worker[w] EXCEPT !.pc = "publish"]
            ELSE Prepare(worker[w], worker[w].row, "approve", 0))
  /\ UNCHANGED <<content, rows, chainVars, trouble>>

\* Publish's Submit: the gas estimate fails where the call would.
Publish(w) ==
  /\ worker[w].pc = "publish"
  /\ To(w, IF CanPublish
             THEN Prepare(worker[w], worker[w].row, "publish", rows[worker[w].row].content)
             ELSE Idle)
  /\ UNCHANGED <<content, rows, chainVars, trouble>>

\* SendTransaction.  A nonce that is taken by now is refused, or takes the place of the
\* transaction still queued under it.
Send(w) ==
  LET st == worker[w]
      taken == {t \in DOMAIN txs : txs[t].nonce = st.nonce
                                     /\ txs[t].state \in {"mempool", "ok", "reverted"}}
      tx == [call |-> st.call, arg |-> st.arg, nonce |-> st.nonce, state |-> "mempool",
             result |-> 0]
      Sent(old) ==
        /\ txs' = Append([t \in DOMAIN txs |-> IF t \in old THEN [txs[t] EXCEPT !.state = "replaced"]
                                               ELSE txs[t]], tx)
        /\ To(w, [st EXCEPT !.ref = Len(txs) + 1,
                           !.pc = IF st.call = "publish" THEN "mark" ELSE "wait"])
  IN  /\ st.pc = "send"
      /\ \/ (\A t \in taken : txs[t].state = "mempool") /\ Sent(taken)
         \/ taken # {} /\ To(w, StageFails(st)) /\ UNCHANGED txs
      /\ UNCHANGED <<content, rows, registry, allowance, paid, trouble>>

SubmitFails(w) ==
  /\ worker[w].pc = "send"
  /\ To(w, StageFails(worker[w]))
  /\ Disturb("faults")
  /\ UNCHANGED <<content, rows, chainVars>>

MarkSubmitted(w) ==
  /\ worker[w].pc = "mark"
  /\ rows' = [rows EXCEPT ![worker[w].row].status = "submitted", ![worker[w].row].ref = worker[w].ref]
  /\ To(w, [worker[w] EXCEPT !.pc = "wait"])
  /\ UNCHANGED <<content, chainVars, trouble>>

\* Faulty variant of Verdict: a finalizeIndex that went through is a finalization.
VerdictAssumed(st) == "finalized"

\* The status FinalizeDue writes: the verdict is read back where it saw a challenge.
Verdict(st) == IF st.seen = "Challenged" /\ registry[st.arg].status = "Rejected"
               THEN "rejected" ELSE "finalized"

\* epochIDFromReceipt.
ReceiptId(t) == txs[t].result

\* rewardFromReceipt.
ReceiptReward(t) == txs[t].result

\* Wait returned a receipt, and what the caller does with it.
Receipt(w) ==
  LET st == worker[w]
      tx == txs[st.ref]
      Update(row, next) == rows' = [rows EXCEPT ![st.row] = row] /\ To(w, next)
      row == rows[st.row]
  IN  /\ st.pc = "wait" /\ tx.state \in {"ok", "reverted"}
      /\ \/ /\ st.call = "approve"
            /\ Update(row, [st EXCEPT !.pc = "publish"])
         \/ /\ st.call = "publish" /\ tx.state = "ok"
            /\ Update([row EXCEPT !.status = "published", !.onchain = ReceiptId(st.ref)], RowDone(st))
         \/ /\ st.call = "publish" /\ tx.state = "reverted"
            /\ Update([row EXCEPT !.status = "failed"], Unresolved(st))
         \/ /\ st.call = "finalize" /\ tx.state = "ok"
            /\ Update([row EXCEPT !.status = Verdict(st)], RowDone(st))
         \/ /\ st.call = "claim" /\ tx.state = "ok"
            /\ rows' = MarkClaimed(st.row, ReceiptReward(st.ref))
            /\ To(w, RowDone(st))
         \/ /\ st.call \in {"finalize", "claim"} /\ tx.state = "reverted"
            /\ Update(row, RowDone(st))
      /\ UNCHANGED <<content, chainVars, trouble>>

\* Faulty variant of GiveUp: a submission nobody waited out is marked failed.
GiveUpAsFailed(w) ==
  LET st == worker[w]
  IN  /\ st.pc = "wait" /\ txs[st.ref].state \in {"mempool", "replaced", "dropped"}
      /\ rows' = IF st.call = "publish" THEN [rows EXCEPT ![st.row].status = "failed"] ELSE rows
      /\ To(w, IF st.call = "publish" THEN Unresolved(st) ELSE StageFails(st))
      /\ UNCHANGED <<content, chainVars, trouble>>

\* Wait gave up: the deadline passed, or the endpoint's client went away.  Giving up
\* on what cannot be mined, or without consequence for what is sent next, is free.
GiveUp(w) ==
  LET st == worker[w]
      free == st.call = "publish" \/ txs[st.ref].state # "mempool"
  IN  /\ st.pc = "wait" /\ txs[st.ref].state \in {"mempool", "replaced", "dropped"}
      /\ To(w, IF st.call = "publish" THEN Unresolved(st) ELSE StageFails(st))
      /\ IF free THEN UNCHANGED trouble ELSE Disturb("faults")
      /\ UNCHANGED <<content, rows, chainVars>>

\* The process stops and starts again: the table and the chain are all that is left.
Crash ==
  /\ worker' = [w \in Workers |-> Idle]
  /\ Disturb("crashes")
  /\ UNCHANGED <<content, rows, chainVars>>

\* StaleAfter has passed since submitted_at.
Age(r) ==
  /\ rows[r].status = "submitted" /\ ~rows[r].stale
  /\ rows' = [rows EXCEPT ![r].stale = TRUE]
  /\ Disturb("stale")
  /\ UNCHANGED <<content, chainVars, worker>>

-----------------------------------------------------------------------------
Step(w) ==
  \/ \E b \in BOOLEAN : BeginTick(w, b)
  \/ Query(w) \/ EndStage(w) \/ ResumeRow(w) \/ FinalizeRow(w) \/ ClaimRow(w)
  \/ Build(w) \/ \E force, publish \in BOOLEAN : CreateEpoch(w, force, publish)
  \/ Bond(w) \/ Publish(w) \/ Send(w) \/ SubmitFails(w) \/ MarkSubmitted(w)
  \/ Receipt(w) \/ GiveUp(w)

Chain ==
  \/ \E t \in DOMAIN txs : MineTx(t) \/ DropTx(t)
  \/ \E i \in DOMAIN registry : \/ CloseWindow(i) \/ FinalizeByOther(i)
                               \/ \E silent \in BOOLEAN : Dispute(i, silent)
                               \/ \E v \in {"upheld", "refuted"} : Judge(i, v)
  \/ ClaimByOther

Next ==
  /\ \/ \E w \in Workers : Step(w)
     \/ Chain
     \/ IndexGrows
     \/ Crash
     \/ \E r \in DOMAIN rows : Age(r)
  /\ UNCHANGED scenario

Spec == Init /\ [][Next]_vars

\* What a worker does from one call to the next, short of giving up.
Runs(w) ==
  \/ Query(w) \/ EndStage(w) \/ ResumeRow(w) \/ FinalizeRow(w) \/ ClaimRow(w) \/ Build(w)
  \/ Bond(w) \/ Publish(w) \/ Send(w) \/ MarkSubmitted(w) \/ Receipt(w)
  \/ worker[w].pc = "wait" /\ txs[worker[w].ref].state # "mempool" /\ GiveUp(w)

\* The build ticker keeps firing, and a tick or a request that has begun runs to its end;
\* the chain mines, time passes and a challenge is judged.  Nobody else has to finalize,
\* and nothing has to go wrong.
Fairness ==
  /\ WF_vars(BeginTick("loop", TRUE) /\ UNCHANGED scenario)
  /\ \A w \in Workers : WF_vars(Runs(w) /\ UNCHANGED scenario)
  /\ WF_vars((\E t \in DOMAIN txs : MineTx(t)) /\ UNCHANGED scenario)
  /\ WF_vars((\E i \in DOMAIN registry :
                CloseWindow(i) \/ \E v \in {"upheld", "refuted"} : Judge(i, v))
              /\ UNCHANGED scenario)

FairSpec == Spec /\ Fairness

-----------------------------------------------------------------------------
(* Properties.                                                             *)

\* Every variable has its type.
TypeOK ==
  /\ content \in 0..scenario.growth
  /\ rows \in Seq(Row)
  /\ txs \in Seq(Tx)
  /\ registry \in Seq(OnchainEpoch)
  /\ allowance \in {0, 1}
  /\ paid \in 0..scenario.growth
  /\ worker \in [Workers -> Worker]
  /\ scenario \in Scenarios
  /\ trouble \in [Disturbance -> Nat]

\* A row's on-chain id names the commitment that row was built for, whatever was mined
\* between its sending and the reading of its receipt: no two rows share an id.
OnchainIdentity ==
  \A r \in DOMAIN rows : rows[r].onchain # 0 =>
    /\ registry[rows[r].onchain].content = rows[r].content
    /\ \A q \in DOMAIN rows : rows[q].onchain = rows[r].onchain => q = r

\* A row called finalized or rejected was decided so on-chain (FinalizeDue): a rejected
\* commitment is never served as final, unless the registry never heard of its dispute.
LocalVerdict ==
  \A r \in DOMAIN rows :
    /\ rows[r].status = "finalized" /\ ~registry[rows[r].onchain].silent =>
         registry[rows[r].onchain].status = "Finalized"
    /\ rows[r].status = "rejected"  => registry[rows[r].onchain].status = "Rejected"

\* Every bond this account has posted is followed by a row that will settle it, or by
\* the worker about to record it (Publish, ResumePending), unless the process died
\* before it recorded the submission, or wrote a submission off for its age.
EveryBondTracked ==
  Seen("crashes") = 0 /\ Seen("stale") = 0 =>
    \A t \in DOMAIN txs : txs[t].call = "publish" /\ txs[t].state = "ok" =>
      \/ \E r \in DOMAIN rows : rows[r].ref = t /\ rows[r].status # "failed"
      \/ \E w \in Workers : worker[w].pc = "mark" /\ worker[w].ref = t

\* Two standing commitments never say the same thing: a bond of the loop's buys
\* something new, through failed, dropped and rejected submissions, as long as every
\* bond is tracked (LatestCommittedRoots).  The endpoint may force a repetition.
OneBondPerContent ==
  Seen("posts") = 0 /\ Seen("crashes") = 0 /\ Seen("stale") = 0 =>
    \A i, j \in DOMAIN registry :
      i # j /\ registry[i].content = registry[j].content =>
        registry[i].status = "Rejected" \/ registry[j].status = "Rejected"

\* Every bond is followed to its end and buys something new.
BondsAccounted == EveryBondTracked /\ OneBondPerContent

Replaced == {t \in DOMAIN txs : txs[t].state = "replaced"}

\* The loop never competes with itself for a nonce, whatever was dropped, abandoned or
\* left queued by a process that died (publisherLoop, signedTx).
LoopKeepsNonces == Seen("posts") = 0 => Replaced = {}

\* "they take turns rather than overlap": none of the account's transactions is replaced
\* by another of its own (publisherLoop).
NoSelfReplacement == Replaced = {}

\* The claims that were mined for a commitment.
Payments(i) == {t \in DOMAIN txs : txs[t].call = "claim" /\ txs[t].arg = i /\ txs[t].state = "ok"}

\* What a claimed row records is what its commitment was paid, and that was paid at most
\* once, rivals and third-party finalizations notwithstanding, unless a claim was left
\* queued (ClaimDue, MarkClaimed).
ClaimRecorded ==
  Seen("faults") = 0 /\ Seen("crashes") = 0 =>
    \A r \in DOMAIN rows : rows[r].claimed =>
      LET payments == Payments(rows[r].onchain)
      IN  IF payments = {} THEN rows[r].reward = 0
          ELSE \E t \in payments : payments = {t} /\ rows[r].reward = txs[t].result

\* The epochs table tells the truth about the chain: a row's on-chain id, its verdict and
\* the reward it records, whoever else sends, finalizes or claims in between.
RowsTruthful == LocalVerdict /\ OnchainIdentity /\ ClaimRecorded

\* Every commitment posted is eventually decided, which is what returns its bond, and
\* the coverage of every finalized one is eventually paid for: whatever disturbed it, the
\* account comes to rest with nothing outstanding, unless a submission was left unrecorded
\* by a crash or written off for its age, or a commitment was refuted in a dispute the
\* registry was not told of: its row stands for final, and the claim it can never have stops
\* the claims behind it (settleTick, createEpoch).
EverythingSettled ==
  []<>(/\ Seen("crashes") = 0 /\ Seen("stale") = 0
       /\ \A i \in DOMAIN registry : registry[i].silent => registry[i].verdict # "refuted"
       =>
       \A i \in DOMAIN registry :
         ~Undecided(i) /\ (registry[i].status = "Finalized" => paid >= registry[i].content))
=============================================================================
