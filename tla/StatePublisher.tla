--------------------------- MODULE StatePublisher ---------------------------
(***************************************************************************)
(* internal/statepub: daemons that share a database write the root of all  *)
(* accounts' states into an ENS text record.  A tick holds a session lock; *)
(* its transaction is stored before it is sent and the stored one is sent  *)
(* again until a receipt is Depth blocks deep.                             *)
(*                                                                         *)
(* A root is the table it commits to.  Of a block only the key's           *)
(* transactions are kept, one at most; its hash is its height and the fork *)
(* it is on.  The gas and fee limits of a tick only make it fail, which    *)
(* AbortTick does.                                                         *)
(***************************************************************************)
EXTENDS UserState, Sequences, SequencesExt

CONSTANTS
  Daemons,
  Depth     \* blocks on top of a receipt before it counts (12)

ASSUME StatePublisherAssumption == Depth \in Nat \ {0} /\ None \notin Daemons

VARIABLES
  jobs,          \* user_state_publications by id
  locked,        \* who holds the advisory lock
  daemon,        \* each tick's local state
  chain,         \* the resolver's chain
  peak,          \* the greatest height it has had
  forks,         \* forks seen so far, which tell block hashes apart
  pool           \* the node's pending transactions

pubVars == <<jobs, locked, daemon>>
nodeVars == <<chain, peak, forks, pool>>
allVars == <<stateVars, trouble, pubVars, nodeVars>>

Doing(pc, build, job) ==
  [pc |-> pc, build |-> build, root |-> None, nonce |-> 0, job |-> job, block |-> None, head |-> 0]

Idle == Doing("idle", FALSE, 0)

-----------------------------------------------------------------------------
(* The resolver's chain.                                                   *)

\* TransactionReceipt finds one, and the block it is of.
Mined(tx) == \E h \in DOMAIN chain : tx \in chain[h].txs
HeightOf(tx) == CHOOSE h \in DOMAIN chain : tx \in chain[h].txs
Receipt(tx) == [height |-> HeightOf(tx), block |-> chain[HeightOf(tx)]]

NextNonce == Cardinality({h \in DOMAIN chain : chain[h].txs # {}})

\* PendingNonceAt counts what is queued behind the mined ones.
PendingNonce ==
  LET Queued(n) == \A m \in NextNonce .. n - 1 : \E t \in pool : t.nonce = m
  IN  Max({n \in NextNonce .. NextNonce + Cardinality(pool) : Queued(n)})

\* ReadRecord: the last successful write.
Record ==
  LET writes == {h \in DOMAIN chain : chain[h].ok /\ \E t \in chain[h].txs : t.root # None}
  IN  IF writes = {} THEN None ELSE (CHOOSE t \in chain[Max(writes)].txs : TRUE).root

\* Empty blocks are added only while one of the key's transactions is not yet buried:
\* more of them would change no answer.
Buried == \A h \in DOMAIN chain : chain[h].txs # {} => Len(chain) - h >= Depth

Extend(txs, ok) ==
  /\ chain' = Append(chain, [txs |-> txs, ok |-> ok, fork |-> forks])
  /\ peak' = IF Len(chain) < peak THEN peak ELSE Len(chain) + 1

MineEmpty ==
  /\ ~Buried
  /\ Extend({}, TRUE)
  /\ UNCHANGED <<stateVars, trouble, pubVars, forks, pool>>

MineTx(tx, ok) ==
  /\ tx.nonce = NextNonce
  /\ Extend({tx}, ok)
  /\ pool' = pool \ {tx}
  /\ IF ok THEN UNCHANGED trouble ELSE Disturb("reverts")
  /\ UNCHANGED <<stateVars, pubVars, forks>>

\* The last n blocks go; their transactions are queued again.  How deep a reorg is counts
\* from the greatest height that was seen.
Reorg(n) ==
  LET kept == Len(chain) - n
  IN  /\ n \in 1 .. Len(chain)
      /\ chain' = SubSeq(chain, 1, kept)
      /\ pool' = pool \cup UNION {chain[h].txs : h \in kept + 1 .. Len(chain)}
      /\ forks' = forks + 1
      /\ Disturb(IF peak - kept <= Depth THEN "reorgs" ELSE "deep")
      /\ UNCHANGED <<stateVars, pubVars, peak>>

\* The pool evicts a transaction.
DropTx(tx) ==
  /\ pool' = pool \ {tx}
  /\ Disturb("dropped")
  /\ UNCHANGED <<stateVars, pubVars, chain, peak, forks>>

\* The key is used elsewhere: the next nonce goes to another transaction.
ForeignTx ==
  /\ Extend({[nonce |-> NextNonce, root |-> None]}, TRUE)
  /\ pool' = {t \in pool : t.nonce # NextNonce}
  /\ Disturb("foreign")
  /\ UNCHANGED <<stateVars, pubVars, forks>>

-----------------------------------------------------------------------------
(* Tick.                                                                   *)

At(p, pc) == daemon[p].pc = pc

\* The tick returns and its lock goes.
End(p) ==
  /\ daemon' = [daemon EXCEPT ![p] = Idle]
  /\ locked' = None

Go(p, d) ==
  /\ daemon' = [daemon EXCEPT ![p] = d]
  /\ locked' = p

Mark(p, status) == jobs' = [jobs EXCEPT ![daemon[p].job].status = status]

Job(p) == jobs[daemon[p].job]

\* HeaderHash: an error when the chain no longer reaches the receipt's height.
Answered(p) == daemon[p].block.height \in DOMAIN chain

\* The receipt read earlier is still of a canonical block.
Canonical(p) == Answered(p) /\ chain[daemon[p].block.height] = daemon[p].block.block

\* pg_try_advisory_lock and StatePublications: a pending job is settled before anything
\* else, and the newest job is looked at again if it is confirmed.
StartTick(p, build) ==
  LET pending == {j \in DOMAIN jobs : jobs[j].status = "pending"}
      n == Len(jobs)
  IN  /\ trouble.allowed["ticks"] > 0
      /\ At(p, "idle")
      /\ locked = None
      /\ IF pending # {} THEN Go(p, Doing("settle", build, Max(pending)))
         ELSE IF n > 0 /\ jobs[n].status = "confirmed" THEN Go(p, Doing("recheck", build, n))
         ELSE build /\ Go(p, Doing("build", build, 0))
      /\ UNCHANGED <<stateVars, trouble, jobs, nodeVars>>

\* A confirmed job without a receipt is pending again.
RecheckReceipt(p) ==
  LET tx == Job(p).tx
  IN  /\ At(p, "recheck")
      /\ \/ ~Mined(tx) /\ Mark(p, "pending") /\ End(p)
         \/ Mined(tx) /\ Go(p, [daemon[p] EXCEPT !.pc = "header", !.block = Receipt(tx)]) /\ UNCHANGED jobs
      /\ UNCHANGED <<stateVars, trouble, nodeVars>>

\* Another block at its height makes it pending, too; without an answer the tick fails.
RecheckHeader(p) ==
  /\ At(p, "header")
  /\ \/ ~Answered(p) /\ End(p) /\ UNCHANGED jobs
     \/ Answered(p) /\ ~Canonical(p) /\ Mark(p, "pending") /\ End(p)
     \/ Canonical(p) /\ daemon[p].build /\ Go(p, [daemon[p] EXCEPT !.pc = "build"]) /\ UNCHANGED jobs
     \/ Canonical(p) /\ ~daemon[p].build /\ End(p) /\ UNCHANGED jobs
  /\ UNCHANGED <<stateVars, trouble, nodeVars>>

\* Without accounts there is nothing to publish.
BuildForRecord(p) ==
  /\ At(p, "build")
  /\ BuildStateCheckpoint
  /\ IF DOMAIN CurrentRoot = {} THEN End(p)
     ELSE Go(p, [daemon[p] EXCEPT !.pc = "record", !.root = CurrentRoot])
  /\ UNCHANGED <<now, heads, revisions, demand, floors, commits, view, spent, replayed,
                 trouble, jobs, nodeVars>>

ReadRecord(p) ==
  /\ At(p, "record")
  /\ IF Record = daemon[p].root THEN End(p) ELSE Go(p, [daemon[p] EXCEPT !.pc = "sign"])
  /\ UNCHANGED <<stateVars, trouble, jobs, nodeVars>>

\* PendingNonceAt and the signature.
SignTx(p) ==
  /\ At(p, "sign")
  /\ Go(p, [daemon[p] EXCEPT !.pc = "save", !.nonce = PendingNonce])
  /\ UNCHANGED <<stateVars, trouble, jobs, nodeVars>>

\* SaveStatePublication; a unique index admits one pending job, another is an error.
SaveJob(p) ==
  LET tx == [nonce |-> daemon[p].nonce, root |-> daemon[p].root]
  IN  /\ At(p, "save")
      /\ IF \E j \in DOMAIN jobs : jobs[j].status = "pending"
         THEN End(p) /\ UNCHANGED jobs
         ELSE /\ jobs' = Append(jobs, [tx |-> tx, status |-> "pending"])
              /\ Go(p, [daemon[p] EXCEPT !.pc = "settle", !.job = Len(jobs) + 1])
      /\ UNCHANGED <<stateVars, trouble, nodeVars>>

\* settle without a receipt: the stored transaction is sent again.  The node refuses a
\* used nonce, and a second transaction for a queued one.
Resend(p) ==
  LET tx == Job(p).tx
      accepted == tx.nonce >= NextNonce /\ \A t \in pool : t.nonce = tx.nonce => t = tx
  IN  /\ At(p, "settle")
      /\ ~Mined(tx)
      /\ pool' = IF accepted THEN pool \cup {tx} ELSE pool
      /\ End(p)
      /\ UNCHANGED <<stateVars, trouble, jobs, chain, peak, forks>>

ReadReceipt(p) ==
  /\ At(p, "settle")
  /\ Mined(Job(p).tx)
  /\ Go(p, [daemon[p] EXCEPT !.pc = "head", !.block = Receipt(Job(p).tx)])
  /\ UNCHANGED <<stateVars, trouble, jobs, nodeVars>>

\* settle with a receipt: the head is read, then the header at the receipt's height ...
HeadBlock(p) ==
  /\ At(p, "head")
  /\ Go(p, [daemon[p] EXCEPT !.pc = "depth", !.head = Len(chain)])
  /\ UNCHANGED <<stateVars, trouble, jobs, nodeVars>>

\* The receipt is still canonical and has n blocks on top of it.
Deep(p, n) == Canonical(p) /\ daemon[p].head - daemon[p].block.height >= n

\* Faulty variant of CheckDepth: one block less than Depth will do.
CheckDepthOneLess(p) ==
  LET deep == Deep(p, Depth - 1)
  IN  /\ At(p, "depth")
      /\ \/ ~deep /\ End(p) /\ UNCHANGED jobs
         \/ deep /\ ~daemon[p].block.block.ok /\ Mark(p, "failed") /\ End(p)
         \/ deep /\ daemon[p].block.block.ok /\ Go(p, [daemon[p] EXCEPT !.pc = "readback"]) /\ UNCHANGED jobs
      /\ UNCHANGED <<stateVars, trouble, nodeVars>>

\* Faulty variant of CheckDepth: a reverted transaction is waited for.
CheckDepthRevertWaits(p) ==
  LET deep == Deep(p, Depth)
  IN  /\ At(p, "depth")
      /\ \/ ~(deep /\ daemon[p].block.block.ok) /\ End(p) /\ UNCHANGED jobs
         \/ deep /\ daemon[p].block.block.ok /\ Go(p, [daemon[p] EXCEPT !.pc = "readback"]) /\ UNCHANGED jobs
      /\ UNCHANGED <<stateVars, trouble, nodeVars>>

\* ... and the receipt must be canonical and deep before its outcome counts.  A failed
\* header read, another block and too few blocks all leave the job pending.
CheckDepth(p) ==
  LET deep == Deep(p, Depth)
  IN  /\ At(p, "depth")
      /\ \/ ~deep /\ End(p) /\ UNCHANGED jobs
         \/ deep /\ ~daemon[p].block.block.ok /\ Mark(p, "failed") /\ End(p)
         \/ deep /\ daemon[p].block.block.ok /\ Go(p, [daemon[p] EXCEPT !.pc = "readback"]) /\ UNCHANGED jobs
      /\ UNCHANGED <<stateVars, trouble, nodeVars>>

Readback(p) ==
  /\ At(p, "readback")
  /\ Mark(p, IF Record = Job(p).tx.root THEN "confirmed" ELSE "failed")
  /\ End(p)
  /\ UNCHANGED <<stateVars, trouble, nodeVars>>

\* A call fails, the tick's deadline passes, or the process dies: the session lock goes.
AbortTick(p) ==
  /\ ~At(p, "idle")
  /\ End(p)
  /\ Disturb("aborts")
  /\ UNCHANGED <<stateVars, jobs, nodeVars>>

-----------------------------------------------------------------------------
TickStep(p) ==
  \/ RecheckReceipt(p) \/ RecheckHeader(p) \/ BuildForRecord(p) \/ ReadRecord(p)
  \/ SignTx(p) \/ SaveJob(p) \/ Resend(p) \/ ReadReceipt(p) \/ HeadBlock(p) \/ CheckDepth(p)
  \/ Readback(p)

Init ==
  /\ StateInit
  /\ jobs = <<>>
  /\ locked = None
  /\ daemon = [p \in Daemons |-> Idle]
  /\ chain = <<>> /\ peak = 0 /\ forks = 0 /\ pool = {}

Next ==
  \/ StateNext /\ UNCHANGED <<pubVars, nodeVars>>
  \/ \E p \in Daemons, build \in BOOLEAN : StartTick(p, build)
  \/ \E p \in Daemons : TickStep(p) \/ AbortTick(p)
  \/ MineEmpty
  \/ \E tx \in pool, ok \in BOOLEAN : MineTx(tx, ok)
  \/ \E n \in 1 .. Len(chain) : Reorg(n)
  \/ \E tx \in pool : DropTx(tx)
  \/ ForeignTx

\* The loop's ticker keeps ticking and asks for a build every interval; a started tick goes
\* on; the chain goes on and takes what is queued.
Fairness ==
  /\ \A p \in Daemons : WF_allVars(TickStep(p))
  /\ SF_allVars(\E p \in Daemons : StartTick(p, TRUE))
  /\ WF_allVars(MineEmpty)
  /\ WF_allVars(\E tx \in pool : MineTx(tx, TRUE))

FairSpec == Init /\ [][Next]_allVars /\ Fairness

-----------------------------------------------------------------------------
(* Properties.                                                             *)

\* A job called confirmed is on the canonical chain and successful, whatever reorg the
\* confirmation depth is meant to outlast, although settle reads receipt, head, header
\* and record in turn.
ConfirmedStays ==
  \A j \in DOMAIN jobs :
    jobs[j].status = "confirmed" /\ Seen("deep") = 0 =>
      Mined(jobs[j].tx) /\ Receipt(jobs[j].tx).block.ok

\* Once the accounts' states stop changing, the record becomes theirs and stays so, through
\* failed ticks, evicted and reverted transactions and reorgs.  Excepted: a foreign use of
\* the key takes the stored transaction's nonce and it is resent for ever; after a reorg
\* deeper than Depth only the newest job is looked at again.
RecordCatchesUp ==
  <>[](\/ DOMAIN CurrentRoot = {} \/ Record = CurrentRoot
       \/ trouble.allowed["ticks"] = 0 \/ Seen("foreign") > 0 \/ Seen("deep") > 0)

\* A root as revisions per account.
RevisionsOf(root) == [a \in Accounts |-> IF a \in DOMAIN root THEN root[a].revision ELSE 0]

\* The newest confirmed record.  Nothing is claimed of behaviours with a reorg deeper than
\* the depth that settle waits for.
ConfirmedRevisions ==
  LET js == {j \in DOMAIN jobs : jobs[j].status = "confirmed"}
  IN  IF js = {} \/ trouble.allowed["deep"] > 0 THEN [a \in Accounts |-> 0]
      ELSE RevisionsOf(jobs[Max(js)].tx.root)

Abstract == INSTANCE StateRecord WITH
  revision  <- RevisionsOf(CurrentRoot),
  confirmed <- ConfirmedRevisions

\* Daemons, jobs, transactions and blocks together implement StateRecord: a confirmed
\* record is a cut of states that were accepted, and never older than the one before.
PublishesCuts == Abstract!Spec
=============================================================================
