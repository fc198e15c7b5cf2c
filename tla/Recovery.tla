------------------------------ MODULE Recovery ------------------------------
(***************************************************************************)
(* The artefacts of a deployment together with what they are for: a copy   *)
(* of an epoch's table is mirrored, the database is lost, and the index is *)
(* rebuilt from the copy once it matches the roots the registry holds.     *)
(* The restore writes statement by statement and may stop anywhere; the    *)
(* operator runs it again, and starts the daemon when it has finished.     *)
(***************************************************************************)
EXTENDS Artefacts

CONSTANT Batch    \* interactions per statement of a restore

ASSUME BatchAssumption == Batch \in Nat \ {0}

VARIABLES
  copies,   \* documents mirrored outside the deployment
  daemon,   \* "up", "lost", "restoring", "failed" or "restored"
  job       \* the restore: its document and the statement it is at

recoveryVars == <<copies, daemon, job>>
allVars == <<artefactVars, recoveryVars>>

-----------------------------------------------------------------------------
(* Documents.                                                              *)

\* epochSnapshot: the header, coverage rows and leaves in tree order, cut short where
\* the stream broke.  A leaf without a stored list goes out with none.
Document(e, cut) ==
  LET n == Len(e.coverage)
  IN  [onchain |-> e.onchain, from |-> e.from, to |-> e.to,
       root |-> e.root, coverageRoot |-> Root(e.coverage),
       leafCount |-> Len(e.leaves), assetCount |-> n,
       coverage |-> SubSeq(e.coverage, 1, Min({cut, n})),
       leaves |-> [i \in 1 .. Max({0, cut - n}) |->
         [account |-> e.leaves[i].account, assets |-> e.leaves[i].assets]]]

\* Someone keeps what GET /v1/epochs/{id}/snapshot returned.
Mirror(i, cut) ==
  /\ daemon = "up"
  /\ Spend("copies")
  /\ copies' = copies \cup {Document(epochs[i], cut)}
  /\ UNCHANGED <<indexVars, epochVars, readVars, daemon, job>>

\* Rebuild: both roots from the rows, never from the header.
Rebuild(d) == [root |-> Root(Leaves(d.leaves)), coverage |-> Root(d.coverage)]

\* Result.Matches
Matches(res, on) == res.root = on.root /\ res.coverage = on.coverage

\* Verify of the snapshot package: while it streams, and against the header's counts.
SnapshotReads(d) ==
  d.leafCount \in {0, Len(d.leaves)} /\ d.assetCount \in {0, Len(d.coverage)}

\* runSnapshot of evmscan-verify: the document against itself, then against the registry.
SnapshotVerified(d) ==
  /\ SnapshotReads(d)
  /\ d.root = Rebuild(d).root /\ d.coverageRoot = Rebuild(d).coverage
  /\ d.onchain \in DOMAIN registry
  /\ Matches(Rebuild(d), registry[d.onchain])

\* verify of evmscan-restore: an epoch that is not final yet will do.
RestoreVerified(d) ==
  d.onchain \in DOMAIN registry /\ Matches(Rebuild(d), registry[d.onchain])

-----------------------------------------------------------------------------
(* Loss and restore.                                                       *)

\* The database is gone, and the process with it.
Lose ==
  /\ daemon = "up" /\ copies # {}
  /\ Spend("losses")
  /\ daemon' = "lost"
  /\ cursors' = <<>> /\ rows' = <<>> /\ epochs' = <<>> /\ building' = Absent
  /\ cache' = Absent /\ gets' = [r \in Requester |-> Absent] /\ file' = Absent /\ answer' = Absent
  /\ UNCHANGED <<logs, head, upgraded, registry, copies, job>>

\* evmscan-restore reads and checks a copy before it writes; it runs the migrations.
RestoreBegin(d) ==
  /\ daemon \in {"lost", "failed"}
  /\ RestoreVerified(d)
  /\ daemon' = "restoring"
  /\ upgraded' = TRUE
  /\ job' = [doc |-> d, asset |-> 1, stmt |-> "register", batch |-> 0]
  /\ UNCHANGED <<indexVars, building, epochs, registry, readVars, left, copies>>

AtAsset(stmt) ==
  daemon = "restoring" /\ job.asset <= Len(job.doc.coverage) /\ job.stmt = stmt

Restoring == job.doc.coverage[job.asset]

\* One cursor update, then the next statement.
SetCursor(new, stmt) ==
  /\ cursors' = [cursors EXCEPT ![Restoring.asset] = new]
  /\ job' = [job EXCEPT !.stmt = stmt, !.asset = IF stmt = "register" THEN @ + 1 ELSE @]
  /\ UNCHANGED <<logs, head, rows, epochVars, readVars, left, copies, daemon>>

RestoreRegister ==
  /\ AtAsset("register")
  /\ cursors' = Registered(cursors, Restoring.asset, Restoring.from)
  /\ job' = [job EXCEPT !.stmt = "backfill"]
  /\ UNCHANGED <<logs, head, rows, epochVars, readVars, left, copies, daemon>>

\* The walk is complete: one below the range's floor.
RestoreBackfill ==
  /\ AtAsset("backfill")
  /\ SetCursor([cursors[Restoring.asset] EXCEPT !.next = Max({0, Restoring.from - 1}), !.done = TRUE],
               "floor")

RestoreFloor ==
  /\ AtAsset("floor")
  /\ SetCursor([cursors[Restoring.asset] EXCEPT !.floor = Restoring.from], "tail")

\* Faulty variant of RestoreTail: the tail is put at the epoch's last block plus one.
RestoreTailPast ==
  /\ AtAsset("tail")
  /\ SetCursor([cursors[Restoring.asset] EXCEPT !.tail = Max({@, Restoring.to + 1})], "register")

\* AdvanceTail keeps the greater.
RestoreTail ==
  /\ AtAsset("tail")
  /\ SetCursor([cursors[Restoring.asset] EXCEPT !.tail = Max({@, Restoring.to})], "register")

\* The interactions of the leaves, in order: declared over the epoch's own range.
Interactions(d) ==
  FlattenSeq([i \in DOMAIN d.leaves |->
    LET as == InOrder(d.leaves[i].assets)
    IN  [j \in DOMAIN as |-> [account |-> d.leaves[i].account, asset |-> as[j],
                              first |-> d.from, last |-> d.to]]])

\* Full batches, and the flush of what is left.
Batches(d) == (Len(Interactions(d)) + Batch - 1) \div Batch

AtRows == daemon = "restoring" /\ job.asset > Len(job.doc.coverage)

RestoreBatch ==
  LET all == Interactions(job.doc)
      from == job.batch * Batch + 1
      upto == Min({Len(all), from + Batch - 1})
  IN  /\ AtRows /\ job.batch < Batches(job.doc)
      /\ rows' = FoldInteractions(rows, {all[i] : i \in from .. upto})
      /\ job' = [job EXCEPT !.batch = @ + 1]
      /\ UNCHANGED <<logs, head, cursors, epochVars, readVars, left, copies, daemon>>

RestoreDone ==
  /\ AtRows /\ job.batch = Batches(job.doc)
  /\ daemon' = "restored"
  /\ UNCHANGED <<artefactVars, copies, job>>

\* A statement fails, or the command is interrupted: what was written stays.
RestoreFails ==
  /\ daemon = "restoring"
  /\ Spend("faults")
  /\ daemon' = "failed"
  /\ UNCHANGED <<indexVars, epochVars, readVars, copies, job>>

\* The operator starts evmscand on the restored database.
StartDaemon ==
  /\ daemon = "restored"
  /\ daemon' = "up"
  /\ UNCHANGED <<artefactVars, copies, job>>

\* The daemon works while it is up; the registry goes on without it.
Serving ==
  /\ \/ daemon = "up" /\ (IndexStep \/ EpochStep \/ ReadStep)
     \/ daemon # "up" /\ \E i \in DOMAIN registry : Decide(i, "finalized")
  /\ UNCHANGED recoveryVars

RestoreStep ==
  RestoreRegister \/ RestoreBackfill \/ RestoreFloor \/ RestoreTail \/ RestoreBatch \/ RestoreDone

RecoveryNext ==
  \/ Serving
  \/ \E i \in DOMAIN epochs :
       \E cut \in 0 .. Len(epochs[i].coverage) + Len(epochs[i].leaves) : Mirror(i, cut)
  \/ Lose
  \/ \E d \in copies : RestoreBegin(d)
  \/ RestoreStep \/ RestoreFails \/ StartDaemon

RecoveryInit ==
  ArtefactsInit /\ copies = {} /\ daemon = "up"
  /\ job = [doc |-> Absent, asset |-> 0, stmt |-> "register", batch |-> 0]

RecoverySpec == RecoveryInit /\ [][RecoveryNext]_allVars

-----------------------------------------------------------------------------
(* Properties.                                                             *)

Restored == job.doc # Absent

\* An answer the gateway gave (gateway.go, ensgateway.go) is the committed one: as long
\* as the registry has finalized nothing newer since the gateway looked,
\* contractsOfCallback accepts the list and its proof, and a list the gateway signed is
\* the one contractsOf returns, if it still can: the cross-check of evmscan-verify.
AnswerAccepted ==
  answer # Absent =>
    (answer.stage = "answered" /\ answer.latest = RegistryLatest =>
      IF answer.via = "ccip" THEN ContractsOfCallback(answer) = "verified"
      ELSE answer.assets # {} /\ CcipAnswer(answer.account) # Absent => CrossChecked(answer))

\* merkle.go: for trees of every shape up to nine leaves, odd levels included, a proof
\* verifies for the leaf it was made for and for no other, while every proof served for
\* a stored epoch does so for its account.
TreesProve ==
  /\ SmallTreesProve
  /\ \A e \in Range(epochs) : \A i, j \in DOMAIN e.leaves :
       Verify(e.root, LeafHash(e.leaves[j].account, e.leaves[j].hash), ProofFor(e, i)) <=> i = j

\* epochProof: whatever the rollup has grown to since, a proof served for any epoch is
\* accepted by evmscan-verify, against the stated root and by the registry.
ProofsHold ==
  \A i \in DOMAIN epochs, a \in Account :
    EpochProof(i, a) # Absent => ProofVerified(i, a, EpochProof(i, a))

\* accountContracts: the contracts a page shows as committed are exactly those of the
\* account's leaf in an epoch the registry finalized, however far the rollup has grown
\* since, for epochs that store their lists.
CommittedIsFinal ==
  \A a \in Account :
    LET e == epochs[LatestFinalizedEpoch]
        i == EpochLeafFor(e, a)
        shown == {c.asset : c \in {d \in AccountContracts(a) : d.committed}}
    IN  IF LatestFinalizedEpoch = 0 THEN shown = {}
        ELSE /\ registry[e.onchain].status = "finalized"
             /\ IF i = 0 THEN shown = {}
                ELSE e.leaves[i].assets # {} => shown = e.leaves[i].hash

\* Whatever a reader is told of an account, by gateway, proof or page, is what an epoch's
\* tree committed, and the registry accepts its proof.
AnswersProve == AnswerAccepted /\ TreesProve /\ ProofsHold /\ CommittedIsFinal

\* A filter evmscan-verify accepts for the latest finalized epoch holds exactly the
\* pairs that epoch's root commits, however the rollup moved between the build of the
\* epoch, the build of the file and the check; as long as the database that named the
\* epoch's uri is still there.
AcceptedFilterIsCommitted ==
  ~Restored /\ FilterAccepted(file) =>
    LET e == epochs[EpochByOnchainID(RegistryLatest)]
    IN  file.pairs = UNION {{<<e.leaves[i].account, a>> : a \in e.leaves[i].hash} : i \in DOMAIN e.leaves}

\* Cache.Get: of two builds racing each other, the one that reaches less far never
\* replaces the other.
FilterNeverGoesBack ==
  [][daemon' = "up" /\ cache # Absent => cache' # Absent /\ cache'.to >= cache.to]_allVars

\* Restore: when it has finished, after any number of attempts with a copy that stopped
\* half-way, the index as of the epoch's block rebuilds the two roots the registry holds.
RestoredIsCommitted ==
  daemon = "restored" =>
    LET on == registry[job.doc.onchain]
    IN  /\ Root(Leaves(SnapshotIndex(on.to))) = on.root
        /\ Root(CoverageFromCursors(on.to)) = on.coverage

\* A copy cut short anywhere in its stream is accepted by neither tool, evmscan-verify
\* or evmscan-restore, although only the first of them compares the header's counts.
CutCopyRefused ==
  \A d \in copies :
    Len(d.leaves) < d.leafCount \/ Len(d.coverage) < d.assetCount =>
      ~SnapshotVerified(d) /\ ~RestoreVerified(d)

\* The logs of a coverage range whose account the leaves do not list.
Unlisted(leaves, c) ==
  {l \in logs : /\ l.asset = c.asset /\ c.from <= l.block /\ l.block <= c.to
                /\ ~\E i \in DOMAIN leaves : leaves[i].account = l.account
                                             /\ l.asset \in leaves[i].assets}

\* A restored daemon resumes without losing anything the commitment did not lose
\* itself: every log of a restored asset between its floor and its tail is in the
\* rollup, unless the epoch's own leaves already lacked it.
NothingLostByRestore ==
  daemon = "up" /\ Restored =>
    \A i \in DOMAIN job.doc.coverage :
      LET c == job.doc.coverage[i]
      IN  \A l \in logs :
            /\ l.asset = c.asset
            /\ cursors[c.asset].floor <= l.block /\ l.block <= cursors[c.asset].tail
            /\ l \notin Unlisted(job.doc.leaves, c)
            => <<l.account, l.asset>> \in DOMAIN rows

\* evmscan-restore gives back what was committed, the whole of it, and the daemon that
\* resumes from it loses nothing more; a copy that was cut is not taken.
RestoreFaithful == RestoredIsCommitted /\ NothingLostByRestore /\ CutCopyRefused

\* CoverageFromCursors: "the contiguous block range whose logs are in the rollup" the
\* epoch commits; an account with a log in it has the asset in its leaf.
CoverageIsIndexed ==
  \A e \in Range(epochs) : \A c \in Range(e.coverage) :
    Unlisted([i \in DOMAIN e.leaves |-> [account |-> e.leaves[i].account, assets |-> e.leaves[i].hash]], c) = {}

\* The filter of a finalized epoch "rebuilds deterministically from interactions as of
\* ToBlock", so filterBytes can serve it.
FilterRebuilds ==
  LatestFinalizedEpoch # 0 /\ epochs[LatestFinalizedEpoch].filter # Absent =>
    EpochFilter(epochs[LatestFinalizedEpoch]) # Absent
=============================================================================
