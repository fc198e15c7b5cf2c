--------------------------- MODULE PublisherProofs ---------------------------
(***************************************************************************)
(* Theorems about Publisher, for every registry mode, growth of the index  *)
(* and number of disturbances.                                             *)
(***************************************************************************)
EXTENDS Publisher, FiniteSetTheorems, SequenceTheorems, WellFoundedInduction, TLAPS

-----------------------------------------------------------------------------
(* The inductive invariant: how a row, a transaction, a commitment and the *)
(* worker between two calls agree.  Each part is stated of one record, in  *)
(* a table rs, with transactions ts and commitments reg, when the index    *)
(* stands at n.                                                            *)

Decided(status) == status \in {"Finalized", "Rejected"}

\* A transaction says what it was sent for, and an ok one has had its effect.
TxOK(tx, reg, n) ==
  /\ tx.call = "publish" => tx.arg <= n
  /\ tx.call = "publish" /\ tx.state = "ok" =>
       tx.result \in DOMAIN reg /\ reg[tx.result].content = tx.arg
  /\ tx.call \in {"finalize", "claim"} => tx.arg \in DOMAIN reg
  /\ tx.call = "finalize" /\ tx.state = "ok" => Decided(reg[tx.arg].status)
  /\ tx.state # "ok" => tx.result = 0

\* A commitment nobody disputed has no verdict, and its content was in the index.
EpochOK(e, n) ==
  /\ e.content <= n
  /\ e.status = "Proposed" => e.verdict = "none" \/ e.silent

\* A row beyond "built" has the transaction that was sent for it, and one beyond
\* "submitted" the id that transaction was mined with.
RowOK(row, ts, reg, n) ==
  /\ row.content <= n
  /\ row.ref = 0 <=> row.status = "built"
  /\ row.ref # 0 => /\ row.ref \in DOMAIN ts
                    /\ ts[row.ref].call = "publish" /\ ts[row.ref].arg = row.content
  /\ row.onchain # 0 => /\ row.ref # 0
                        /\ ts[row.ref].state = "ok" /\ ts[row.ref].result = row.onchain
  /\ row.status \in {"published", "finalized", "rejected"} => row.onchain # 0
  /\ row.status = "finalized" => reg[row.onchain].status = "Finalized" \/ reg[row.onchain].silent
  /\ row.status = "rejected" => reg[row.onchain].status = "Rejected"

\* A worker has a row of its own in hand.
Building(st) == st.stage = "build" /\ st.pc \in {"bond", "publish", "send", "mark", "wait"}

\* The row is still to be sent.
Unsent(st) == st.pc \in {"bond", "publish", "send", "mark"} \/ st.call = "approve"

\* Which calls are made at which point of which stage.
Placed(st) ==
  /\ st.pc \in {"build", "bond", "publish", "mark"} => st.stage = "build"
  /\ st.stage = "build" => st.pc \in {"build", "bond", "publish", "send", "mark", "wait"}
  /\ st.stage = "resume" => st.pc # "send" /\ (st.pc = "wait" => st.call = "publish")
  /\ st.pc \in {"send", "wait"} =>
       /\ st.stage = "build" => st.call \in {"approve", "publish"}
       /\ st.stage = "finalize" => st.call = "finalize"
       /\ st.stage = "claim" => st.call = "claim"
  /\ st.pc = "mark" => st.call = "publish"

\* The rows still to visit are far enough for their stage.
ToVisit(st, rs) ==
  st.pc # "query" =>
    /\ st.todo \subseteq DOMAIN rs
    /\ st.stage = "resume" => \A r \in st.todo : rs[r].ref # 0
    /\ st.stage \in {"finalize", "claim"} => \A r \in st.todo : rs[r].onchain # 0

\* The row in hand, and what is sent for it.
InHand(st, rs) ==
  /\ st.pc \in {"bond", "publish", "send", "mark", "wait"} => st.row \in DOMAIN rs
  /\ Building(st) /\ Unsent(st) => rs[st.row].ref = 0
  /\ st.pc = "send" /\ st.call = "publish" => st.arg = rs[st.row].content
  /\ st.pc = "mark" => \A r \in DOMAIN rs : rs[r].ref # st.ref
  /\ st.pc = "wait" /\ st.call = "publish" => rs[st.row].ref = st.ref
  /\ st.pc \in {"send", "wait"} /\ st.call \in {"finalize", "claim"} =>
       rs[st.row].onchain = st.arg /\ st.arg # 0

\* The transaction waited for is the one that was sent for the row.
Awaits(st, rs, ts) ==
  st.pc \in {"mark", "wait"} =>
    /\ st.ref \in DOMAIN ts /\ ts[st.ref].call = st.call
    /\ st.call = "publish" => ts[st.ref].arg = rs[st.row].content
    /\ st.call \in {"finalize", "claim"} => ts[st.ref].arg = st.arg

\* A commitment whose window has closed unchallenged can only be finalized, unless it is
\* disputed without the registry's knowledge.
Foreseen(e) == (~e.open /\ e.status \in {"Proposed", "Finalized"}) \/ e.silent

SawRightly(st, reg) ==
  st.pc \in {"send", "wait"} /\ st.call = "finalize" =>
    /\ st.seen # "none"
    /\ st.seen = "Proposed" => Foreseen(reg[st.arg])

\* What a worker between two calls remembers is still true.
Remembers(st, rs, ts, reg) ==
  Placed(st) /\ ToVisit(st, rs) /\ InHand(st, rs) /\ Awaits(st, rs, ts) /\ SawRightly(st, reg)

\* The endpoint only builds.
ApiBuilds(st) == st = Idle \/ st.stage = "build"

\* The loop and the endpoint build different rows, and record different transactions.
Apart(a, b) ==
  /\ Building(a) /\ Building(b) => a.row # b.row
  /\ a.pc = "mark" /\ b.pc = "mark" => a.ref # b.ref

TxsOK      == \A t \in DOMAIN txs : TxOK(txs[t], registry, content)
RegistryOK == \A i \in DOMAIN registry : EpochOK(registry[i], content)
RowsOK     == \A r \in DOMAIN rows : RowOK(rows[r], txs, registry, content)
WorkersOK  == /\ \A w \in Workers : Remembers(worker[w], rows, txs, registry)
              /\ ApiBuilds(worker["api"])
              /\ Apart(worker["loop"], worker["api"])

\* No two rows share a transaction, and no two transactions an on-chain id.
RefsDiffer == \A r, q \in DOMAIN rows : rows[r].ref = rows[q].ref /\ rows[r].ref # 0 => r = q
IdsDiffer ==
  \A t, u \in DOMAIN txs :
    /\ txs[t].call = "publish" /\ txs[t].state = "ok"
    /\ txs[u].call = "publish" /\ txs[u].state = "ok"
    /\ txs[t].result = txs[u].result
    => t = u

PublisherInv ==
  /\ TypeOK
  /\ TxsOK /\ RegistryOK /\ RowsOK /\ RefsDiffer /\ IdsDiffer
  /\ WorkersOK

-----------------------------------------------------------------------------
(* What the other invariants need, each under its own condition.           *)

Live == {t \in DOMAIN txs : txs[t].state \in {"mempool", "ok", "reverted"}}

\* The nonces in use are below the next one, all different, and mined in order.
NoncesInOrder ==
  /\ \A t \in Live : txs[t].nonce < PendingNonce
  /\ \A t, u \in Live : txs[t].nonce = txs[u].nonce => t = u
  /\ \A t, u \in Live : txs[t].state # "mempool" /\ txs[u].state = "mempool" =>
       txs[t].nonce < txs[u].nonce

\* The loop alone: the nonce it read before it sends is still the next.
NonceInv ==
  Seen("posts") = 0 =>
    /\ worker["api"] = Idle
    /\ NoncesInOrder
    /\ worker["loop"].pc = "send" => worker["loop"].nonce = PendingNonce
    /\ Replaced = {}

\* A publication that was sent has a row, or is about to be recorded; a row is failed only
\* by a transaction that was, or for its age.
Tracked(t) ==
  \/ \E r \in DOMAIN rows : rows[r].ref = t
  \/ \E w \in Workers : worker[w].pc = "mark" /\ worker[w].ref = t

FailedRightly(row, ts) == ~row.stale /\ (row.status = "failed" => ts[row.ref].state = "reverted")

TrackInv ==
  /\ Seen("crashes") = 0 => \A t \in DOMAIN txs : txs[t].call = "publish" => Tracked(t)
  /\ Seen("stale") = 0 => \A r \in DOMAIN rows : FailedRightly(rows[r], txs)

\* The rows whose content a further commitment may not repeat.
Standing == Committed \cup IF Building(worker["loop"]) THEN {worker["loop"].row} ELSE {}

\* The loop alone: a row it resumes or waits for is still submitted, and one it finalizes
\* still published.
Resuming(st, rs) ==
  /\ st.stage = "resume" /\ st.pc # "query" => \A r \in st.todo : rs[r].status = "submitted"
  /\ st.stage = "resume" /\ st.pc = "wait" => st.row \in st.todo
  /\ st.stage = "finalize" /\ st.pc # "query" => \A r \in st.todo : rs[r].status = "published"
  /\ st.stage = "finalize" /\ st.pc \in {"send", "wait"} => st.row \in st.todo
  /\ st.stage = "build" /\ st.pc = "wait" /\ st.call = "publish" => rs[st.row].status = "submitted"

\* Every commitment came out of a publication of this account.
Published(i) ==
  \E t \in DOMAIN txs : txs[t].call = "publish" /\ txs[t].state = "ok" /\ txs[t].result = i

\* Rows are built as the index grows; no two that stand say the same thing.
Ordered == \A r, q \in DOMAIN rows : r <= q => rows[r].content <= rows[q].content
Distinct == \A r, q \in Standing : rows[r].content = rows[q].content => r = q

LoopAlone == Seen("posts") = 0 /\ Seen("stale") = 0

ContentInv ==
  /\ \A i \in DOMAIN registry : Published(i)
  /\ Ordered
  /\ LoopAlone => Resuming(worker["loop"], rows) /\ Distinct

\* The rows of the claim stage are unclaimed until they are visited, and a claim is sent
\* for one of them.
ClaimsAhead(st, rs) ==
  st.stage = "claim" =>
    /\ st.pc \in {"pick", "send", "wait"} => \A r \in st.todo : ~rs[r].claimed
    /\ st.pc \in {"send", "wait"} => st.row \in st.todo

\* No fault and no crash has left a claim queued.
Quiet == Seen("faults") = 0 /\ Seen("crashes") = 0

\* Only the loop claims: it waits for the claim it has queued, and what was mined for one
\* it has recorded or is about to.
ClaimInv ==
  LET st == worker["loop"]
  IN  /\ ClaimsAhead(st, rows)
      /\ \A r \in DOMAIN rows : rows[r].claimed => rows[r].onchain # 0
      /\ Quiet =>
           /\ \A t \in DOMAIN txs : txs[t].call = "claim" /\ txs[t].state = "mempool" =>
                st.pc = "wait" /\ st.ref = t
           /\ \A t \in DOMAIN txs : txs[t].call = "claim" /\ txs[t].state = "ok" =>
                \/ st.pc = "wait" /\ st.ref = t
                \/ \E r \in DOMAIN rows : rows[r].onchain = txs[t].arg /\ rows[r].claimed

TruthInv == PublisherInv /\ ClaimInv /\ ClaimRecorded

-----------------------------------------------------------------------------
(* Tables as sequences.                                                    *)

LEMMA DomainOf ==
  ASSUME NEW S, NEW s \in Seq(S)
  PROVE  /\ Len(s) \in Nat /\ DOMAIN s = 1 .. Len(s)
         /\ \A i \in DOMAIN s : s[i] \in S /\ i \in Nat /\ i # 0 /\ i <= Len(s)
  BY LenProperties

\* One entry is rewritten.
LEMMA Updated ==
  ASSUME NEW S, NEW s \in Seq(S), NEW i \in DOMAIN s, NEW e \in S
  PROVE  LET new == [s EXCEPT ![i] = e]
         IN  /\ new \in Seq(S) /\ Len(new) = Len(s) /\ DOMAIN new = DOMAIN s
             /\ new[i] = e /\ \A j \in DOMAIN s : j # i => new[j] = s[j]
  BY DomainOf, ExceptSeq

\* One entry is added.
LEMMA Appended ==
  ASSUME NEW S, NEW s \in Seq(S), NEW e \in S
  PROVE  LET new == Append(s, e)
         IN  /\ new \in Seq(S) /\ Len(new) = Len(s) + 1
             /\ DOMAIN new = DOMAIN s \cup {Len(s) + 1} /\ Len(s) + 1 \notin DOMAIN s
             /\ new[Len(s) + 1] = e /\ \A j \in DOMAIN s : new[j] = s[j]
  BY DomainOf

\* A set of rows has an oldest one and, when it is finite, a newest one.
LEMMA SmallestOf ==
  ASSUME NEW B, B \subseteq Nat, B # {}
  PROVE  Min(B) \in B /\ \A m \in B : Min(B) <= m
<1>1. PICK n \in B : \A m \in B : ~(<<m, n>> \in OpToRel(<, Nat))
  BY NatLessThanWellFounded, WFMin
<1>2. \A m \in B : ~(m < n)
  BY <1>1 DEF OpToRel
<1>3. \A m \in B : n <= m
  BY <1>2
<1>4. \E x \in B : \A m \in B : x <= m
  BY <1>3
<1> QED BY <1>4 DEF Min

LEMMA LargestOf ==
  ASSUME NEW n \in Nat, NEW B, B \subseteq 0 .. n, B # {}
  PROVE  Max(B) \in B /\ \A m \in B : m <= Max(B)
<1> DEFINE M == {n - m : m \in B}
<1>0. \A m \in B : m \in 0 .. n /\ n - m \in Nat
  OBVIOUS
<1>1. M \subseteq Nat /\ M # {}
  BY <1>0
<1> HIDE DEF M
<1>2. Min(M) \in M /\ \A m \in M : Min(M) <= m
  BY <1>1, SmallestOf
<1>3. PICK b \in B : Min(M) = n - b
  BY <1>2 DEF M
<1>4. \A m \in B : n - b <= n - m
  BY <1>2, <1>3 DEF M
<1>5. \A m \in B : b >= m
  BY <1>0, <1>4
<1>6. \E x \in B : \A m \in B : x >= m
  BY <1>5
<1>7. PICK x : x = Max(B)
  OBVIOUS
<1>8. x \in B /\ \A m \in B : x >= m
  BY <1>6, <1>7 DEF Max
<1>9. \A m \in B : m <= x
  BY <1>8
<1> QED BY <1>7, <1>8, <1>9

-----------------------------------------------------------------------------
(* What no step takes back.                                                *)

Mined(tx) == tx.state \in {"ok", "reverted"}

TxsKept(ts, us) ==
  \A t \in DOMAIN ts :
    /\ t \in DOMAIN us
    /\ us[t].call = ts[t].call /\ us[t].arg = ts[t].arg
    /\ Mined(ts[t]) => us[t].state = ts[t].state /\ us[t].result = ts[t].result

EpochsKept(reg, new) ==
  \A i \in DOMAIN reg :
    /\ i \in DOMAIN new
    /\ new[i].content = reg[i].content
    /\ ~reg[i].open => ~new[i].open
    /\ Decided(reg[i].status) => new[i].status = reg[i].status
    /\ reg[i].silent => new[i].silent
    /\ Foreseen(reg[i]) => Foreseen(new[i])

RowsKept(rs, new) ==
  /\ \A r \in DOMAIN rs :
       /\ r \in DOMAIN new
       /\ new[r].content = rs[r].content /\ new[r].ref = rs[r].ref
       /\ rs[r].onchain # 0 => new[r].onchain = rs[r].onchain
  /\ \A r \in DOMAIN new : r \notin DOMAIN rs => new[r].ref = 0

\* A worker's memory outlives every such change.
LEMMA RemembersKept ==
  ASSUME NEW st \in Worker, NEW rs, NEW ts, NEW reg, NEW rs2, NEW ts2, NEW reg2,
         Remembers(st, rs, ts, reg),
         RowsKept(rs, rs2), TxsKept(ts, ts2), EpochsKept(reg, reg2),
         \A r \in DOMAIN rs : rs[r].onchain # 0 => rs[r].onchain \in DOMAIN reg
  PROVE  Remembers(st, rs2, ts2, reg2)
<1>1. ToVisit(st, rs2)
  BY DEF Remembers, ToVisit, RowsKept
<1>2. InHand(st, rs2)
  <2>1. InHand(st, rs) /\ Placed(st) /\ Awaits(st, rs, ts)
    BY DEF Remembers
  <2>2. st.pc = "mark" => \A r \in DOMAIN rs2 : rs2[r].ref # st.ref
    <3> SUFFICES ASSUME st.pc = "mark", NEW r \in DOMAIN rs2, rs2[r].ref = st.ref PROVE FALSE
      OBVIOUS
    <3>1. r \in DOMAIN rs => FALSE
      BY <2>1 DEF InHand, RowsKept
    <3>2. rs2[r].ref = 0 /\ st.row \in DOMAIN rs /\ rs[st.row].ref = 0
      BY <2>1, <3>1 DEF InHand, RowsKept, Building, Unsent, Placed
    <3> QED BY <2>1, <3>2 DEF InHand
  <2> QED BY <2>1, <2>2 DEF InHand, RowsKept, Building
<1>3. Awaits(st, rs2, ts2)
  BY DEF Remembers, Awaits, InHand, RowsKept, TxsKept
<1>4. SawRightly(st, reg2)
  <2> SUFFICES ASSUME st.pc \in {"send", "wait"}, st.call = "finalize"
               PROVE  /\ st.seen # "none"
                      /\ st.seen = "Proposed" => Foreseen(reg2[st.arg])
    BY DEF SawRightly
  <2>1. st.row \in DOMAIN rs /\ rs[st.row].onchain = st.arg /\ st.arg # 0
    BY DEF Remembers, InHand
  <2>2. st.arg \in DOMAIN reg
    BY <2>1
  <2>3. /\ st.seen # "none"
        /\ st.seen = "Proposed" => Foreseen(reg[st.arg])
    BY DEF Remembers, SawRightly
  <2> QED BY <2>2, <2>3 DEF EpochsKept
<1>5. Placed(st)
  BY DEF Remembers
<1> QED BY <1>1, <1>2, <1>3, <1>4, <1>5 DEF Remembers

\* So does what a transaction says of the registry, a commitment of the index and a row
\* of both.
LEMMA TxOKKept ==
  ASSUME NEW tx \in Tx, NEW reg, NEW reg2, NEW n \in Nat, NEW m \in Nat, n <= m,
         TxOK(tx, reg, n), EpochsKept(reg, reg2)
  PROVE  TxOK(tx, reg2, m)
  BY DEF TxOK, EpochsKept, Tx

LEMMA RowOKKept ==
  ASSUME NEW row \in Row, NEW ts, NEW ts2, NEW reg, NEW reg2, NEW n \in Nat, NEW m \in Nat, n <= m,
         RowOK(row, ts, reg, n), TxsKept(ts, ts2), EpochsKept(reg, reg2),
         row.onchain # 0 => row.onchain \in DOMAIN reg
  PROVE  RowOK(row, ts2, reg2, m)
  BY DEF RowOK, TxsKept, EpochsKept, Row, Mined, Decided

\* What has not changed is kept.
LEMMA Same ==
  ASSUME NEW ts, NEW reg, NEW rs
  PROVE  TxsKept(ts, ts) /\ EpochsKept(reg, reg) /\ RowsKept(rs, rs)
  BY DEF TxsKept, EpochsKept, RowsKept

\* A row's on-chain id is the registry's, and names the same content.
LEMMA OnchainIn ==
  ASSUME PublisherInv, NEW r \in DOMAIN rows, rows[r].onchain # 0
  PROVE  rows[r].onchain \in DOMAIN registry /\ registry[rows[r].onchain].content = rows[r].content
  BY DEF PublisherInv, RowsOK, RowOK, TxsOK, TxOK

-----------------------------------------------------------------------------
(* A worker's states between two calls.                                    *)

\* What a step of one worker may not do to the other.
Keeps(old, new) ==
  /\ Building(new) => Building(old) /\ new.row = old.row
  /\ new.pc = "mark" => old.pc = "mark" /\ new.ref = old.ref

\* An idle worker remembers nothing.
LEMMA IdleOK ==
  ASSUME NEW rs, NEW ts, NEW reg, NEW old
  PROVE  Idle \in Worker /\ Remembers(Idle, rs, ts, reg) /\ Keeps(old, Idle) /\ ApiBuilds(Idle)
<1>1. Idle \in Worker
  BY DEF Idle, Worker
<1>2. Placed(Idle) /\ ToVisit(Idle, rs) /\ InHand(Idle, rs) /\ Awaits(Idle, rs, ts) /\ SawRightly(Idle, reg)
  BY DEF Idle, Placed, ToVisit, InHand, Building, Awaits, SawRightly
<1>3. Keeps(old, Idle) /\ ApiBuilds(Idle)
  BY DEF Idle, Keeps, Building, ApiBuilds
<1> QED BY <1>1, <1>2, <1>3 DEF Remembers

\* A worker that goes on to a query, a build or its next row.
LEMMA BetweenOK ==
  ASSUME NEW rs, NEW ts, NEW reg, NEW old, NEW st \in Worker,
         st.pc \in {"query", "pick", "build"},
         st.pc = "build" <=> st.stage = "build", ToVisit(st, rs)
  PROVE  Remembers(st, rs, ts, reg) /\ Keeps(old, st)
<1>1. Placed(st) /\ InHand(st, rs) /\ Awaits(st, rs, ts) /\ SawRightly(st, reg)
  BY DEF Placed, InHand, Building, Awaits, SawRightly
<1>2. Keeps(old, st)
  BY DEF Keeps, Building
<1> QED BY <1>1, <1>2 DEF Remembers

\* A stage ends, with its rows visited or not.
LEMMA NextStageOK ==
  ASSUME NEW rs, NEW ts, NEW reg, NEW old, NEW st \in Worker, st.pc \notin {"query", "idle"},
         ToVisit(st, rs)
  PROVE  /\ NextStage(st) \in Worker
         /\ Remembers(NextStage(st), rs, ts, reg) /\ Keeps(old, NextStage(st))
         /\ ApiBuilds(st) => ApiBuilds(NextStage(st))
<1> DEFINE new == NextStage(st)
<1>1. CASE st.stage = "resume"
  <2>1. new = [st EXCEPT !.stage = "finalize", !.pc = "query"]
    BY <1>1 DEF NextStage
  <2>2. new \in Worker /\ new.pc = "query" /\ new.stage = "finalize"
    BY <2>1 DEF Worker
  <2>3. ToVisit(new, rs)
    BY <2>2 DEF ToVisit
  <2> HIDE DEF new
  <2>4. ~ApiBuilds(st)
    BY <1>1 DEF ApiBuilds, Idle
  <2> QED BY <2>2, <2>3, <2>4, BetweenOK DEF new
<1>2. CASE st.stage = "finalize"
  <2>1. new = [st EXCEPT !.stage = "claim", !.pc = "query"]
    BY <1>2 DEF NextStage
  <2>2. new \in Worker /\ new.pc = "query" /\ new.stage = "claim"
    BY <2>1 DEF Worker
  <2>3. ToVisit(new, rs)
    BY <2>2 DEF ToVisit
  <2> HIDE DEF new
  <2>4. ~ApiBuilds(st)
    BY <1>2 DEF ApiBuilds, Idle
  <2> QED BY <2>2, <2>3, <2>4, BetweenOK DEF new
<1>3. CASE st.stage = "claim" /\ st.building /\ ~st.inFlight
  <2>1. new = [st EXCEPT !.stage = "build", !.pc = "build"]
    BY <1>3 DEF NextStage
  <2>2. new \in Worker /\ new.pc = "build" /\ new.stage = "build" /\ new.todo = st.todo
    BY <2>1 DEF Worker
  <2>3. ToVisit(new, rs)
    BY <2>2 DEF ToVisit
  <2> HIDE DEF new
  <2>4. ~ApiBuilds(st)
    BY <1>3 DEF ApiBuilds, Idle
  <2> QED BY <2>2, <2>3, <2>4, BetweenOK DEF new
<1>4. CASE st.stage \notin {"resume", "finalize"} /\ ~(st.stage = "claim" /\ st.building /\ ~st.inFlight)
  <2>1. new = Idle
    BY <1>4 DEF NextStage
  <2> QED BY <2>1, IdleOK
<1> QED BY <1>1, <1>2, <1>3, <1>4

\* A row is done with.
LEMMA RowDoneOK ==
  ASSUME NEW rs, NEW ts, NEW reg, NEW old, NEW st \in Worker, st.pc \notin {"query", "idle"},
         ToVisit(st, rs)
  PROVE  /\ RowDone(st) \in Worker
         /\ Remembers(RowDone(st), rs, ts, reg) /\ Keeps(old, RowDone(st))
         /\ ApiBuilds(st) => ApiBuilds(RowDone(st))
<1>1. CASE st.stage = "build"
  BY <1>1, IdleOK DEF RowDone
<1>2. CASE st.stage # "build"
  <2> DEFINE new == [st EXCEPT !.pc = "pick", !.todo = @ \ {st.row}]
  <2>1. RowDone(st) = new
    BY <1>2 DEF RowDone
  <2>2. /\ new \in Worker /\ new.pc = "pick" /\ new.stage = st.stage
        /\ new.todo = st.todo \ {st.row}
    BY DEF Worker
  <2>3. ToVisit(new, rs)
    BY <2>2 DEF ToVisit
  <2> HIDE DEF new
  <2>4. ~ApiBuilds(st)
    BY <1>2 DEF ApiBuilds, Idle
  <2> QED BY <1>2, <2>1, <2>2, <2>3, <2>4, BetweenOK
<1> QED BY <1>1, <1>2

LEMMA UnresolvedOK ==
  ASSUME NEW rs, NEW ts, NEW reg, NEW old, NEW st \in Worker, st.pc \notin {"query", "idle"},
         ToVisit(st, rs)
  PROVE  /\ Unresolved(st) \in Worker
         /\ Remembers(Unresolved(st), rs, ts, reg) /\ Keeps(old, Unresolved(st))
         /\ ApiBuilds(st) => ApiBuilds(Unresolved(st))
<1>1. CASE st.stage # "resume"
  BY <1>1, IdleOK DEF Unresolved
<1>2. CASE st.stage = "resume"
  <2> DEFINE new == [st EXCEPT !.pc = "pick", !.todo = @ \ {st.row}, !.inFlight = TRUE]
  <2>1. Unresolved(st) = new
    BY <1>2 DEF Unresolved, RowDone, Worker
  <2>2. /\ new \in Worker /\ new.pc = "pick" /\ new.stage = st.stage
        /\ new.todo = st.todo \ {st.row}
    BY DEF Worker
  <2>3. ToVisit(new, rs)
    BY <2>2 DEF ToVisit
  <2> HIDE DEF new
  <2>4. ~ApiBuilds(st)
    BY <1>2 DEF ApiBuilds, Idle
  <2> QED BY <1>2, <2>1, <2>2, <2>3, <2>4, BetweenOK
<1> QED BY <1>1, <1>2

-----------------------------------------------------------------------------
(* Steps of one worker.                                                    *)

\* Worker w goes on as st, and the rows are rewritten without breaking them.
LEMMA WorkerStepApart ==
  ASSUME PublisherInv, NEW w \in Workers, NEW st \in Worker,
         worker' = [worker EXCEPT ![w] = st],
         rows' \in Seq(Row), RowsKept(rows, rows'), RowsOK', RefsDiffer',
         Remembers(st, rows', txs, registry), Apart(worker["loop"], worker["api"])',
         w = "api" => ApiBuilds(st),
         UNCHANGED <<content, chainVars, scenario>>, trouble' \in [Disturbance -> Nat]
  PROVE  PublisherInv'
<1>1. UNCHANGED <<content, txs, registry, allowance, paid, scenario>>
  BY DEF chainVars
<1>2. worker \in [Workers -> Worker] /\ Workers = {"loop", "api"}
  BY DEF PublisherInv, TypeOK, Workers
<1>3. TypeOK'
  BY <1>1, <1>2 DEF PublisherInv, TypeOK
<1>4. TxsOK' /\ RegistryOK' /\ IdsDiffer'
  BY <1>1 DEF PublisherInv, TxsOK, RegistryOK, IdsDiffer
<1>5. ASSUME NEW v \in Workers PROVE Remembers(worker'[v], rows', txs', registry')
  <2>1. CASE v = w
    BY <2>1, <1>1, <1>2
  <2>2. CASE v # w
    <3>1. worker'[v] = worker[v] /\ worker[v] \in Worker /\ Remembers(worker[v], rows, txs, registry)
      BY <2>2, <1>2 DEF PublisherInv, WorkersOK
    <3>2. \A r \in DOMAIN rows : rows[r].onchain # 0 => rows[r].onchain \in DOMAIN registry
      BY OnchainIn
    <3>3. Remembers(worker[v], rows', txs, registry)
      BY <3>1, <3>2, Same, RemembersKept
    <3> QED BY <1>1, <3>1, <3>3
  <2> QED BY <2>1, <2>2
<1>6. ApiBuilds(worker'["api"])
  BY <1>2 DEF PublisherInv, WorkersOK
<1> QED BY <1>3, <1>4, <1>5, <1>6 DEF PublisherInv, WorkersOK

\* It takes no row and no transaction the other worker might have.
LEMMA WorkerStep ==
  ASSUME PublisherInv, NEW w \in Workers, NEW st \in Worker,
         worker' = [worker EXCEPT ![w] = st],
         rows' \in Seq(Row), RowsKept(rows, rows'), RowsOK', RefsDiffer',
         Remembers(st, rows', txs, registry), Keeps(worker[w], st),
         w = "api" => ApiBuilds(st),
         UNCHANGED <<content, chainVars, scenario>>, trouble' \in [Disturbance -> Nat]
  PROVE  PublisherInv'
<1>1. worker \in [Workers -> Worker] /\ Workers = {"loop", "api"}
  BY DEF PublisherInv, TypeOK, Workers
<1>2. Apart(worker["loop"], worker["api"])
  BY DEF PublisherInv, WorkersOK
<1>3. CASE w = "loop"
  <2>1. Apart(worker["loop"], worker["api"])'
    BY <1>1, <1>2, <1>3 DEF Apart, Keeps
  <2> QED BY <2>1, WorkerStepApart
<1>4. CASE w = "api"
  <2>1. Apart(worker["loop"], worker["api"])'
    BY <1>1, <1>2, <1>4 DEF Apart, Keeps
  <2> QED BY <2>1, WorkerStepApart
<1> QED BY <1>1, <1>3, <1>4

\* The rows stay as they are.
LEMMA LocalStep ==
  ASSUME PublisherInv, NEW w \in Workers, NEW st \in Worker,
         worker' = [worker EXCEPT ![w] = st],
         Remembers(st, rows, txs, registry), Keeps(worker[w], st),
         w = "api" => ApiBuilds(st),
         UNCHANGED <<content, rows, chainVars, scenario>>, trouble' \in [Disturbance -> Nat]
  PROVE  PublisherInv'
<1>1. UNCHANGED <<content, txs, registry, rows>>
  BY DEF chainVars
<1>2. rows' \in Seq(Row) /\ RowsOK' /\ RefsDiffer'
  BY <1>1 DEF PublisherInv, TypeOK, RowsOK, RefsDiffer
<1>3. RowsKept(rows, rows') /\ Remembers(st, rows', txs, registry)
  BY <1>1, Same
<1> QED BY <1>2, <1>3, WorkerStep

\* One row is rewritten.
LEMMA RowStep ==
  ASSUME PublisherInv, NEW w \in Workers, NEW st \in Worker,
         worker' = [worker EXCEPT ![w] = st],
         NEW r \in DOMAIN rows, NEW row \in Row, rows' = [rows EXCEPT ![r] = row],
         row.content = rows[r].content, row.ref = rows[r].ref,
         rows[r].onchain # 0 => row.onchain = rows[r].onchain,
         RowOK(row, txs, registry, content),
         Remembers(st, rows, txs, registry), Keeps(worker[w], st),
         w = "api" => ApiBuilds(st),
         UNCHANGED <<content, chainVars, scenario>>, trouble' \in [Disturbance -> Nat]
  PROVE  PublisherInv'
<1>1. UNCHANGED <<content, txs, registry>>
  BY DEF chainVars
<1>2. rows \in Seq(Row)
  BY DEF PublisherInv, TypeOK
<1>3. /\ rows' \in Seq(Row) /\ DOMAIN rows' = DOMAIN rows /\ rows'[r] = row
      /\ \A q \in DOMAIN rows : q # r => rows'[q] = rows[q]
  BY <1>2, Updated
<1>4. RowsKept(rows, rows')
  BY <1>3 DEF RowsKept
<1>5. RowsOK' /\ RefsDiffer'
  BY <1>1, <1>3 DEF PublisherInv, RowsOK, RefsDiffer
<1>6. Remembers(st, rows', txs, registry)
  BY <1>4, Same, OnchainIn, RemembersKept
<1> QED BY <1>3, <1>4, <1>5, <1>6, WorkerStep

\* What every step starts from.
LEMMA WorkerFacts ==
  ASSUME PublisherInv, NEW w \in Workers
  PROVE  /\ worker \in [Workers -> Worker] /\ worker[w] \in Worker
         /\ Remembers(worker[w], rows, txs, registry)
         /\ Placed(worker[w]) /\ ToVisit(worker[w], rows) /\ InHand(worker[w], rows)
         /\ Awaits(worker[w], rows, txs) /\ SawRightly(worker[w], registry)
         /\ w = "api" => ApiBuilds(worker[w])
         /\ w = "api" /\ worker[w].pc # "idle" => worker[w].stage = "build"
         /\ trouble \in [Disturbance -> Nat]
<1>1. /\ worker \in [Workers -> Worker] /\ Remembers(worker[w], rows, txs, registry)
      /\ w = "api" => ApiBuilds(worker[w])
  BY DEF PublisherInv, TypeOK, WorkersOK
<1>2. w = "api" /\ worker[w].pc # "idle" => worker[w].stage = "build"
  BY <1>1 DEF ApiBuilds, Idle
<1> QED BY <1>1, <1>2 DEF PublisherInv, TypeOK, Remembers

LEMMA TableFacts ==
  ASSUME PublisherInv
  PROVE  /\ rows \in Seq(Row) /\ Len(rows) \in Nat /\ DOMAIN rows = 1 .. Len(rows)
         /\ \A r \in DOMAIN rows : rows[r] \in Row /\ r \in Nat /\ r # 0
         /\ txs \in Seq(Tx) /\ Len(txs) \in Nat /\ DOMAIN txs = 1 .. Len(txs)
         /\ \A t \in DOMAIN txs : txs[t] \in Tx /\ t \in Nat /\ t # 0
         /\ registry \in Seq(OnchainEpoch) /\ Len(registry) \in Nat /\ DOMAIN registry = 1 .. Len(registry)
         /\ \A i \in DOMAIN registry : registry[i] \in OnchainEpoch /\ i \in Nat /\ i # 0
         /\ content \in Nat
<1>1. rows \in Seq(Row) /\ txs \in Seq(Tx) /\ registry \in Seq(OnchainEpoch)
  BY DEF PublisherInv, TypeOK
<1>2. content \in Nat
  BY PublisherAssumption DEF PublisherInv, TypeOK
<1> QED BY <1>1, <1>2, DomainOf

LEMMA Disturbed ==
  ASSUME trouble \in [Disturbance -> Nat], NEW kind \in Disturbance, Disturb(kind)
  PROVE  trouble' \in [Disturbance -> Nat]
  BY DEF Disturb

\* PendingNonce counts.
LEMMA NonceCounts ==
  ASSUME PublisherInv
  PROVE  PendingNonce \in Nat
<1>1. IsFiniteSet(DOMAIN txs)
  BY TableFacts, FS_Interval
<1>2. IsFiniteSet({t \in DOMAIN txs : txs[t].state \in {"mempool", "ok", "reverted"}})
  BY <1>1, FS_Subset
<1> QED BY <1>2, FS_CardinalityType DEF PendingNonce

\* The oldest of the rows to visit is one of them.
LEMMA PickedIn ==
  ASSUME PublisherInv, NEW w \in Workers, NEW stage, Picked(w, stage)
  PROVE  /\ PickedRow(w) \in worker[w].todo /\ PickedRow(w) \in DOMAIN rows
         /\ worker[w].pc = "pick" /\ worker[w].stage = stage
<1>1. worker[w].todo \subseteq DOMAIN rows /\ worker[w].todo # {} /\ worker[w].pc = "pick"
  BY WorkerFacts DEF ToVisit, Picked
<1>2. worker[w].todo \subseteq Nat
  BY <1>1, TableFacts
<1>3. PickedRow(w) \in worker[w].todo
  BY <1>1, <1>2, SmallestOf DEF PickedRow
<1> QED BY <1>1, <1>3 DEF Picked

\* A call is prepared for a row in hand.
LEMMA PreparedOK ==
  ASSUME PublisherInv, NEW w \in Workers, NEW st \in Worker, NEW r \in DOMAIN rows,
         NEW call \in {"approve", "publish", "finalize", "claim"}, NEW arg \in Nat,
         st.pc # "query", ToVisit(st, rows),
         st.stage = "build" => Building(worker[w]) /\ worker[w].row = r /\ rows[r].ref = 0
                               /\ call \in {"approve", "publish"},
         st.stage \notin {"resume"},
         st.stage = "finalize" => call = "finalize", st.stage = "claim" => call = "claim",
         call = "publish" => arg = rows[r].content,
         call \in {"finalize", "claim"} => rows[r].onchain = arg /\ arg # 0,
         call = "finalize" =>
           /\ st.seen # "none"
           /\ st.seen = "Proposed" => Foreseen(registry[arg])
  PROVE  LET new == Prepare(st, r, call, arg)
         IN  /\ new \in Worker /\ Remembers(new, rows, txs, registry)
             /\ Keeps(worker[w], new) /\ new.stage = st.stage
<1> DEFINE new == Prepare(st, r, call, arg)
<1>1. PendingNonce \in Nat /\ r \in Nat
  BY NonceCounts, TableFacts
<1>2. /\ new \in Worker /\ new.pc = "send" /\ new.row = r /\ new.call = call /\ new.arg = arg
      /\ new.stage = st.stage /\ new.todo = st.todo /\ new.seen = st.seen
  BY <1>1 DEF Prepare, Worker
<1> HIDE DEF new
<1>3. Placed(new)
  BY <1>2 DEF Placed
<1>4. ToVisit(new, rows)
  BY <1>2 DEF ToVisit
<1>5. InHand(new, rows)
  BY <1>2 DEF InHand, Building, Unsent
<1>6. Awaits(new, rows, txs) /\ SawRightly(new, registry)
  BY <1>2 DEF Awaits, SawRightly
<1>7. Keeps(worker[w], new)
  BY <1>2 DEF Keeps, Building
<1> QED BY <1>2, <1>3, <1>4, <1>5, <1>6, <1>7 DEF Remembers, new

-----------------------------------------------------------------------------
(* The steps that only move a worker.                                      *)

LEMMA BeginTickKeeps ==
  ASSUME PublisherInv, NEW w \in Workers, NEW b \in BOOLEAN, BeginTick(w, b), UNCHANGED scenario
  PROVE  PublisherInv'
<1> DEFINE st == [Idle EXCEPT !.pc = "query", !.building = b]
<1>1. st \in Worker /\ st.pc = "query" /\ st.stage = "resume"
  BY DEF Idle, Worker
<1>2. w = "loop" /\ worker' = [worker EXCEPT ![w] = st] /\ UNCHANGED <<content, rows, chainVars, trouble>>
  BY DEF BeginTick, To
<1> HIDE DEF st
<1>3. ToVisit(st, rows)
  BY <1>1 DEF ToVisit
<1>4. Remembers(st, rows, txs, registry) /\ Keeps(worker[w], st)
  BY <1>1, <1>3, BetweenOK
<1> QED BY <1>1, <1>2, <1>4, WorkerFacts, LocalStep

LEMMA QueryKeeps ==
  ASSUME PublisherInv, NEW w \in Workers, Query(w), UNCHANGED scenario
  PROVE  PublisherInv'
<1> DEFINE old == worker[w]
           st == [old EXCEPT !.todo = StageRows(old.stage), !.pc = "pick"]
<1>1. old.pc = "query" /\ old \in Worker /\ old.stage \in {"resume", "finalize", "claim"} /\ w # "api"
  BY WorkerFacts DEF Query, Placed, Worker
<1>2. \A r \in DOMAIN rows : RowOK(rows[r], txs, registry, content)
  BY DEF PublisherInv, RowsOK
<1>3. StageRows(old.stage) \subseteq DOMAIN rows
  BY <1>1 DEF StageRows, RowsWith
<1>4. old.stage = "resume" => \A r \in StageRows(old.stage) : rows[r].ref # 0
  BY <1>2 DEF StageRows, RowsWith, RowOK
<1>5. old.stage \in {"finalize", "claim"} => \A r \in StageRows(old.stage) : rows[r].onchain # 0
  <2>1. old.stage = "finalize" => StageRows(old.stage) = RowsWith("published")
    BY DEF StageRows
  <2>2. old.stage = "claim" => StageRows(old.stage) \subseteq RowsWith("finalized")
    BY DEF StageRows
  <2> QED BY <1>2, <2>1, <2>2 DEF RowsWith, RowOK
<1>6. StageRows(old.stage) \in SUBSET Nat
  BY <1>3, TableFacts
<1>7. /\ st \in Worker /\ st.pc = "pick" /\ st.stage = old.stage
      /\ st.todo = StageRows(old.stage)
  BY <1>1, <1>6 DEF Worker
<1>8. worker' = [worker EXCEPT ![w] = st] /\ UNCHANGED <<content, rows, chainVars, trouble>>
  BY DEF Query, To
<1> HIDE DEF st
<1>9. ToVisit(st, rows)
  BY <1>3, <1>4, <1>5, <1>7 DEF ToVisit
<1>10. Remembers(st, rows, txs, registry) /\ Keeps(worker[w], st)
  BY <1>1, <1>7, <1>9, BetweenOK
<1> QED BY <1>1, <1>7, <1>8, <1>10, WorkerFacts, LocalStep

LEMMA EndStageKeeps ==
  ASSUME PublisherInv, NEW w \in Workers, EndStage(w), UNCHANGED scenario
  PROVE  PublisherInv'
<1>1. worker' = [worker EXCEPT ![w] = NextStage(worker[w])]
      /\ UNCHANGED <<content, rows, chainVars, trouble>> /\ worker[w].pc = "pick"
  BY DEF EndStage, To
<1>2. /\ NextStage(worker[w]) \in Worker
      /\ Remembers(NextStage(worker[w]), rows, txs, registry) /\ Keeps(worker[w], NextStage(worker[w]))
      /\ w = "api" => ApiBuilds(NextStage(worker[w]))
  BY <1>1, WorkerFacts, NextStageOK
<1> QED BY <1>1, <1>2, WorkerFacts, LocalStep

\* Submit or Wait failed: the stage is over, the tables are as they were.
LEMMA StageFailsKeeps ==
  ASSUME PublisherInv, NEW w \in Workers, worker[w].pc \notin {"idle", "query"},
         worker' = [worker EXCEPT ![w] = StageFails(worker[w])],
         UNCHANGED <<content, rows, chainVars, scenario>>, trouble' \in [Disturbance -> Nat]
  PROVE  PublisherInv'
<1>1. /\ NextStage(worker[w]) \in Worker
      /\ Remembers(NextStage(worker[w]), rows, txs, registry) /\ Keeps(worker[w], NextStage(worker[w]))
      /\ w = "api" => ApiBuilds(NextStage(worker[w]))
  BY WorkerFacts, NextStageOK
<1> QED BY <1>1, LocalStep DEF StageFails

LEMMA SubmitFailsKeeps ==
  ASSUME PublisherInv, NEW w \in Workers, SubmitFails(w), UNCHANGED scenario
  PROVE  PublisherInv'
<1>1. trouble' \in [Disturbance -> Nat]
  BY WorkerFacts, Disturbed DEF SubmitFails, Disturbance
<1> QED BY <1>1, StageFailsKeeps DEF SubmitFails, To

LEMMA GiveUpKeeps ==
  ASSUME PublisherInv, NEW w \in Workers, GiveUp(w), UNCHANGED scenario
  PROVE  PublisherInv'
<1>1. trouble' \in [Disturbance -> Nat]
  BY WorkerFacts, Disturbed DEF GiveUp, Disturbance
<1>2. CASE worker[w].call # "publish"
  BY <1>1, <1>2, StageFailsKeeps DEF GiveUp, To
<1>3. CASE worker[w].call = "publish"
  <2>1. worker' = [worker EXCEPT ![w] = Unresolved(worker[w])] /\ worker[w].pc = "wait"
        /\ UNCHANGED <<content, rows, chainVars, scenario>>
    BY <1>3 DEF GiveUp, To
  <2>2. /\ Unresolved(worker[w]) \in Worker
        /\ Remembers(Unresolved(worker[w]), rows, txs, registry) /\ Keeps(worker[w], Unresolved(worker[w]))
        /\ w = "api" => ApiBuilds(Unresolved(worker[w]))
    BY <2>1, WorkerFacts, UnresolvedOK
  <2> QED BY <1>1, <2>1, <2>2, LocalStep
<1> QED BY <1>2, <1>3

LEMMA BondKeeps ==
  ASSUME PublisherInv, NEW w \in Workers, Bond(w), UNCHANGED scenario
  PROVE  PublisherInv'
<1> DEFINE old == worker[w]
<1>1. /\ old \in Worker /\ old.pc = "bond" /\ old.stage = "build" /\ old.row \in DOMAIN rows
      /\ rows[old.row].ref = 0 /\ Building(old)
  BY WorkerFacts DEF Bond, Placed, InHand, Building, Unsent
<1>2. UNCHANGED <<content, rows, chainVars, trouble>>
  BY DEF Bond
<1>3. CASE CanPublish
  <2> DEFINE st == [old EXCEPT !.pc = "publish"]
  <2>1. worker' = [worker EXCEPT ![w] = st]
    BY <1>3 DEF Bond, To
  <2>2. /\ st \in Worker /\ st.pc = "publish" /\ st.row = old.row /\ st.stage = "build"
        /\ st.todo = old.todo
    BY <1>1 DEF Worker
  <2> HIDE DEF st
  <2>3. Placed(st) /\ InHand(st, rows) /\ Awaits(st, rows, txs) /\ SawRightly(st, registry)
    BY <1>1, <2>2 DEF Placed, InHand, Building, Unsent, Awaits, SawRightly
  <2>4. ToVisit(st, rows)
    BY <1>1, <2>2, WorkerFacts DEF ToVisit
  <2>5. Keeps(old, st) /\ ApiBuilds(st)
    BY <1>1, <2>2 DEF Keeps, ApiBuilds
  <2> QED BY <1>2, <2>1, <2>2, <2>3, <2>4, <2>5, WorkerFacts, LocalStep DEF Remembers
<1>4. CASE ~CanPublish
  <2> DEFINE st == Prepare(old, old.row, "approve", 0)
  <2>1. worker' = [worker EXCEPT ![w] = st]
    BY <1>4 DEF Bond, To
  <2>2. ToVisit(old, rows)
    BY WorkerFacts
  <2>3. st \in Worker /\ Remembers(st, rows, txs, registry) /\ Keeps(old, st) /\ st.stage = "build"
    BY <1>1, <2>2, PreparedOK
  <2> HIDE DEF st
  <2>4. ApiBuilds(st)
    BY <2>3 DEF ApiBuilds
  <2> QED BY <1>2, <2>1, <2>3, <2>4, WorkerFacts, LocalStep
<1> QED BY <1>3, <1>4

LEMMA PublishKeeps ==
  ASSUME PublisherInv, NEW w \in Workers, Publish(w), UNCHANGED scenario
  PROVE  PublisherInv'
<1> DEFINE old == worker[w]
<1>1. /\ old \in Worker /\ old.pc = "publish" /\ old.stage = "build" /\ old.row \in DOMAIN rows
      /\ rows[old.row].ref = 0 /\ Building(old)
  BY WorkerFacts DEF Publish, Placed, InHand, Building, Unsent
<1>2. UNCHANGED <<content, rows, chainVars, trouble>>
  BY DEF Publish
<1>3. CASE CanPublish
  <2> DEFINE n == rows[old.row].content
             st == Prepare(old, old.row, "publish", n)
  <2>1. worker' = [worker EXCEPT ![w] = st]
    BY <1>3 DEF Publish, To
  <2>2. ToVisit(old, rows)
    BY WorkerFacts
  <2>3. n \in Nat
    BY <1>1, TableFacts DEF Row
  <2>4. st \in Worker /\ Remembers(st, rows, txs, registry) /\ Keeps(old, st) /\ st.stage = "build"
    BY <1>1, <2>2, <2>3, PreparedOK
  <2> HIDE DEF st
  <2>5. ApiBuilds(st)
    BY <2>4 DEF ApiBuilds
  <2> QED BY <1>2, <2>1, <2>4, <2>5, WorkerFacts, LocalStep
<1>4. CASE ~CanPublish
  BY <1>2, <1>4, IdleOK, WorkerFacts, LocalStep DEF Publish, To
<1> QED BY <1>3, <1>4

LEMMA CrashKeeps ==
  ASSUME PublisherInv, Crash, UNCHANGED scenario
  PROVE  PublisherInv'
<1>1. /\ worker' = [w \in Workers |-> Idle]
      /\ UNCHANGED <<content, rows, txs, registry, allowance, paid, scenario>>
  BY DEF Crash, chainVars
<1>2. trouble' \in [Disturbance -> Nat]
  BY Disturbed DEF Crash, Disturbance, PublisherInv, TypeOK
<1>3. TypeOK'
  BY <1>1, <1>2, IdleOK DEF PublisherInv, TypeOK
<1>4. TxsOK' /\ RegistryOK' /\ RowsOK' /\ RefsDiffer' /\ IdsDiffer'
  BY <1>1 DEF PublisherInv, TxsOK, RegistryOK, RowsOK, RefsDiffer, IdsDiffer
<1>5. \A w \in Workers : worker'[w] = Idle
  BY <1>1
<1>6. WorkersOK'
  <2>1. Apart(Idle, Idle)
    BY DEF Apart, Idle, Building
  <2>2. "loop" \in Workers /\ "api" \in Workers
    BY DEF Workers
  <2>3. \A w \in Workers : Remembers(worker'[w], rows', txs', registry')
    BY <1>5, IdleOK
  <2> QED BY <1>5, <2>1, <2>2, <2>3, IdleOK DEF WorkersOK
<1> QED BY <1>3, <1>4, <1>6 DEF PublisherInv

-----------------------------------------------------------------------------
(* The steps that rewrite a row.                                           *)

\* The row a stage visits next.
LEMMA AtRowOK ==
  ASSUME PublisherInv, NEW w \in Workers, NEW stage, stage # "build", Picked(w, stage)
  PROVE  /\ AtRow(w) \in Worker /\ AtRow(w).pc = "pick" /\ ToVisit(AtRow(w), rows)
         /\ AtRow(w).stage = stage /\ AtRow(w).todo = worker[w].todo /\ AtRow(w).row = PickedRow(w)
         /\ w # "api"
<1>1. PickedRow(w) \in Nat /\ worker[w].pc = "pick" /\ worker[w].stage = stage
  BY PickedIn, TableFacts
<1>2. /\ AtRow(w) \in Worker /\ AtRow(w).pc = "pick" /\ AtRow(w).todo = worker[w].todo
      /\ AtRow(w).stage = worker[w].stage /\ AtRow(w).row = PickedRow(w)
  BY <1>1, WorkerFacts DEF AtRow, Worker
<1>3. ToVisit(AtRow(w), rows)
  BY <1>1, <1>2, WorkerFacts DEF ToVisit
<1> QED BY <1>1, <1>2, <1>3, WorkerFacts

\* A row is settled without a call, and the stage goes on to the next.
LEMMA VisitKeeps ==
  ASSUME PublisherInv, NEW w \in Workers, NEW stage, stage # "build", Picked(w, stage),
         NEW row \in Row, rows' = [rows EXCEPT ![PickedRow(w)] = row],
         row.content = rows[PickedRow(w)].content, row.ref = rows[PickedRow(w)].ref,
         row.onchain = rows[PickedRow(w)].onchain, RowOK(row, txs, registry, content),
         worker' = [worker EXCEPT ![w] = RowDone(AtRow(w))],
         UNCHANGED <<content, chainVars, scenario, trouble>>
  PROVE  PublisherInv'
<1>1. PickedRow(w) \in DOMAIN rows
  BY PickedIn
<1>2. /\ RowDone(AtRow(w)) \in Worker /\ Remembers(RowDone(AtRow(w)), rows, txs, registry)
      /\ Keeps(worker[w], RowDone(AtRow(w))) /\ w # "api"
  BY AtRowOK, RowDoneOK
<1> QED BY <1>1, <1>2, WorkerFacts, RowStep

LEMMA ResumeRowKeeps ==
  ASSUME PublisherInv, NEW w \in Workers, ResumeRow(w), UNCHANGED scenario
  PROVE  PublisherInv'
<1>0. PICK r : r = PickedRow(w)
  OBVIOUS
<1>1. Picked(w, "resume") /\ UNCHANGED <<content, chainVars, trouble>>
  BY DEF ResumeRow
<1>2. /\ r \in worker[w].todo /\ r \in DOMAIN rows /\ worker[w].pc = "pick" /\ worker[w].stage = "resume"
      /\ rows[r].ref # 0 /\ rows[r] \in Row /\ RowOK(rows[r], txs, registry, content)
  BY <1>0, <1>1, PickedIn, TableFacts, WorkerFacts DEF ToVisit, PublisherInv, RowsOK
<1>3. CASE rows[r].stale
  <2> DEFINE row == [rows[r] EXCEPT !.status = "failed"]
  <2>1. rows' = [rows EXCEPT ![r] = row] /\ worker' = [worker EXCEPT ![w] = RowDone(AtRow(w))]
    BY <1>0, <1>3 DEF ResumeRow, To
  <2>2. /\ row \in Row /\ row.content = rows[r].content /\ row.ref = rows[r].ref
        /\ row.onchain = rows[r].onchain /\ row.status = "failed"
    BY <1>2 DEF Row, RowStatus
  <2> HIDE DEF row
  <2>3. RowOK(row, txs, registry, content)
    BY <1>2, <2>2 DEF RowOK
  <2> QED BY <1>0, <1>1, <2>1, <2>2, <2>3, VisitKeeps
<1>4. CASE ~rows[r].stale
  <2> DEFINE st == [AtRow(w) EXCEPT !.pc = "wait", !.call = "publish", !.ref = rows[r].ref]
  <2>1. worker' = [worker EXCEPT ![w] = st] /\ UNCHANGED rows
    BY <1>0, <1>4 DEF ResumeRow, To
  <2>2. AtRow(w) \in Worker /\ AtRow(w).stage = "resume" /\ AtRow(w).row = r /\ ToVisit(AtRow(w), rows)
        /\ AtRow(w).pc = "pick" /\ w # "api"
    BY <1>0, <1>1, AtRowOK
  <2>3. /\ st \in Worker /\ st.pc = "wait" /\ st.call = "publish" /\ st.ref = rows[r].ref
        /\ st.stage = "resume" /\ st.row = r /\ st.todo = AtRow(w).todo
    BY <1>2, <2>2 DEF Worker, Row
  <2> HIDE DEF st
  <2>4. ToVisit(st, rows)
    BY <2>2, <2>3 DEF ToVisit
  <2>5. Placed(st) /\ InHand(st, rows) /\ SawRightly(st, registry) /\ Keeps(worker[w], st)
    BY <1>2, <2>3 DEF Placed, InHand, Building, SawRightly, Keeps
  <2>6. Awaits(st, rows, txs)
    BY <1>2, <2>3 DEF Awaits, RowOK
  <2> QED BY <1>1, <2>1, <2>2, <2>3, <2>4, <2>5, <2>6, WorkerFacts, LocalStep DEF Remembers
<1> QED BY <1>3, <1>4

LEMMA FinalizeRowKeeps ==
  ASSUME PublisherInv, NEW w \in Workers, FinalizeRow(w), UNCHANGED scenario
  PROVE  PublisherInv'
<1>0. PICK r : r = PickedRow(w)
  OBVIOUS
<1> DEFINE i == rows[r].onchain
<1>1. Picked(w, "finalize") /\ UNCHANGED <<content, chainVars, trouble>>
  BY DEF FinalizeRow
<1>2. /\ r \in worker[w].todo /\ r \in DOMAIN rows /\ worker[w].pc = "pick" /\ worker[w].stage = "finalize"
      /\ i # 0 /\ rows[r] \in Row /\ RowOK(rows[r], txs, registry, content)
  BY <1>0, <1>1, PickedIn, TableFacts, WorkerFacts DEF ToVisit, PublisherInv, RowsOK
<1>3. i \in DOMAIN registry /\ registry[i] \in OnchainEpoch /\ EpochOK(registry[i], content)
  BY <1>2, OnchainIn, TableFacts DEF PublisherInv, RegistryOK
<1>4. CASE /\ ~Undecided(i)
           /\ rows' = [rows EXCEPT ![r].status = Mirrored(registry[i].status)]
           /\ To(w, RowDone(AtRow(w)))
  <2> DEFINE row == [rows[r] EXCEPT !.status = Mirrored(registry[i].status)]
  <2>1. rows' = [rows EXCEPT ![r] = row] /\ worker' = [worker EXCEPT ![w] = RowDone(AtRow(w))]
    BY <1>4 DEF To
  <2>2. /\ row \in Row /\ row.content = rows[r].content /\ row.ref = rows[r].ref
        /\ row.onchain = i /\ row.status = Mirrored(registry[i].status)
    BY <1>2 DEF Row, RowStatus, Mirrored
  <2> HIDE DEF row
  <2>3. RowOK(row, txs, registry, content)
    BY <1>2, <1>3, <1>4, <2>2 DEF RowOK, Mirrored, Undecided, OnchainEpoch
  <2> QED BY <1>0, <1>1, <2>1, <2>2, <2>3, VisitKeeps
<1>5. CASE To(w, RowDone(AtRow(w))) /\ UNCHANGED rows
  <2>1. worker' = [worker EXCEPT ![w] = RowDone(AtRow(w))] /\ UNCHANGED rows
    BY <1>5 DEF To
  <2>2. /\ RowDone(AtRow(w)) \in Worker /\ Remembers(RowDone(AtRow(w)), rows, txs, registry)
        /\ Keeps(worker[w], RowDone(AtRow(w))) /\ w # "api"
    BY <1>1, AtRowOK, RowDoneOK
  <2> QED BY <1>1, <2>1, <2>2, WorkerFacts, LocalStep
<1>6. CASE /\ Finalizable(i) /\ (registry[i].status = "Proposed" => ~registry[i].open)
           /\ To(w, Prepare([worker[w] EXCEPT !.seen = registry[i].status], r, "finalize", i))
           /\ UNCHANGED rows
  <2> DEFINE at == [worker[w] EXCEPT !.seen = registry[i].status]
             st == Prepare(at, r, "finalize", i)
  <2>1. \/ registry[i].status = "Proposed" /\ ~registry[i].open
        \/ registry[i].status = "Challenged"
    BY <1>6 DEF Finalizable, Disputed, Undecided
  <2>2. /\ at \in Worker /\ at.pc = "pick" /\ at.stage = "finalize" /\ at.todo = worker[w].todo
        /\ at.seen = registry[i].status
    BY <1>2, <2>1, WorkerFacts DEF Worker
  <2>3. worker' = [worker EXCEPT ![w] = st] /\ UNCHANGED rows
    BY <1>6 DEF To
  <2> HIDE DEF at
  <2>4. ToVisit(at, rows)
    BY <1>2, <2>2, WorkerFacts DEF ToVisit
  <2>5. i \in Nat
    BY <1>3, TableFacts
  <2>6. at.seen # "none" /\ (at.seen = "Proposed" => Foreseen(registry[i]))
    BY <2>1, <2>2 DEF Foreseen
  <2>7. st \in Worker /\ Remembers(st, rows, txs, registry) /\ Keeps(worker[w], st)
    BY <1>2, <2>2, <2>4, <2>5, <2>6, PreparedOK
  <2> QED BY <1>1, <1>2, <2>3, <2>7, WorkerFacts, LocalStep
<1> QED BY <1>0, <1>4, <1>5, <1>6 DEF FinalizeRow

LEMMA ClaimRowKeeps ==
  ASSUME PublisherInv, NEW w \in Workers, ClaimRow(w), UNCHANGED scenario
  PROVE  PublisherInv'
<1>0. PICK r : r = PickedRow(w)
  OBVIOUS
<1> DEFINE i == rows[r].onchain
<1>1. Picked(w, "claim") /\ UNCHANGED <<content, chainVars, trouble>>
  BY DEF ClaimRow
<1>2. /\ r \in worker[w].todo /\ r \in DOMAIN rows /\ worker[w].pc = "pick" /\ worker[w].stage = "claim"
      /\ i # 0 /\ rows[r] \in Row /\ RowOK(rows[r], txs, registry, content) /\ w # "api"
  <2>1. /\ r \in worker[w].todo /\ r \in DOMAIN rows /\ worker[w].pc = "pick" /\ worker[w].stage = "claim"
    BY <1>0, <1>1, PickedIn
  <2>2. i # 0 /\ w # "api"
    BY <2>1, WorkerFacts DEF ToVisit
  <2> QED BY <2>1, <2>2, TableFacts DEF PublisherInv, RowsOK
<1>3. CASE rows' = MarkClaimed(r, 0) /\ To(w, RowDone(AtRow(w)))
  <2> DEFINE row == [rows[r] EXCEPT !.claimed = TRUE, !.reward = 0]
  <2>1. rows' = [rows EXCEPT ![r] = row] /\ worker' = [worker EXCEPT ![w] = RowDone(AtRow(w))]
    BY <1>3 DEF To, MarkClaimed
  <2>2. /\ row \in Row /\ row.content = rows[r].content /\ row.ref = rows[r].ref
        /\ row.onchain = i /\ row.status = rows[r].status
    BY <1>2 DEF Row
  <2> HIDE DEF row
  <2>3. RowOK(row, txs, registry, content)
    BY <1>2, <2>2 DEF RowOK
  <2> QED BY <1>0, <1>1, <2>1, <2>2, <2>3, VisitKeeps
<1>4. CASE To(w, Prepare(worker[w], r, "claim", i)) /\ UNCHANGED rows
  <2> DEFINE st == Prepare(worker[w], r, "claim", i)
  <2>1. i \in Nat /\ ToVisit(worker[w], rows) /\ worker[w] \in Worker
    BY <1>2, WorkerFacts DEF Row
  <2>2. st \in Worker /\ Remembers(st, rows, txs, registry) /\ Keeps(worker[w], st)
    BY <1>2, <2>1, PreparedOK
  <2> QED BY <1>1, <1>2, <1>4, <2>2, WorkerFacts, LocalStep DEF To
<1>5. CASE To(w, StageFails(worker[w])) /\ UNCHANGED rows
  BY <1>1, <1>2, <1>5, WorkerFacts, StageFailsKeeps DEF To
<1> QED BY <1>0, <1>3, <1>4, <1>5 DEF ClaimRow

LEMMA AgeKeeps ==
  ASSUME PublisherInv, NEW r \in DOMAIN rows, Age(r), UNCHANGED scenario
  PROVE  PublisherInv'
<1> DEFINE row == [rows[r] EXCEPT !.stale = TRUE]
<1>1. rows' = [rows EXCEPT ![r] = row] /\ UNCHANGED <<content, chainVars, worker>>
  BY DEF Age
<1>2. trouble' \in [Disturbance -> Nat]
  BY Disturbed DEF Age, Disturbance, PublisherInv, TypeOK
<1>3. /\ row \in Row /\ row.content = rows[r].content /\ row.ref = rows[r].ref
      /\ row.onchain = rows[r].onchain /\ row.status = rows[r].status
  BY TableFacts DEF Row
<1> HIDE DEF row
<1>4. RowOK(row, txs, registry, content)
  BY <1>3 DEF RowOK, PublisherInv, RowsOK
<1>5. "loop" \in Workers
  BY DEF Workers
<1> DEFINE st == worker["loop"]
<1>6. worker' = [worker EXCEPT !["loop"] = st] /\ st \in Worker /\ Remembers(st, rows, txs, registry)
  BY <1>1, <1>5, WorkerFacts
<1>7. Keeps(worker["loop"], st)
  BY DEF Keeps
<1> HIDE DEF st
<1> QED BY <1>1, <1>2, <1>3, <1>4, <1>5, <1>6, <1>7, RowStep

\* A worker that waits, and the row and transaction it waits with.
LEMMA WaitFacts ==
  ASSUME PublisherInv, NEW w \in Workers, worker[w].pc = "wait"
  PROVE  LET st == worker[w]
         IN  /\ st \in Worker /\ st.row \in DOMAIN rows /\ st.ref \in DOMAIN txs /\ st.ref # 0
             /\ rows[st.row] \in Row /\ RowOK(rows[st.row], txs, registry, content)
             /\ txs[st.ref] \in Tx /\ TxOK(txs[st.ref], registry, content)
             /\ txs[st.ref].call = st.call
             /\ st.call = "publish" => rows[st.row].ref = st.ref /\ txs[st.ref].arg = rows[st.row].content
             /\ st.call \in {"finalize", "claim"} =>
                  rows[st.row].onchain = st.arg /\ st.arg # 0 /\ txs[st.ref].arg = st.arg
             /\ st.call = "approve" => st.stage = "build" /\ rows[st.row].ref = 0
<1> DEFINE st == worker[w]
<1>1. st \in Worker /\ Placed(st) /\ InHand(st, rows) /\ Awaits(st, rows, txs)
  BY WorkerFacts
<1>2. /\ st.row \in DOMAIN rows /\ st.ref \in DOMAIN txs /\ txs[st.ref].call = st.call
      /\ st.call = "publish" => rows[st.row].ref = st.ref /\ txs[st.ref].arg = rows[st.row].content
      /\ st.call \in {"finalize", "claim"} =>
           rows[st.row].onchain = st.arg /\ st.arg # 0 /\ txs[st.ref].arg = st.arg
  BY <1>1 DEF InHand, Awaits
<1>3. st.call = "approve" => st.stage = "build" /\ rows[st.row].ref = 0
  BY <1>1 DEF Placed, InHand, Building, Unsent, Worker
<1> QED BY <1>1, <1>2, <1>3, TableFacts DEF PublisherInv, RowsOK, TxsOK

\* A receipt's row is written and its caller goes on to the next row.
LEMMA ReceiptRow ==
  ASSUME PublisherInv, NEW w \in Workers, worker[w].pc = "wait", UNCHANGED scenario,
         UNCHANGED <<content, chainVars, trouble>>,
         NEW row \in Row, rows' = [rows EXCEPT ![worker[w].row] = row],
         row.content = rows[worker[w].row].content, row.ref = rows[worker[w].row].ref,
         rows[worker[w].row].onchain # 0 => row.onchain = rows[worker[w].row].onchain,
         RowOK(row, txs, registry, content),
         To(w, RowDone(worker[w])) \/ To(w, Unresolved(worker[w]))
  PROVE  PublisherInv'
<1>1. ToVisit(worker[w], rows) /\ worker[w].pc = "wait" /\ worker[w] \in Worker
      /\ (w = "api" => ApiBuilds(worker[w])) /\ trouble' \in [Disturbance -> Nat]
  BY WorkerFacts
<1>2. CASE To(w, RowDone(worker[w]))
  <2>1. /\ RowDone(worker[w]) \in Worker
        /\ Remembers(RowDone(worker[w]), rows, txs, registry) /\ Keeps(worker[w], RowDone(worker[w]))
        /\ w = "api" => ApiBuilds(RowDone(worker[w]))
    BY <1>1, RowDoneOK
  <2> QED BY <1>1, <1>2, <2>1, WaitFacts, RowStep DEF To
<1>3. CASE To(w, Unresolved(worker[w]))
  <2>1. /\ Unresolved(worker[w]) \in Worker
        /\ Remembers(Unresolved(worker[w]), rows, txs, registry) /\ Keeps(worker[w], Unresolved(worker[w]))
        /\ w = "api" => ApiBuilds(Unresolved(worker[w]))
    BY <1>1, UnresolvedOK
  <2> QED BY <1>1, <1>3, <2>1, WaitFacts, RowStep DEF To
<1> QED BY <1>2, <1>3

LEMMA ReceiptKeeps ==
  ASSUME PublisherInv, NEW w \in Workers, Receipt(w), UNCHANGED scenario
  PROVE  PublisherInv'
<1>0. PICK st : st = worker[w]
  OBVIOUS
<1>1. PICK row : row = rows[st.row]
  OBVIOUS
<1>2. st.pc = "wait" /\ UNCHANGED <<content, chainVars, trouble>>
  BY <1>0 DEF Receipt
<1>3. /\ st \in Worker /\ st.row \in DOMAIN rows /\ st.ref \in DOMAIN txs /\ st.ref # 0
      /\ row \in Row /\ RowOK(row, txs, registry, content)
      /\ txs[st.ref] \in Tx /\ TxOK(txs[st.ref], registry, content)
      /\ txs[st.ref].call = st.call
      /\ st.call = "publish" => row.ref = st.ref /\ txs[st.ref].arg = row.content
      /\ st.call \in {"finalize", "claim"} => row.onchain = st.arg /\ st.arg # 0 /\ txs[st.ref].arg = st.arg
      /\ st.call = "approve" => st.stage = "build" /\ row.ref = 0
  BY <1>0, <1>1, <1>2, WaitFacts
<1>4. CASE st.call = "approve" /\ rows' = [rows EXCEPT ![st.row] = row] /\ To(w, [st EXCEPT !.pc = "publish"])
  <2> DEFINE new == [st EXCEPT !.pc = "publish"]
  <2>1. worker' = [worker EXCEPT ![w] = new]
    BY <1>4 DEF To
  <2>2. /\ new \in Worker /\ new.pc = "publish" /\ new.row = st.row /\ new.stage = "build"
        /\ new.todo = st.todo
    BY <1>3, <1>4 DEF Worker
  <2> HIDE DEF new
  <2>3. Placed(new) /\ InHand(new, rows) /\ Awaits(new, rows, txs) /\ SawRightly(new, registry)
    BY <1>1, <1>3, <1>4, <2>2 DEF Placed, InHand, Building, Unsent, Awaits, SawRightly
  <2>4. ToVisit(new, rows)
    BY <1>0, <1>2, <2>2, WorkerFacts DEF ToVisit
  <2>5. Keeps(worker[w], new) /\ ApiBuilds(new)
    BY <1>0, <1>2, <1>3, <1>4, <2>2 DEF Keeps, ApiBuilds, Building
  <2> QED BY <1>1, <1>2, <1>3, <1>4, <2>1, <2>2, <2>3, <2>4, <2>5, WorkerFacts, RowStep DEF Remembers
<1>5. CASE /\ st.call = "publish" /\ txs[st.ref].state = "ok"
           /\ rows' = [rows EXCEPT ![st.row] = [row EXCEPT !.status = "published", !.onchain = ReceiptId(st.ref)]]
           /\ To(w, RowDone(st))
  <2> DEFINE new == [row EXCEPT !.status = "published", !.onchain = ReceiptId(st.ref)]
  <2>1. /\ new \in Row /\ new.content = row.content /\ new.ref = row.ref /\ new.status = "published"
        /\ new.onchain = txs[st.ref].result
    BY <1>3 DEF Row, RowStatus, Tx, ReceiptId
  <2>2. rows' = [rows EXCEPT ![st.row] = new]
    BY <1>5
  <2> HIDE DEF new
  <2>3. txs[st.ref].result # 0
    BY <1>3, <1>5, TableFacts DEF TxOK
  <2>4. RowOK(new, txs, registry, content)
    BY <1>3, <1>5, <2>1, <2>3 DEF RowOK
  <2>5. row.onchain # 0 => new.onchain = row.onchain
    BY <1>3, <1>5, <2>1 DEF RowOK
  <2> QED BY <1>0, <1>1, <1>2, <1>5, <2>1, <2>2, <2>4, <2>5, ReceiptRow
<1>6. CASE /\ st.call = "publish" /\ txs[st.ref].state = "reverted"
           /\ rows' = [rows EXCEPT ![st.row] = [row EXCEPT !.status = "failed"]]
           /\ To(w, Unresolved(st))
  <2> DEFINE new == [row EXCEPT !.status = "failed"]
  <2>1. /\ new \in Row /\ new.content = row.content /\ new.ref = row.ref /\ new.status = "failed"
        /\ new.onchain = row.onchain
    BY <1>3 DEF Row, RowStatus
  <2>2. rows' = [rows EXCEPT ![st.row] = new]
    BY <1>6
  <2> HIDE DEF new
  <2>3. RowOK(new, txs, registry, content)
    BY <1>3, <1>6, <2>1 DEF RowOK
  <2> QED BY <1>0, <1>1, <1>2, <1>6, <2>1, <2>2, <2>3, ReceiptRow
<1>7. CASE /\ st.call = "finalize" /\ txs[st.ref].state = "ok"
           /\ rows' = [rows EXCEPT ![st.row] = [row EXCEPT !.status = Verdict(st)]]
           /\ To(w, RowDone(st))
  <2> DEFINE new == [row EXCEPT !.status = Verdict(st)]
  <2>1. /\ new \in Row /\ new.content = row.content /\ new.ref = row.ref /\ new.status = Verdict(st)
        /\ new.onchain = row.onchain
    BY <1>3 DEF Row, RowStatus, Verdict
  <2>2. rows' = [rows EXCEPT ![st.row] = new]
    BY <1>7
  <2> HIDE DEF new
  <2>3. Decided(registry[st.arg].status)
    BY <1>3, <1>7 DEF TxOK
  <2>4. st.seen # "none" /\ (st.seen = "Proposed" => Foreseen(registry[st.arg]))
    BY <1>0, <1>2, <1>7, WorkerFacts DEF SawRightly
  <2>5. /\ new.status = "finalized" => registry[st.arg].status = "Finalized" \/ registry[st.arg].silent
        /\ new.status = "rejected" => registry[st.arg].status = "Rejected"
        /\ new.status \in {"finalized", "rejected"}
    BY <1>3, <2>1, <2>3, <2>4 DEF Verdict, Decided, Worker, Foreseen
  <2>6. RowOK(new, txs, registry, content)
    BY <1>3, <1>7, <2>1, <2>5 DEF RowOK
  <2> QED BY <1>0, <1>1, <1>2, <1>7, <2>1, <2>2, <2>6, ReceiptRow
<1>8. CASE rows' = MarkClaimed(st.row, ReceiptReward(st.ref)) /\ To(w, RowDone(st))
  <2> DEFINE new == [row EXCEPT !.claimed = TRUE, !.reward = ReceiptReward(st.ref)]
  <2>1. /\ new \in Row /\ new.content = row.content /\ new.ref = row.ref /\ new.status = row.status
        /\ new.onchain = row.onchain
    BY <1>3 DEF Row, Tx, ReceiptReward
  <2>2. rows' = [rows EXCEPT ![st.row] = new]
    BY <1>1, <1>8 DEF MarkClaimed
  <2> HIDE DEF new
  <2>3. RowOK(new, txs, registry, content)
    BY <1>3, <2>1 DEF RowOK
  <2> QED BY <1>0, <1>1, <1>2, <1>8, <2>1, <2>2, <2>3, ReceiptRow
<1>9. CASE rows' = [rows EXCEPT ![st.row] = row] /\ To(w, RowDone(st))
  BY <1>0, <1>1, <1>2, <1>3, <1>9, ReceiptRow
<1> QED BY <1>0, <1>1, <1>4, <1>5, <1>6, <1>7, <1>8, <1>9 DEF Receipt

\* MarkSubmitted: the row in hand gets the transaction nobody has recorded yet.
LEMMA MarkSubmittedKeeps ==
  ASSUME PublisherInv, NEW w \in Workers, MarkSubmitted(w), UNCHANGED scenario
  PROVE  PublisherInv'
<1>0. PICK st : st = worker[w]
  OBVIOUS
<1> DEFINE new == [st EXCEPT !.pc = "wait"]
           row == [rows[st.row] EXCEPT !.status = "submitted", !.ref = st.ref]
<1>1. /\ st.pc = "mark" /\ worker' = [worker EXCEPT ![w] = new] /\ rows' = [rows EXCEPT ![st.row] = row]
      /\ UNCHANGED <<content, txs, registry, allowance, paid, trouble>>
  BY <1>0 DEF MarkSubmitted, To, chainVars
<1>2. /\ st \in Worker /\ worker \in [Workers -> Worker] /\ st.stage = "build" /\ st.call = "publish"
      /\ st.row \in DOMAIN rows /\ rows[st.row].ref = 0 /\ st.ref \in DOMAIN txs
      /\ txs[st.ref].call = "publish" /\ txs[st.ref].arg = rows[st.row].content
      /\ \A r \in DOMAIN rows : rows[r].ref # st.ref
  BY <1>0, <1>1, WorkerFacts DEF Placed, InHand, Awaits, Building, Unsent
<1>3. /\ rows[st.row] \in Row /\ st.ref \in Nat /\ st.ref # 0 /\ rows \in Seq(Row)
      /\ RowOK(rows[st.row], txs, registry, content)
  BY <1>2, TableFacts DEF PublisherInv, RowsOK
<1>4. /\ row \in Row /\ row.status = "submitted" /\ row.ref = st.ref /\ row.content = rows[st.row].content
      /\ row.onchain = rows[st.row].onchain
  BY <1>3 DEF Row, RowStatus
<1>5. /\ new \in Worker /\ new.pc = "wait" /\ new.stage = "build" /\ new.call = "publish"
      /\ new.row = st.row /\ new.ref = st.ref /\ new.todo = st.todo
  BY <1>2 DEF Worker
<1> HIDE DEF row, new
<1>6. /\ rows' \in Seq(Row) /\ DOMAIN rows' = DOMAIN rows /\ rows'[st.row] = row
      /\ \A q \in DOMAIN rows : q # st.row => rows'[q] = rows[q]
  BY <1>1, <1>2, <1>3, <1>4, Updated
<1>7. RowOK(row, txs, registry, content)
  BY <1>2, <1>3, <1>4 DEF RowOK
<1>8. RowsOK' /\ RefsDiffer'
  BY <1>1, <1>2, <1>4, <1>6, <1>7 DEF PublisherInv, RowsOK, RefsDiffer
<1>9. TypeOK' /\ TxsOK' /\ RegistryOK' /\ IdsDiffer'
  BY <1>1, <1>2, <1>5, <1>6 DEF PublisherInv, TypeOK, TxsOK, RegistryOK, IdsDiffer
<1>10. Remembers(new, rows', txs, registry)
  <2>1. ToVisit(new, rows')
    BY <1>0, <1>1, <1>4, <1>5, <1>6, WorkerFacts DEF ToVisit
  <2>2. Placed(new) /\ InHand(new, rows') /\ Awaits(new, rows', txs) /\ SawRightly(new, registry)
    BY <1>2, <1>4, <1>5, <1>6 DEF Placed, InHand, Building, Unsent, Awaits, SawRightly
  <2> QED BY <2>1, <2>2 DEF Remembers
<1>11. ASSUME NEW v \in Workers, v # w
       PROVE  Remembers(worker[v], rows', txs, registry)
  <2>0. PICK other : other = worker[v]
    OBVIOUS
  <2>1. /\ other \in Worker /\ Placed(other) /\ ToVisit(other, rows) /\ InHand(other, rows)
        /\ Awaits(other, rows, txs) /\ SawRightly(other, registry)
    BY <2>0, WorkerFacts
  <2>2. Apart(st, other) \/ Apart(other, st)
    BY <1>0, <1>11, <2>0 DEF PublisherInv, WorkersOK, Workers
  <2>3. /\ Building(other) => other.row # st.row
        /\ other.pc = "mark" => other.ref # st.ref
    BY <1>1, <1>2, <2>2 DEF Apart, Building
  <2>4. ToVisit(other, rows')
    BY <1>2, <1>3, <1>4, <1>6, <2>1 DEF ToVisit
  <2>5. InHand(other, rows')
    <3>1. Building(other) /\ Unsent(other) => other.row \in DOMAIN rows /\ rows'[other.row].ref = 0
      BY <1>6, <2>1, <2>3 DEF InHand, Building
    <3>2. other.pc = "mark" => \A r \in DOMAIN rows' : rows'[r].ref # other.ref
      BY <1>4, <1>6, <2>1, <2>3 DEF InHand
    <3>3. other.pc = "wait" /\ other.call = "publish" => other.row # st.row
      BY <1>2, <2>1, TableFacts DEF InHand, Awaits
    <3>4. \A r \in DOMAIN rows : rows'[r].content = rows[r].content /\ rows'[r].onchain = rows[r].onchain
      BY <1>4, <1>6
    <3> QED BY <1>6, <2>1, <3>1, <3>2, <3>3, <3>4 DEF InHand
  <2>6. Awaits(other, rows', txs)
    BY <1>4, <1>6, <2>1 DEF Awaits, InHand
  <2> QED BY <2>0, <2>1, <2>4, <2>5, <2>6 DEF Remembers
<1>12. WorkersOK'
  <2>1. \A v \in Workers : worker'[v] = IF v = w THEN new ELSE worker[v]
    BY <1>1, <1>2
  <2>2. \A v \in Workers : Remembers(worker'[v], rows', txs, registry)
    BY <1>10, <1>11, <2>1
  <2>3. ApiBuilds(worker'["api"])
    BY <1>5, <2>1 DEF PublisherInv, WorkersOK, ApiBuilds, Workers
  <2>4. Building(st) /\ Building(new) /\ new.row = st.row /\ new.pc # "mark"
    BY <1>1, <1>2, <1>5 DEF Building
  <2>5. Apart(worker'["loop"], worker'["api"])
    BY <1>0, <2>1, <2>4 DEF PublisherInv, WorkersOK, Apart, Workers
  <2> QED BY <1>1, <2>2, <2>3, <2>5 DEF WorkersOK
<1> QED BY <1>8, <1>9, <1>12 DEF PublisherInv

\* Build, and CreateEpoch of the store: a row is added, and may be taken in hand.
LEMMA NewRowKeeps ==
  ASSUME PublisherInv, NEW w \in Workers, NEW st, st = Publishing \/ st = Idle,
         rows' = Append(rows, NewRow), worker' = [worker EXCEPT ![w] = st],
         UNCHANGED <<content, chainVars, scenario>>, trouble' \in [Disturbance -> Nat]
  PROVE  PublisherInv'
<1>0. PICK r : r = Len(rows) + 1
  OBVIOUS
<1>1. /\ rows \in Seq(Row) /\ content \in Nat /\ r \in Nat
  BY <1>0, TableFacts
<1>2. /\ NewRow \in Row /\ NewRow.content = content /\ NewRow.status = "built" /\ NewRow.ref = 0
      /\ NewRow.onchain = 0
  BY <1>1 DEF NewRow, Row, RowStatus
<1>3. /\ rows' \in Seq(Row) /\ DOMAIN rows' = DOMAIN rows \cup {r} /\ r \notin DOMAIN rows
      /\ rows'[r] = NewRow /\ \A q \in DOMAIN rows : rows'[q] = rows[q]
  BY <1>0, <1>1, <1>2, Appended
<1>4. UNCHANGED <<content, txs, registry>>
  BY DEF chainVars
<1>5. RowsKept(rows, rows')
  BY <1>2, <1>3 DEF RowsKept
<1>6. RowOK(NewRow, txs, registry, content)
  BY <1>1, <1>2 DEF RowOK
<1>7. RowsOK' /\ RefsDiffer'
  BY <1>2, <1>3, <1>4, <1>6 DEF PublisherInv, RowsOK, RefsDiffer
<1>8. CASE st = Idle
  BY <1>3, <1>5, <1>7, <1>8, IdleOK, WorkerStep
<1>9. CASE st = Publishing
  <2>1. /\ st \in Worker /\ st.pc = "bond" /\ st.stage = "build" /\ st.row = r /\ st.todo = {}
    BY <1>0, <1>1, <1>9 DEF Publishing, Idle, Worker
  <2>2. Remembers(st, rows', txs, registry)
    <3>1. Placed(st) /\ ToVisit(st, rows') /\ InHand(st, rows')
      BY <1>2, <1>3, <2>1 DEF Placed, ToVisit, InHand
    <3>2. Awaits(st, rows', txs) /\ SawRightly(st, registry)
      BY <2>1 DEF Awaits, SawRightly
    <3> QED BY <3>1, <3>2 DEF Remembers
  <2>3. \A v \in Workers : Building(worker[v]) => worker[v].row # r
    BY <1>3, WorkerFacts DEF InHand, Building
  <2>4. Apart(worker["loop"], worker["api"])'
    BY <2>1, <2>3, WorkerFacts DEF Apart, Workers
  <2>5. ApiBuilds(st)
    BY <2>1 DEF ApiBuilds
  <2> QED BY <1>3, <1>5, <1>7, <2>1, <2>2, <2>4, <2>5, WorkerStepApart
<1> QED BY <1>8, <1>9

LEMMA BuildKeeps ==
  ASSUME PublisherInv, NEW w \in Workers, Build(w), UNCHANGED scenario
  PROVE  PublisherInv'
<1>1. CASE Builds(FALSE)
  <2>1. trouble' \in [Disturbance -> Nat]
    BY <1>1, WorkerFacts, Disturbed DEF Build, Disturbance
  <2> QED BY <1>1, <2>1, NewRowKeeps DEF Build, To
<1>2. CASE ~Builds(FALSE)
  <2>1. worker' = [worker EXCEPT ![w] = Idle] /\ UNCHANGED <<content, rows, chainVars, trouble>>
    BY <1>2 DEF Build, To
  <2>2. trouble' \in [Disturbance -> Nat]
    BY <2>1, WorkerFacts
  <2>3. /\ Idle \in Worker /\ Remembers(Idle, rows, txs, registry)
        /\ Keeps(worker[w], Idle) /\ ApiBuilds(Idle)
    BY IdleOK
  <2> QED BY <2>1, <2>2, <2>3, LocalStep
<1> QED BY <1>1, <1>2

LEMMA CreateEpochKeeps ==
  ASSUME PublisherInv, NEW w \in Workers, NEW force \in BOOLEAN, NEW publish \in BOOLEAN,
         CreateEpoch(w, force, publish), UNCHANGED scenario
  PROVE  PublisherInv'
<1>1. trouble' \in [Disturbance -> Nat]
  <2>1. trouble \in [Disturbance -> Nat]
    BY WorkerFacts
  <2>2. trouble' = [trouble EXCEPT !["rows"] = trouble["rows"] + 1, !["posts"] = trouble["posts"] + 1]
    BY DEF CreateEpoch
  <2> QED BY <2>1, <2>2 DEF Disturbance
<1>2. PICK st : st = IF publish THEN Publishing ELSE Idle
  OBVIOUS
<1> QED BY <1>1, <1>2, NewRowKeeps DEF CreateEpoch, To

-----------------------------------------------------------------------------
(* The steps that send.                                                    *)

\* A transaction leaves the mempool unmined.
LEMMA OutOfPool ==
  ASSUME NEW tx \in Tx
  PROVE  /\ [tx EXCEPT !.state = "replaced"] \in Tx
         /\ [tx EXCEPT !.state = "dropped"] \in Tx
  BY DEF Tx

\* SendTransaction: what is queued under the same nonce is replaced, nothing that was mined;
\* the worker goes on with the transaction it has sent.
SentBy(st, new) ==
  /\ new \in Worker /\ new.ref = Len(txs) + 1 /\ new.call = st.call /\ new.arg = st.arg
  /\ new.row = st.row /\ new.stage = st.stage /\ new.todo = st.todo /\ new.seen = st.seen
  /\ new.pc = IF st.call = "publish" THEN "mark" ELSE "wait"
  /\ txs' \in Seq(Tx) /\ DOMAIN txs' = DOMAIN txs \cup {new.ref} /\ new.ref \notin DOMAIN txs
  /\ txs'[new.ref] = [call |-> st.call, arg |-> st.arg, nonce |-> st.nonce, state |-> "mempool",
                      result |-> 0]
  /\ \A t \in DOMAIN txs :
       IF txs[t].nonce = st.nonce /\ txs[t].state \in {"mempool", "ok", "reverted"}
         THEN txs[t].state = "mempool" /\ txs'[t] = [txs[t] EXCEPT !.state = "replaced"]
         ELSE txs'[t] = txs[t]

LEMMA SendCases ==
  ASSUME PublisherInv, NEW w \in Workers, Send(w)
  PROVE  /\ worker[w].pc = "send" /\ UNCHANGED <<content, rows, registry, allowance, paid, trouble>>
         /\ \/ worker' = [worker EXCEPT ![w] = StageFails(worker[w])] /\ UNCHANGED txs
            \/ \E new : worker' = [worker EXCEPT ![w] = new] /\ SentBy(worker[w], new)
<1>0. PICK st : st = worker[w]
  OBVIOUS
<1> DEFINE taken == {t \in DOMAIN txs : txs[t].nonce = st.nonce
                                          /\ txs[t].state \in {"mempool", "ok", "reverted"}}
           tx == [call |-> st.call, arg |-> st.arg, nonce |-> st.nonce, state |-> "mempool",
                  result |-> 0]
           after == [t \in DOMAIN txs |-> IF t \in taken THEN [txs[t] EXCEPT !.state = "replaced"]
                                         ELSE txs[t]]
           new == [st EXCEPT !.ref = Len(txs) + 1,
                             !.pc = IF st.call = "publish" THEN "mark" ELSE "wait"]
<1>1. /\ st.pc = "send" /\ UNCHANGED <<content, rows, registry, allowance, paid, trouble>>
      /\ \/ /\ \A t \in taken : txs[t].state = "mempool"
            /\ txs' = Append(after, tx) /\ worker' = [worker EXCEPT ![w] = new]
         \/ worker' = [worker EXCEPT ![w] = StageFails(st)] /\ UNCHANGED txs
  BY <1>0 DEF Send, To
<1>2. ASSUME \A t \in taken : txs[t].state = "mempool", txs' = Append(after, tx)
      PROVE  SentBy(st, new)
  <2>1. st \in Worker
    BY <1>0, WorkerFacts
  <2>2. PICK n : n = Len(txs) + 1
    OBVIOUS
  <2>3. /\ txs \in Seq(Tx) /\ n \in Nat /\ n \notin DOMAIN txs /\ tx \in Tx
        /\ after \in Seq(Tx) /\ Len(after) = Len(txs) /\ DOMAIN after = DOMAIN txs
    <3>1. txs \in Seq(Tx) /\ Len(txs) \in Nat /\ DOMAIN txs = 1 .. Len(txs)
      BY TableFacts
    <3>2. \A t \in DOMAIN txs : [txs[t] EXCEPT !.state = "replaced"] \in Tx /\ txs[t] \in Tx
      BY TableFacts, OutOfPool
    <3>3. after \in [1 .. Len(txs) -> Tx]
      BY <3>1, <3>2
    <3>4. after \in Seq(Tx) /\ Len(after) = Len(txs)
      BY <3>1, <3>3
    <3>5. tx \in Tx
      <4> HIDE DEF after, new, taken
      <4> QED BY <2>1 DEF Tx, Worker
    <3> HIDE DEF tx, after, new, taken
    <3>6. DOMAIN after = DOMAIN txs
      BY DEF after
    <3> QED BY <2>2, <3>1, <3>4, <3>5, <3>6
  <2>4. /\ txs' \in Seq(Tx) /\ DOMAIN txs' = DOMAIN txs \cup {n} /\ txs'[n] = tx
        /\ \A t \in DOMAIN txs : txs'[t] = after[t]
    BY <1>2, <2>2, <2>3, Appended
  <2>5. \A t \in DOMAIN txs : after[t] = IF t \in taken THEN [txs[t] EXCEPT !.state = "replaced"]
                                         ELSE txs[t]
    OBVIOUS
  <2>6. /\ new \in Worker /\ new.ref = n /\ new.call = st.call /\ new.arg = st.arg /\ new.row = st.row
        /\ new.stage = st.stage /\ new.todo = st.todo /\ new.seen = st.seen
        /\ new.pc = IF st.call = "publish" THEN "mark" ELSE "wait"
    BY <2>1, <2>2, <2>3 DEF Worker
  <2> HIDE DEF after, new
  <2>7. \A t \in DOMAIN txs :
          IF txs[t].nonce = st.nonce /\ txs[t].state \in {"mempool", "ok", "reverted"}
            THEN txs[t].state = "mempool" /\ txs'[t] = [txs[t] EXCEPT !.state = "replaced"]
            ELSE txs'[t] = txs[t]
    BY <1>2, <2>4, <2>5
  <2> QED BY <2>2, <2>3, <2>4, <2>6, <2>7 DEF SentBy
<1> HIDE DEF taken, tx, after, new
<1> QED BY <1>0, <1>1, <1>2

LEMMA SendKeeps ==
  ASSUME PublisherInv, NEW w \in Workers, Send(w), UNCHANGED scenario
  PROVE  PublisherInv'
<1>0. PICK st : st = worker[w]
  OBVIOUS
<1>1. st.pc = "send" /\ UNCHANGED <<content, rows, registry, allowance, paid, trouble, scenario>>
  BY <1>0, SendCases
<1>2. CASE worker' = [worker EXCEPT ![w] = StageFails(st)] /\ UNCHANGED txs
  BY <1>0, <1>1, <1>2, WorkerFacts, StageFailsKeeps DEF chainVars
<1>3. ASSUME NEW new, worker' = [worker EXCEPT ![w] = new], SentBy(st, new)
      PROVE  PublisherInv'
  <2>1. /\ st \in Worker /\ worker \in [Workers -> Worker] /\ Placed(st) /\ InHand(st, rows)
        /\ ToVisit(st, rows) /\ SawRightly(st, registry) /\ st.row \in DOMAIN rows
        /\ (w = "api" => ApiBuilds(st))
    BY <1>0, <1>1, WorkerFacts DEF InHand
  <2>2. PICK n : n = new.ref
    OBVIOUS
  <2>3. PICK tx : tx = txs'[n]
    OBVIOUS
  <2>4. /\ txs' \in Seq(Tx) /\ DOMAIN txs' = DOMAIN txs \cup {n} /\ n \notin DOMAIN txs
        /\ n = Len(txs) + 1 /\ n # 0
    BY <1>3, <2>2, TableFacts DEF SentBy
  <2>5. \A t \in DOMAIN txs :
          /\ txs'[t].call = txs[t].call /\ txs'[t].arg = txs[t].arg /\ txs'[t].result = txs[t].result
          /\ txs'[t].state = txs[t].state \/ (txs[t].state = "mempool" /\ txs'[t].state = "replaced")
    <3> SUFFICES ASSUME NEW t \in DOMAIN txs
                 PROVE  /\ txs'[t].call = txs[t].call /\ txs'[t].arg = txs[t].arg /\ txs'[t].result = txs[t].result
                        /\ txs'[t].state = txs[t].state \/ (txs[t].state = "mempool" /\ txs'[t].state = "replaced")
      OBVIOUS
    <3>1. txs[t] \in Tx
      BY TableFacts
    <3>2. txs'[t] = txs[t] \/ (txs[t].state = "mempool" /\ txs'[t] = [txs[t] EXCEPT !.state = "replaced"])
      BY <1>3 DEF SentBy
    <3> QED BY <3>1, <3>2 DEF Tx
  <2>6. /\ tx.call = st.call /\ tx.arg = st.arg /\ tx.state = "mempool" /\ tx.result = 0
    BY <1>3, <2>2, <2>3 DEF SentBy
  <2>7. /\ new \in Worker /\ new.ref = n /\ new.call = st.call /\ new.arg = st.arg /\ new.row = st.row
        /\ new.stage = st.stage /\ new.todo = st.todo /\ new.seen = st.seen
        /\ new.pc = IF st.call = "publish" THEN "mark" ELSE "wait"
    BY <1>3, <2>2 DEF SentBy
  <2>8. TxsKept(txs, txs') /\ EpochsKept(registry, registry')
    BY <1>1, <2>4, <2>5, Same DEF TxsKept, Mined
  <2>9. TxsOK'
    <3>1. TxOK(tx, registry, content)
      <4>1. tx.call = "publish" => tx.arg <= content
        BY <1>1, <2>1, <2>6 DEF InHand, PublisherInv, RowsOK, RowOK
      <4>2. tx.call \in {"finalize", "claim"} => tx.arg \in DOMAIN registry
        BY <1>1, <2>1, <2>6, OnchainIn DEF InHand
      <4> QED BY <2>6, <4>1, <4>2 DEF TxOK
    <3>2. \A t \in DOMAIN txs : TxOK(txs'[t], registry, content)
      BY <2>5 DEF PublisherInv, TxsOK, TxOK
    <3> QED BY <1>1, <2>3, <2>4, <3>1, <3>2 DEF TxsOK
  <2>10. IdsDiffer'
    BY <2>3, <2>4, <2>5, <2>6 DEF PublisherInv, IdsDiffer
  <2>11. RegistryOK' /\ RefsDiffer'
    BY <1>1 DEF PublisherInv, RegistryOK, RefsDiffer
  <2>12. RowsOK'
    <3> SUFFICES ASSUME NEW r \in DOMAIN rows PROVE RowOK(rows[r], txs', registry, content)
      BY <1>1 DEF RowsOK
    <3>1. rows[r] \in Row /\ RowOK(rows[r], txs, registry, content) /\ content \in Nat /\ content <= content
      BY TableFacts DEF PublisherInv, RowsOK
    <3> QED BY <2>8, <3>1, Same, OnchainIn, RowOKKept
  <2>13. TypeOK'
    BY <1>1, <1>3, <2>1, <2>4, <2>7 DEF PublisherInv, TypeOK
  <2>14. \A r \in DOMAIN rows : rows[r].ref # n
    BY <2>4, TableFacts DEF PublisherInv, RowsOK, RowOK
  <2>15. Remembers(new, rows, txs', registry)
    <3>1. Placed(new)
      <4>1. st.stage \in {"resume", "finalize", "claim", "build"}
        BY <2>1 DEF Worker
      <4> QED BY <1>1, <2>1, <2>7, <4>1 DEF Placed
    <3>2. ToVisit(new, rows)
      BY <1>1, <2>1, <2>7 DEF ToVisit
    <3>3. InHand(new, rows)
      BY <1>1, <2>1, <2>7, <2>14 DEF InHand, Building, Unsent
    <3>4. Awaits(new, rows, txs')
      BY <1>1, <2>1, <2>3, <2>4, <2>6, <2>7 DEF Awaits, InHand
    <3>5. SawRightly(new, registry)
      BY <1>1, <2>1, <2>7 DEF SawRightly
    <3> QED BY <3>1, <3>2, <3>3, <3>4, <3>5 DEF Remembers
  <2>16. \A v \in Workers : worker'[v] = IF v = w THEN new ELSE worker[v]
    BY <1>3, <2>1
  <2>17. \A v \in Workers : Remembers(worker'[v], rows', txs', registry')
    <3> SUFFICES ASSUME NEW v \in Workers PROVE Remembers(worker'[v], rows, txs', registry)
      BY <1>1
    <3>1. CASE v = w
      BY <2>15, <2>16, <3>1
    <3>2. CASE v # w
      <4>1. worker[v] \in Worker /\ Remembers(worker[v], rows, txs, registry)
        BY WorkerFacts
      <4>2. Remembers(worker[v], rows, txs', registry)
        BY <2>8, <4>1, Same, OnchainIn, RemembersKept
      <4> QED BY <2>16, <3>2, <4>2
    <3> QED BY <3>1, <3>2
  <2>18. ApiBuilds(worker'["api"])
    <3>1. w = "api" => st.stage = "build"
      BY <1>0, <1>1, WorkerFacts
    <3> QED BY <2>7, <2>16, <3>1 DEF PublisherInv, WorkersOK, ApiBuilds, Workers
  <2>19. Apart(worker'["loop"], worker'["api"])
    <3>1. Building(new) => Building(st) /\ new.row = st.row
      BY <1>1, <2>7 DEF Building
    <3>2. \A v \in Workers : worker[v].pc = "mark" => worker[v].ref \in DOMAIN txs
      BY WorkerFacts DEF Awaits
    <3>3. new.pc = "mark" => \A v \in Workers : worker[v].pc = "mark" => worker[v].ref # new.ref
      BY <2>4, <2>7, <3>2
    <3> QED BY <1>0, <2>16, <3>1, <3>3 DEF PublisherInv, WorkersOK, Apart, Workers
  <2> QED BY <2>9, <2>10, <2>11, <2>12, <2>13, <2>17, <2>18, <2>19 DEF PublisherInv, WorkersOK
<1> QED BY <1>0, <1>2, <1>3, SendCases

-----------------------------------------------------------------------------
(* The steps of the chain and of the index.                                *)

\* The tables of the chain change without taking anything back.
LEMMA ChainStep ==
  ASSUME PublisherInv, UNCHANGED <<rows, worker, scenario>>, trouble' \in [Disturbance -> Nat],
         content' \in 0 .. scenario.growth, content <= content',
         txs' \in Seq(Tx), registry' \in Seq(OnchainEpoch), allowance' \in {0, 1},
         paid' \in 0 .. scenario.growth,
         TxsKept(txs, txs'), EpochsKept(registry, registry'), TxsOK', RegistryOK', IdsDiffer'
  PROVE  PublisherInv'
<1>1. TypeOK'
  BY DEF PublisherInv, TypeOK
<1>2. content \in Nat /\ content' \in Nat
  BY TableFacts, PublisherAssumption DEF PublisherInv, TypeOK
<1>3. RowsOK'
  <2> SUFFICES ASSUME NEW r \in DOMAIN rows PROVE RowOK(rows[r], txs', registry', content')
    BY DEF RowsOK
  <2>1. rows[r] \in Row /\ RowOK(rows[r], txs, registry, content)
    BY TableFacts DEF PublisherInv, RowsOK
  <2> QED BY <1>2, <2>1, OnchainIn, RowOKKept
<1>4. \A w \in Workers : Remembers(worker[w], rows, txs', registry')
  <2> SUFFICES ASSUME NEW w \in Workers PROVE Remembers(worker[w], rows, txs', registry')
    OBVIOUS
  <2>1. worker[w] \in Worker /\ Remembers(worker[w], rows, txs, registry)
    BY WorkerFacts
  <2> QED BY <2>1, Same, OnchainIn, RemembersKept
<1>5. WorkersOK'
  BY <1>4 DEF PublisherInv, WorkersOK
<1>6. RefsDiffer'
  BY DEF PublisherInv, RefsDiffer
<1> QED BY <1>1, <1>3, <1>5, <1>6 DEF PublisherInv

\* The registry changes, and no transaction does.
LEMMA RegistryStep ==
  ASSUME PublisherInv, UNCHANGED <<rows, worker, scenario, content, txs, allowance>>,
         trouble' \in [Disturbance -> Nat],
         registry' \in Seq(OnchainEpoch), paid' \in 0 .. scenario.growth,
         EpochsKept(registry, registry'), RegistryOK'
  PROVE  PublisherInv'
<1>1. content \in Nat /\ content <= content
  BY TableFacts
<1>2. TxsOK'
  <2> SUFFICES ASSUME NEW t \in DOMAIN txs PROVE TxOK(txs[t], registry', content)
    BY DEF TxsOK
  <2>1. txs[t] \in Tx /\ TxOK(txs[t], registry, content)
    BY TableFacts DEF PublisherInv, TxsOK
  <2> QED BY <1>1, <2>1, TxOKKept
<1>3. IdsDiffer' /\ TxsKept(txs, txs')
  BY Same DEF PublisherInv, IdsDiffer
<1>4. content' \in 0 .. scenario.growth /\ txs' \in Seq(Tx) /\ allowance' \in {0, 1}
  BY DEF PublisherInv, TypeOK
<1> QED BY <1>1, <1>2, <1>3, <1>4, ChainStep

\* One commitment changes.
LEMMA EpochStep ==
  ASSUME PublisherInv, NEW i \in DOMAIN registry, NEW e \in OnchainEpoch,
         registry' = [registry EXCEPT ![i] = e],
         e.content = registry[i].content, ~registry[i].open => ~e.open,
         Decided(registry[i].status) => e.status = registry[i].status,
         registry[i].silent => e.silent, Foreseen(registry[i]) => Foreseen(e),
         e.status = "Proposed" => e.verdict = "none" \/ e.silent
  PROVE  registry' \in Seq(OnchainEpoch) /\ EpochsKept(registry, registry')
         /\ (content' = content => RegistryOK')
<1>1. /\ registry' \in Seq(OnchainEpoch) /\ DOMAIN registry' = DOMAIN registry /\ registry'[i] = e
      /\ \A j \in DOMAIN registry : j # i => registry'[j] = registry[j]
  BY TableFacts, Updated
<1>2. EpochsKept(registry, registry')
  BY <1>1 DEF EpochsKept, Decided
<1>3. content' = content => RegistryOK'
  BY <1>1 DEF PublisherInv, RegistryOK, EpochOK
<1> QED BY <1>1, <1>2, <1>3

\* An epoch that is finalizable and settled.
LEMMA SettledOK ==
  ASSUME PublisherInv, NEW i \in DOMAIN registry, Finalizable(i), registry' = Settled(i)
  PROVE  /\ registry' \in Seq(OnchainEpoch) /\ EpochsKept(registry, registry')
         /\ content' = content => RegistryOK'
         /\ Decided(registry'[i].status)
<1> DEFINE e == [registry[i] EXCEPT !.status = IF registry[i].verdict = "refuted"
                                               THEN "Rejected" ELSE "Finalized"]
<1>1. registry[i] \in OnchainEpoch /\ EpochOK(registry[i], content) /\ registry \in Seq(OnchainEpoch)
  BY TableFacts DEF PublisherInv, RegistryOK
<1>2. registry' = [registry EXCEPT ![i] = e]
  BY DEF Settled
<1>3. /\ e \in OnchainEpoch /\ e.content = registry[i].content /\ e.open = registry[i].open
      /\ e.silent = registry[i].silent
      /\ e.status = IF registry[i].verdict = "refuted" THEN "Rejected" ELSE "Finalized"
  BY <1>1 DEF OnchainEpoch
<1> HIDE DEF e
<1>4. registry[i].status = "Proposed" => e.status = "Finalized" \/ e.silent
  BY <1>1, <1>3 DEF EpochOK
<1>5. ~Decided(registry[i].status) /\ Decided(e.status) /\ e.status # "Proposed"
  BY <1>3 DEF Finalizable, Disputed, Undecided, Decided
<1>6. registry'[i] = e
  BY <1>1, <1>2, <1>3, Updated
<1>7. /\ e.content = registry[i].content /\ (~registry[i].open => ~e.open)
      /\ (Decided(registry[i].status) => e.status = registry[i].status)
      /\ (registry[i].silent => e.silent) /\ (Foreseen(registry[i]) => Foreseen(e))
      /\ (e.status = "Proposed" => e.verdict = "none" \/ e.silent)
  BY <1>3, <1>4, <1>5 DEF Foreseen, Decided
<1>8. registry' \in Seq(OnchainEpoch) /\ EpochsKept(registry, registry') /\ (content' = content => RegistryOK')
  BY <1>2, <1>3, <1>7, EpochStep
<1> QED BY <1>5, <1>6, <1>8

LEMMA CloseWindowKeeps ==
  ASSUME PublisherInv, NEW i \in DOMAIN registry, CloseWindow(i), UNCHANGED scenario
  PROVE  PublisherInv'
<1> DEFINE e == [registry[i] EXCEPT !.open = FALSE]
<1>1. registry[i] \in OnchainEpoch /\ EpochOK(registry[i], content) /\ registry[i].open
  BY TableFacts DEF PublisherInv, RegistryOK, CloseWindow
<1>2. registry' = [registry EXCEPT ![i] = e]
      /\ UNCHANGED <<content, rows, txs, allowance, paid, worker, trouble, scenario>>
  BY DEF CloseWindow
<1>3. /\ e \in OnchainEpoch /\ e.content = registry[i].content /\ ~e.open
      /\ e.status = registry[i].status /\ e.verdict = registry[i].verdict /\ e.silent = registry[i].silent
  BY <1>1 DEF OnchainEpoch
<1> HIDE DEF e
<1>4. registry' \in Seq(OnchainEpoch) /\ EpochsKept(registry, registry') /\ RegistryOK'
  BY <1>1, <1>2, <1>3, EpochStep DEF EpochOK, Foreseen
<1>5. paid' \in 0 .. scenario.growth /\ trouble' \in [Disturbance -> Nat]
  BY <1>2 DEF PublisherInv, TypeOK
<1> QED BY <1>2, <1>4, <1>5, RegistryStep

LEMMA DisputeKeeps ==
  ASSUME PublisherInv, NEW i \in DOMAIN registry, NEW silent \in BOOLEAN, Dispute(i, silent),
         UNCHANGED scenario
  PROVE  PublisherInv'
<1> DEFINE s == IF silent THEN registry[i].status ELSE "Challenged"
           e == [registry[i] EXCEPT !.status = s, !.silent = silent]
<1>1. /\ registry[i] \in OnchainEpoch /\ EpochOK(registry[i], content) /\ registry[i].open
      /\ registry[i].status = "Proposed" /\ ~registry[i].silent
  BY TableFacts DEF PublisherInv, RegistryOK, Dispute, Disputed, Undecided
<1>2. registry' = [registry EXCEPT ![i] = e]
      /\ UNCHANGED <<content, rows, txs, allowance, paid, worker, scenario>>
  BY DEF Dispute
<1>3. /\ e \in OnchainEpoch /\ e.content = registry[i].content /\ e.silent = silent
      /\ e.status = IF silent THEN "Proposed" ELSE "Challenged"
  BY <1>1 DEF OnchainEpoch
<1> HIDE DEF e
<1>4. registry' \in Seq(OnchainEpoch) /\ EpochsKept(registry, registry') /\ RegistryOK'
  BY <1>1, <1>2, <1>3, EpochStep DEF Decided, Foreseen
<1>5. paid' \in 0 .. scenario.growth /\ trouble' \in [Disturbance -> Nat]
  BY <1>2, Disturbed DEF PublisherInv, TypeOK, Dispute, Disturbance
<1> QED BY <1>2, <1>4, <1>5, RegistryStep

LEMMA JudgeKeeps ==
  ASSUME PublisherInv, NEW i \in DOMAIN registry, NEW v \in {"upheld", "refuted"}, Judge(i, v),
         UNCHANGED scenario
  PROVE  PublisherInv'
<1> DEFINE s == IF OracleMode THEN registry[i].status
                ELSE IF v = "upheld" THEN "Finalized" ELSE "Rejected"
           e == [registry[i] EXCEPT !.verdict = v, !.status = s]
<1>1. /\ registry[i] \in OnchainEpoch /\ registry[i].status \in {"Proposed", "Challenged"}
      /\ registry[i].status = "Proposed" => registry[i].silent
  BY TableFacts DEF Judge, Disputed, Undecided
<1>2. registry' = [registry EXCEPT ![i] = e]
      /\ UNCHANGED <<content, rows, txs, allowance, paid, worker, trouble, scenario>>
  BY <1>1 DEF Judge
<1>3. /\ e \in OnchainEpoch /\ e.content = registry[i].content /\ e.open = registry[i].open
      /\ e.silent = registry[i].silent /\ (e.status = "Proposed" => e.silent)
      /\ ~Decided(registry[i].status)
  BY <1>1 DEF OnchainEpoch, Decided
<1> HIDE DEF e
<1>4. Foreseen(registry[i]) => Foreseen(e)
  BY <1>1, <1>2, <1>3 DEF Foreseen, e
<1>5. registry' \in Seq(OnchainEpoch) /\ EpochsKept(registry, registry') /\ RegistryOK'
  BY <1>1, <1>2, <1>3, <1>4, EpochStep
<1>6. paid' \in 0 .. scenario.growth /\ trouble' \in [Disturbance -> Nat]
  BY <1>2 DEF PublisherInv, TypeOK
<1> QED BY <1>2, <1>5, <1>6, RegistryStep

LEMMA FinalizeByOtherKeeps ==
  ASSUME PublisherInv, NEW i \in DOMAIN registry, FinalizeByOther(i), UNCHANGED scenario
  PROVE  PublisherInv'
<1>1. registry' = Settled(i) /\ Finalizable(i)
      /\ UNCHANGED <<content, rows, txs, allowance, paid, worker, trouble, scenario>>
  BY DEF FinalizeByOther
<1>2. registry' \in Seq(OnchainEpoch) /\ EpochsKept(registry, registry') /\ RegistryOK'
  BY <1>1, SettledOK
<1>3. paid' \in 0 .. scenario.growth /\ trouble' \in [Disturbance -> Nat]
  BY <1>1 DEF PublisherInv, TypeOK
<1> QED BY <1>1, <1>2, <1>3, RegistryStep

LEMMA ClaimByOtherKeeps ==
  ASSUME PublisherInv, ClaimByOther, UNCHANGED scenario
  PROVE  PublisherInv'
<1>1. paid < content /\ paid' = paid + 1 /\ UNCHANGED <<content, rows, txs, registry, allowance, worker>>
  BY DEF ClaimByOther
<1>2. paid' \in 0 .. scenario.growth
  BY <1>1, PublisherAssumption DEF PublisherInv, TypeOK
<1>3. trouble' \in [Disturbance -> Nat]
  BY Disturbed DEF PublisherInv, TypeOK, ClaimByOther, Disturbance
<1>4. registry' \in Seq(OnchainEpoch) /\ EpochsKept(registry, registry') /\ RegistryOK'
  BY <1>1, Same DEF PublisherInv, TypeOK, RegistryOK
<1> QED BY <1>1, <1>2, <1>3, <1>4, RegistryStep

LEMMA IndexGrowsKeeps ==
  ASSUME PublisherInv, IndexGrows, UNCHANGED scenario
  PROVE  PublisherInv'
<1>1. /\ content < scenario.growth /\ content' = content + 1
      /\ UNCHANGED <<rows, txs, registry, allowance, paid, worker, trouble>>
  BY DEF IndexGrows, chainVars
<1>2. /\ content' \in 0 .. scenario.growth /\ content <= content' /\ content \in Nat /\ content' \in Nat
      /\ trouble' \in [Disturbance -> Nat] /\ txs' \in Seq(Tx) /\ registry' \in Seq(OnchainEpoch)
      /\ allowance' \in {0, 1} /\ paid' \in 0 .. scenario.growth
  BY <1>1, PublisherAssumption DEF PublisherInv, TypeOK
<1>3. TxsOK'
  <2> SUFFICES ASSUME NEW t \in DOMAIN txs PROVE TxOK(txs[t], registry, content')
    BY <1>1 DEF TxsOK
  <2>1. txs[t] \in Tx /\ TxOK(txs[t], registry, content)
    BY TableFacts DEF PublisherInv, TxsOK
  <2> QED BY <1>2, <2>1, Same, TxOKKept
<1>4. RegistryOK'
  <2> SUFFICES ASSUME NEW i \in DOMAIN registry PROVE EpochOK(registry[i], content')
    BY <1>1 DEF RegistryOK
  <2>1. registry[i] \in OnchainEpoch /\ EpochOK(registry[i], content)
    BY TableFacts DEF PublisherInv, RegistryOK
  <2>2. registry[i].content \in Nat
    BY <2>1 DEF OnchainEpoch
  <2> QED BY <1>2, <2>1, <2>2 DEF EpochOK
<1>5. TxsKept(txs, txs') /\ EpochsKept(registry, registry') /\ IdsDiffer'
  BY <1>1, Same DEF PublisherInv, IdsDiffer
<1> QED BY <1>1, <1>2, <1>3, <1>4, <1>5, ChainStep

\* A transaction leaves the mempool: nothing else is touched.
LEMMA DropTxKeeps ==
  ASSUME PublisherInv, NEW t \in DOMAIN txs, DropTx(t), UNCHANGED scenario
  PROVE  PublisherInv'
<1> DEFINE tx == [txs[t] EXCEPT !.state = "dropped"]
<1>1. /\ txs' = [txs EXCEPT ![t] = tx] /\ txs[t].state = "mempool"
      /\ UNCHANGED <<content, rows, registry, allowance, paid, worker, scenario>>
  BY DEF DropTx
<1>2. /\ txs \in Seq(Tx) /\ txs[t] \in Tx /\ tx \in Tx /\ tx.state = "dropped" /\ tx.call = txs[t].call
      /\ tx.arg = txs[t].arg /\ tx.result = txs[t].result /\ TxOK(txs[t], registry, content)
  <2>1. TxOK(txs[t], registry, content)
    BY DEF PublisherInv, TxsOK
  <2>2. txs \in Seq(Tx) /\ txs[t] \in Tx
    BY TableFacts
  <2>3. /\ tx \in Tx /\ tx.state = "dropped" /\ tx.call = txs[t].call
        /\ tx.arg = txs[t].arg /\ tx.result = txs[t].result
    BY <2>2, OutOfPool DEF Tx
  <2> QED BY <2>1, <2>2, <2>3
<1> HIDE DEF tx
<1>3. /\ txs' \in Seq(Tx) /\ DOMAIN txs' = DOMAIN txs /\ txs'[t] = tx
      /\ \A u \in DOMAIN txs : u # t => txs'[u] = txs[u]
  BY <1>1, <1>2, Updated
<1>4. TxsKept(txs, txs') /\ EpochsKept(registry, registry')
  BY <1>1, <1>2, <1>3, Same DEF TxsKept, Mined
<1>5. TxOK(tx, registry, content)
  BY <1>1, <1>2 DEF TxOK
<1>6. TxsOK' /\ RegistryOK' /\ IdsDiffer'
  BY <1>1, <1>2, <1>3, <1>5 DEF PublisherInv, TxsOK, RegistryOK, IdsDiffer
<1>7. trouble' \in [Disturbance -> Nat]
  BY Disturbed DEF PublisherInv, TypeOK, DropTx, Disturbance
<1>8. /\ content' \in 0 .. scenario.growth /\ registry' \in Seq(OnchainEpoch) /\ allowance' \in {0, 1}
      /\ paid' \in 0 .. scenario.growth /\ content <= content'
  BY <1>1, TableFacts DEF PublisherInv, TypeOK
<1> QED BY <1>1, <1>3, <1>4, <1>6, <1>7, <1>8, ChainStep

\* One transaction is mined, whatever it does to the registry.
LEMMA MinedOK ==
  ASSUME PublisherInv, NEW t \in DOMAIN txs, NEW state \in {"ok", "reverted"}, NEW result \in Nat,
         txs[t].state = "mempool",
         txs' = [txs EXCEPT ![t].state = state, ![t].result = result],
         EpochsKept(registry, registry'), content' = content,
         state # "ok" => result = 0,
         txs[t].call = "publish" /\ state = "ok" =>
           /\ result \in DOMAIN registry' /\ registry'[result].content = txs[t].arg
           /\ result \notin DOMAIN registry,
         txs[t].call = "finalize" /\ state = "ok" => Decided(registry'[txs[t].arg].status)
  PROVE  txs' \in Seq(Tx) /\ TxsKept(txs, txs') /\ TxsOK' /\ IdsDiffer'
<1> DEFINE tx == [txs[t] EXCEPT !.state = state, !.result = result]
<1>1. txs' = [txs EXCEPT ![t] = tx]
  BY TableFacts
<1>2. /\ txs \in Seq(Tx) /\ txs[t] \in Tx /\ tx \in Tx /\ tx.state = state /\ tx.call = txs[t].call
      /\ tx.arg = txs[t].arg /\ tx.result = result /\ TxOK(txs[t], registry, content)
  <2>1. TxOK(txs[t], registry, content)
    BY DEF PublisherInv, TxsOK
  <2>2. txs \in Seq(Tx) /\ txs[t] \in Tx
    BY TableFacts
  <2>3. /\ tx \in Tx /\ tx.state = state /\ tx.call = txs[t].call
        /\ tx.arg = txs[t].arg /\ tx.result = result
    BY <2>2 DEF Tx
  <2> QED BY <2>1, <2>2, <2>3
<1> HIDE DEF tx
<1>3. /\ txs' \in Seq(Tx) /\ DOMAIN txs' = DOMAIN txs /\ txs'[t] = tx
      /\ \A u \in DOMAIN txs : u # t => txs'[u] = txs[u]
  BY ONLY <1>1, <1>2, Updated, t \in DOMAIN txs
<1>4. TxsKept(txs, txs')
  BY <1>2, <1>3 DEF TxsKept, Mined
<1>5. content \in Nat /\ content <= content
  BY TableFacts
<1>6. TxOK(tx, registry', content)
  <2>1. tx.call \in {"finalize", "claim"} => tx.arg \in DOMAIN registry'
    BY <1>2 DEF TxOK, EpochsKept
  <2> QED BY <1>2, <2>1 DEF TxOK
<1>7. \A u \in DOMAIN txs : TxOK(txs[u], registry', content)
  <2> SUFFICES ASSUME NEW u \in DOMAIN txs PROVE TxOK(txs[u], registry', content)
    OBVIOUS
  <2>1. txs[u] \in Tx /\ TxOK(txs[u], registry, content)
    BY TableFacts DEF PublisherInv, TxsOK
  <2> QED BY <1>5, <2>1, TxOKKept
<1>8. TxsOK'
  BY <1>3, <1>6, <1>7 DEF TxsOK
<1>9. IdsDiffer'
  <2>1. \A u \in DOMAIN txs : txs[u].call = "publish" /\ txs[u].state = "ok" => txs[u].result \in DOMAIN registry
    BY DEF PublisherInv, TxsOK, TxOK
  <2>2. tx.call = "publish" /\ tx.state = "ok" => tx.result \notin DOMAIN registry
    BY <1>2
  <2> QED BY <1>3, <2>1, <2>2 DEF PublisherInv, IdsDiffer
<1> QED BY <1>3, <1>4, <1>8, <1>9

LEMMA MineTxKeeps ==
  ASSUME PublisherInv, NEW t \in DOMAIN txs, MineTx(t), UNCHANGED scenario
  PROVE  PublisherInv'
<1>0. PICK tx : tx = txs[t]
  OBVIOUS
<1>1. /\ tx.state = "mempool" /\ UNCHANGED <<content, rows, worker, trouble>>
      /\ tx \in Tx /\ TxOK(tx, registry, content)
  BY <1>0, TableFacts DEF MineTx, PublisherInv, TxsOK
<1>2. /\ content' \in 0 .. scenario.growth /\ content <= content' /\ trouble' \in [Disturbance -> Nat]
      /\ registry \in Seq(OnchainEpoch) /\ Len(registry) \in Nat /\ allowance \in {0, 1}
      /\ paid \in 0 .. scenario.growth /\ tx.arg \in Nat /\ paid \in Nat /\ scenario.growth \in Nat
      /\ content \in Nat /\ content <= scenario.growth
  <2>1. /\ content \in 0 .. scenario.growth /\ trouble \in [Disturbance -> Nat]
        /\ allowance \in {0, 1} /\ paid \in 0 .. scenario.growth /\ scenario \in Scenarios
    BY DEF PublisherInv, TypeOK
  <2>2. scenario.growth \in Nat
    BY <2>1, PublisherAssumption
  <2>3. registry \in Seq(OnchainEpoch) /\ Len(registry) \in Nat /\ tx.arg \in Nat
    BY <1>1, TableFacts DEF Tx
  <2> QED BY <1>1, <2>1, <2>2, <2>3
<1>3. ASSUME registry' = registry PROVE EpochsKept(registry, registry') /\ RegistryOK'
  BY <1>1, <1>3, Same DEF PublisherInv, RegistryOK
<1> DEFINE Mine(state, result) == txs' = [txs EXCEPT ![t].state = state, ![t].result = result]
<1>4. CASE tx.call = "approve" /\ Mine("ok", 0) /\ allowance' = 1 /\ UNCHANGED <<registry, paid>>
  <2>1. EpochsKept(registry, registry') /\ RegistryOK'
    BY <1>3, <1>4
  <2>2. txs' \in Seq(Tx) /\ TxsKept(txs, txs') /\ TxsOK' /\ IdsDiffer'
    BY <1>0, <1>1, <1>4, <2>1, MinedOK
  <2> QED BY <1>1, <1>2, <1>4, <2>1, <2>2, ChainStep
<1>5. CASE /\ tx.call = "publish" /\ Mine("ok", Len(registry) + 1)
           /\ registry' = Append(registry, [content |-> tx.arg, status |-> "Proposed",
                                            open |-> TRUE, verdict |-> "none", silent |-> FALSE])
           /\ allowance' = 0 /\ UNCHANGED paid
  <2>1. PICK e : e = [content |-> tx.arg, status |-> "Proposed", open |-> TRUE, verdict |-> "none",
                      silent |-> FALSE]
    OBVIOUS
  <2>2. e \in OnchainEpoch /\ e.content = tx.arg /\ e.verdict = "none" /\ e.content <= content
    BY <1>1, <1>2, <1>5, <2>1 DEF OnchainEpoch, TxOK
  <2>3. PICK i : i = Len(registry) + 1
    OBVIOUS
  <2>4. /\ registry' \in Seq(OnchainEpoch) /\ DOMAIN registry' = DOMAIN registry \cup {i}
        /\ i \notin DOMAIN registry /\ i \in Nat
        /\ registry'[i] = e /\ \A j \in DOMAIN registry : registry'[j] = registry[j]
    BY <1>2, <1>5, <2>1, <2>2, <2>3, Appended
  <2>5. EpochsKept(registry, registry')
    BY <2>4 DEF EpochsKept
  <2>6. RegistryOK'
    BY <1>1, <2>2, <2>4 DEF PublisherInv, RegistryOK, EpochOK
  <2>7. txs' \in Seq(Tx) /\ TxsKept(txs, txs') /\ TxsOK' /\ IdsDiffer'
    BY <1>0, <1>1, <1>5, <2>2, <2>3, <2>4, <2>5, MinedOK
  <2> QED BY <1>1, <1>2, <1>5, <2>4, <2>5, <2>6, <2>7, ChainStep
<1>6. CASE /\ tx.call = "finalize" /\ Finalizable(tx.arg) /\ Mine("ok", 0)
           /\ registry' = Settled(tx.arg) /\ UNCHANGED <<allowance, paid>>
  <2>1. tx.arg \in DOMAIN registry
    BY <1>1, <1>6 DEF TxOK
  <2>2. /\ registry' \in Seq(OnchainEpoch) /\ EpochsKept(registry, registry') /\ RegistryOK'
        /\ Decided(registry'[tx.arg].status)
    BY <1>1, <1>6, <2>1, SettledOK
  <2>3. txs' \in Seq(Tx) /\ TxsKept(txs, txs') /\ TxsOK' /\ IdsDiffer'
    BY <1>0, <1>1, <1>6, <2>2, MinedOK
  <2> QED BY <1>1, <1>2, <1>6, <2>2, <2>3, ChainStep
<1>7. CASE /\ tx.call = "claim" /\ Mine("ok", Claimable(registry[tx.arg].content))
           /\ paid' = paid + Claimable(registry[tx.arg].content)
           /\ UNCHANGED <<registry, allowance>>
  <2>1. PICK n : n = Claimable(registry[tx.arg].content)
    OBVIOUS
  <2>2. tx.arg \in DOMAIN registry
    BY <1>1, <1>7 DEF TxOK
  <2>3. registry[tx.arg].content \in Nat /\ registry[tx.arg].content <= content
    BY <2>2, TableFacts DEF OnchainEpoch, PublisherInv, RegistryOK, EpochOK
  <2>4. n \in Nat /\ paid + n \in 0 .. scenario.growth
    <3>1. PICK m : m = registry[tx.arg].content
      OBVIOUS
    <3>2. m \in Nat /\ m <= scenario.growth
      BY <1>2, <2>3, <3>1
    <3>3. n = IF m > paid THEN m - paid ELSE 0
      BY <2>1, <3>1 DEF Claimable
    <3> QED BY <1>2, <3>2, <3>3
  <2>5. EpochsKept(registry, registry') /\ RegistryOK'
    BY <1>3, <1>7
  <2>6. txs' \in Seq(Tx) /\ TxsKept(txs, txs') /\ TxsOK' /\ IdsDiffer'
    BY <1>0, <1>1, <1>7, <2>1, <2>4, <2>5, MinedOK
  <2> QED BY <1>1, <1>2, <1>7, <2>1, <2>4, <2>5, <2>6, ChainStep
<1>8. CASE Mine("reverted", 0) /\ UNCHANGED <<registry, allowance, paid>>
  <2>1. EpochsKept(registry, registry') /\ RegistryOK'
    BY <1>3, <1>8
  <2>2. txs' \in Seq(Tx) /\ TxsKept(txs, txs') /\ TxsOK' /\ IdsDiffer'
    BY <1>0, <1>1, <1>8, <2>1, MinedOK
  <2> QED BY <1>1, <1>2, <1>8, <2>1, <2>2, ChainStep
<1> QED BY <1>0, <1>4, <1>5, <1>6, <1>7, <1>8 DEF MineTx

-----------------------------------------------------------------------------
(* The invariant of the specification.                                     *)

LEMMA InitPublisherInv == Init => PublisherInv
<1> SUFFICES ASSUME Init PROVE PublisherInv
  OBVIOUS
<1>1. /\ content = 0 /\ rows = << >> /\ txs = << >> /\ registry = << >> /\ allowance = 0 /\ paid = 0
      /\ worker = [w \in Workers |-> Idle] /\ scenario \in Scenarios
      /\ trouble = [d \in Disturbance |-> 0]
  BY DEF Init
<1>2. scenario.growth \in Nat
  BY <1>1, PublisherAssumption
<1>3. TypeOK
  <2>1. worker \in [Workers -> Worker]
    BY <1>1, IdleOK
  <2> QED BY <1>1, <1>2, <2>1 DEF TypeOK
<1>4. TxsOK /\ RegistryOK /\ RowsOK /\ RefsDiffer /\ IdsDiffer
  BY <1>1 DEF TxsOK, RegistryOK, RowsOK, RefsDiffer, IdsDiffer
<1>5. \A w \in Workers : worker[w] = Idle
  BY <1>1
<1>6. WorkersOK
  <2>1. Apart(Idle, Idle)
    BY DEF Apart, Idle, Building
  <2>2. "loop" \in Workers /\ "api" \in Workers
    BY DEF Workers
  <2>3. \A w \in Workers : Remembers(worker[w], rows, txs, registry)
    BY <1>5, IdleOK
  <2> QED BY <1>5, <2>1, <2>2, <2>3, IdleOK DEF WorkersOK
<1> QED BY <1>3, <1>4, <1>6 DEF PublisherInv

LEMMA StepKeeps ==
  ASSUME PublisherInv, NEW w \in Workers, Step(w), UNCHANGED scenario
  PROVE  PublisherInv'
BY BeginTickKeeps, QueryKeeps, EndStageKeeps, ResumeRowKeeps, FinalizeRowKeeps, ClaimRowKeeps,
   BuildKeeps, CreateEpochKeeps, BondKeeps, PublishKeeps, SendKeeps, SubmitFailsKeeps,
   MarkSubmittedKeeps, ReceiptKeeps, GiveUpKeeps DEF Step

LEMMA ChainKeeps ==
  ASSUME PublisherInv, Chain, UNCHANGED scenario
  PROVE  PublisherInv'
BY MineTxKeeps, DropTxKeeps, CloseWindowKeeps, DisputeKeeps, FinalizeByOtherKeeps, JudgeKeeps,
   ClaimByOtherKeeps DEF Chain

LEMMA NextPublisherInv == PublisherInv /\ [Next]_vars => PublisherInv'
<1> SUFFICES ASSUME PublisherInv, [Next]_vars PROVE PublisherInv'
  OBVIOUS
<1>1. CASE Next
  BY <1>1, StepKeeps, ChainKeeps, IndexGrowsKeeps, CrashKeeps, AgeKeeps DEF Next
<1>2. CASE UNCHANGED vars
  BY <1>2 DEF vars, PublisherInv, TypeOK, TxsOK, RegistryOK, RowsOK, RefsDiffer, IdsDiffer, WorkersOK
<1> QED BY <1>1, <1>2

\* Every reachable state has the invariant.
LEMMA PublisherInvariant == Spec => []PublisherInv
BY InitPublisherInv, NextPublisherInv, PTL DEF Spec

\* Every variable of the publisher keeps its type: no row is written beyond the table, and
\* no more coverage is paid for than the index has.
THEOREM PublisherTyped == Spec => []TypeOK
<1>1. PublisherInv => TypeOK
  BY DEF PublisherInv
<1> QED BY <1>1, PublisherInvariant, PTL

-----------------------------------------------------------------------------
(* The table tells the truth about the chain.                              *)

\* What a row says was decided was decided, and no two rows share an on-chain id.
LEMMA LocallyTrue == PublisherInv => LocalVerdict /\ OnchainIdentity
<1> SUFFICES ASSUME PublisherInv PROVE LocalVerdict /\ OnchainIdentity
  OBVIOUS
<1>1. \A r \in DOMAIN rows : RowOK(rows[r], txs, registry, content)
  BY DEF PublisherInv, RowsOK
<1>2. LocalVerdict
  BY <1>1 DEF LocalVerdict, RowOK
<1>3. ASSUME NEW r \in DOMAIN rows, NEW q \in DOMAIN rows, rows[r].onchain # 0,
             rows[q].onchain = rows[r].onchain
      PROVE  q = r
  <2>1. /\ rows[r].ref # 0 /\ rows[r].ref \in DOMAIN txs /\ rows[q].ref \in DOMAIN txs
        /\ txs[rows[r].ref].result = rows[r].onchain /\ txs[rows[q].ref].result = rows[r].onchain
        /\ txs[rows[r].ref].call = "publish" /\ txs[rows[q].ref].call = "publish"
        /\ txs[rows[r].ref].state = "ok" /\ txs[rows[q].ref].state = "ok"
    BY <1>1, <1>3 DEF RowOK
  <2>2. rows[r].ref = rows[q].ref
    BY <2>1 DEF PublisherInv, IdsDiffer
  <2> QED BY <2>1, <2>2 DEF PublisherInv, RefsDiffer
<1> QED BY <1>2, <1>3, OnchainIn DEF OnchainIdentity

\* What happened has happened.
LEMMA TroubleStays ==
  ASSUME TypeOK, Next, NEW d \in Disturbance
  PROVE  trouble[d] \in Nat /\ trouble'[d] \in Nat /\ trouble[d] <= trouble'[d]
<1>1. trouble \in [Disturbance -> Nat]
  BY DEF TypeOK
<1>2. CASE UNCHANGED trouble
  BY <1>1, <1>2
<1>3. CASE \E kind \in Disturbance : Disturb(kind)
  BY <1>1, <1>3 DEF Disturb
<1>4. CASE trouble' = [trouble EXCEPT !["rows"] = @ + 1, !["posts"] = @ + 1]
  <2>1. "rows" \in Disturbance /\ "posts" \in Disturbance
    BY DEF Disturbance
  <2> QED BY <1>1, <1>4, <2>1
<1>5. ASSUME NEW w \in Workers, Step(w)
      PROVE  \/ UNCHANGED trouble \/ \E kind \in Disturbance : Disturb(kind)
             \/ trouble' = [trouble EXCEPT !["rows"] = @ + 1, !["posts"] = @ + 1]
  <2>1. UNCHANGED trouble \/ Disturb("faults") \/ Disturb("rows")
        \/ trouble' = [trouble EXCEPT !["rows"] = @ + 1, !["posts"] = @ + 1]
    BY <1>5 DEF Step, BeginTick, Query, EndStage, ResumeRow, FinalizeRow, ClaimRow, Build, CreateEpoch,
                Bond, Publish, Send, SubmitFails, MarkSubmitted, Receipt, GiveUp
  <2> QED BY <2>1 DEF Disturbance
<1>6. ASSUME Chain \/ IndexGrows \/ Crash \/ \E r \in DOMAIN rows : Age(r)
      PROVE  UNCHANGED trouble \/ \E kind \in Disturbance : Disturb(kind)
  <2>1. UNCHANGED trouble \/ Disturb("drops") \/ Disturb("disputes") \/ Disturb("rivals")
        \/ Disturb("crashes") \/ Disturb("stale")
    BY <1>6 DEF Chain, MineTx, DropTx, CloseWindow, Dispute, FinalizeByOther, Judge, ClaimByOther,
                IndexGrows, Crash, Age
  <2> QED BY <2>1 DEF Disturbance
<1> QED BY <1>2, <1>3, <1>4, <1>5, <1>6 DEF Next

LEMMA QuietBefore ==
  ASSUME TypeOK, Next, Quiet'
  PROVE  Quiet
<1>1. "faults" \in Disturbance /\ "crashes" \in Disturbance
  BY DEF Disturbance
<1> QED BY <1>1, TroubleStays DEF Quiet, Seen

\* A step that adds no claim and records none.
ClaimsKept(rs, new) ==
  /\ \A r \in DOMAIN rs :
       /\ r \in DOMAIN new
       /\ new[r].claimed = rs[r].claimed /\ new[r].reward = rs[r].reward
       /\ rs[r].onchain # 0 => new[r].onchain = rs[r].onchain
  /\ \A r \in DOMAIN new : r \notin DOMAIN rs => ~new[r].claimed

\* A worker takes such a step, and leaves no claim behind that may still be paid.
LEMMA NoClaim ==
  ASSUME TruthInv, Next, NEW w \in Workers, NEW st, worker' = [worker EXCEPT ![w] = st],
         UNCHANGED txs, ClaimsKept(rows, rows'),
         w = "loop" => ClaimsAhead(st, rows'),
         w = "loop" /\ worker[w].pc = "wait" /\ worker[w].call = "claim"
           /\ txs[worker[w].ref].state \in {"mempool", "ok"} => ~Quiet'
  PROVE  ClaimInv' /\ ClaimRecorded'
<1>0. PICK a : a = worker["loop"]
  OBVIOUS
<1>1. /\ ClaimInv /\ ClaimRecorded /\ PublisherInv /\ "loop" \in Workers
      /\ worker \in [Workers -> Worker]
  BY WorkerFacts DEF TruthInv, Workers
<1>2. Quiet' => Quiet
  BY <1>1, QuietBefore DEF PublisherInv
<1>3. a.pc = "wait" => a.ref \in DOMAIN txs /\ txs[a.ref].call = a.call
  BY <1>0, <1>1, WaitFacts
<1>4. worker'["loop"] = IF w = "loop" THEN st ELSE a
  BY <1>0, <1>1
<1>5. ClaimsAhead(worker'["loop"], rows')
  <2>1. w # "loop" => ClaimsAhead(a, rows')
    <3>1. ClaimsAhead(a, rows) /\ ToVisit(a, rows)
      BY <1>0, <1>1, WorkerFacts DEF ClaimInv
    <3>2. a.pc \in {"pick", "send", "wait"} => a.todo \subseteq DOMAIN rows
      BY <3>1 DEF ToVisit
    <3> QED BY <3>1, <3>2 DEF ClaimsAhead, ClaimsKept
  <2> QED BY <1>4, <2>1
<1>6. \A r \in DOMAIN rows' : rows'[r].claimed => r \in DOMAIN rows /\ rows[r].claimed /\ rows[r].onchain # 0
                                                 /\ rows'[r].onchain = rows[r].onchain
                                                 /\ rows'[r].reward = rows[r].reward
  BY <1>1 DEF ClaimInv, ClaimsKept
<1>7. ASSUME Quiet', NEW t \in DOMAIN txs, txs[t].call = "claim", txs[t].state \in {"mempool", "ok"},
             a.pc = "wait", a.ref = t
      PROVE  worker'["loop"].pc = "wait" /\ worker'["loop"].ref = t
  BY <1>0, <1>3, <1>4, <1>7
<1>8. ClaimInv'
  <2>1. Quiet' => \A t \in DOMAIN txs : txs[t].call = "claim" /\ txs[t].state = "mempool" =>
                    worker'["loop"].pc = "wait" /\ worker'["loop"].ref = t
    BY <1>0, <1>1, <1>2, <1>7 DEF ClaimInv
  <2>2. ASSUME Quiet', NEW t \in DOMAIN txs, txs[t].call = "claim", txs[t].state = "ok"
        PROVE  \/ worker'["loop"].pc = "wait" /\ worker'["loop"].ref = t
               \/ \E r \in DOMAIN rows' : rows'[r].onchain = txs[t].arg /\ rows'[r].claimed
    <3>1. CASE a.pc = "wait" /\ a.ref = t
      BY <1>7, <2>2, <3>1
    <3>2. CASE \E r \in DOMAIN rows : rows[r].onchain = txs[t].arg /\ rows[r].claimed
      BY <1>1, <3>2 DEF ClaimInv, ClaimsKept
    <3> QED BY <1>0, <1>1, <1>2, <2>2, <3>1, <3>2 DEF ClaimInv
  <2> QED BY <1>5, <1>6, <2>1, <2>2 DEF ClaimInv
<1>9. ClaimRecorded'
  <2> SUFFICES ASSUME Quiet', NEW r \in DOMAIN rows', rows'[r].claimed
               PROVE  LET payments == Payments(rows'[r].onchain)
                      IN  IF payments = {} THEN rows'[r].reward = 0
                          ELSE \E t \in payments : payments = {t} /\ rows'[r].reward = txs[t].result
    BY DEF ClaimRecorded, Payments, Quiet, Seen
  <2> QED BY <1>1, <1>2, <1>6 DEF ClaimRecorded, Quiet, Payments
<1> QED BY <1>8, <1>9

\* Rows that stay as they are keep their claims.
LEMMA SameClaims == ClaimsKept(rows, rows)
  BY DEF ClaimsKept

\* One row is rewritten, its claim apart.
LEMMA RowClaims ==
  ASSUME rows \in Seq(Row), NEW r \in DOMAIN rows, NEW row \in Row, rows' = [rows EXCEPT ![r] = row],
         row.claimed = rows[r].claimed, row.reward = rows[r].reward,
         rows[r].onchain # 0 => row.onchain = rows[r].onchain
  PROVE  ClaimsKept(rows, rows')
<1>1. /\ DOMAIN rows' = DOMAIN rows /\ rows'[r] = row
      /\ \A q \in DOMAIN rows : q # r => rows'[q] = rows[q]
  BY Updated
<1> QED BY <1>1 DEF ClaimsKept

\* Outside the claim stage, and at its ends, nothing is ahead.
LEMMA NothingAhead ==
  ASSUME NEW st, NEW rs, st.stage # "claim" \/ st.pc \notin {"pick", "send", "wait"}
  PROVE  ClaimsAhead(st, rs)
  BY DEF ClaimsAhead

\* The end of a stage, and the end of a row of it.
LEMMA EndsAhead ==
  ASSUME NEW st \in Worker, NEW rs
  PROVE  /\ ClaimsAhead(NextStage(st), rs) /\ ClaimsAhead(StageFails(st), rs)
         /\ ClaimsAhead(Idle, rs) /\ ClaimsAhead(Unresolved(st), rs)
         /\ st.stage # "claim" => ClaimsAhead(RowDone(st), rs)
         /\ (\A r \in st.todo : r # st.row => ~rs[r].claimed) => ClaimsAhead(RowDone(st), rs)
<1>1. Idle.stage = "resume"
  BY DEF Idle
<1>2. NextStage(st).pc \notin {"pick", "send", "wait"}
  <2>1. CASE st.stage = "resume"
    BY <2>1 DEF NextStage, Worker
  <2>2. CASE st.stage = "finalize"
    BY <2>2 DEF NextStage, Worker
  <2>3. CASE st.stage = "claim" /\ st.building /\ ~st.inFlight
    BY <2>3 DEF NextStage, Worker
  <2>4. CASE st.stage \notin {"resume", "finalize"} /\ ~(st.stage = "claim" /\ st.building /\ ~st.inFlight)
    BY <2>4 DEF NextStage, Idle
  <2> QED BY <2>1, <2>2, <2>3, <2>4
<1>3. st.stage # "build" => /\ RowDone(st).todo = st.todo \ {st.row} /\ RowDone(st).pc = "pick"
                            /\ RowDone(st).stage = st.stage
  BY DEF RowDone, Worker
<1>4. st.stage = "build" => RowDone(st) = Idle
  BY DEF RowDone
<1>5. st.stage = "resume" => Unresolved(st).stage = "resume"
  BY DEF Unresolved, RowDone, Worker
<1>6. st.stage # "resume" => Unresolved(st) = Idle
  BY DEF Unresolved
<1>7. ClaimsAhead(NextStage(st), rs) /\ ClaimsAhead(StageFails(st), rs) /\ ClaimsAhead(Idle, rs)
  BY <1>1, <1>2, NothingAhead DEF StageFails
<1>8. ClaimsAhead(Unresolved(st), rs)
  BY <1>5, <1>6, <1>7, NothingAhead
<1>9. st.stage # "claim" => ClaimsAhead(RowDone(st), rs)
  BY <1>3, <1>4, <1>7, NothingAhead
<1>10. (\A r \in st.todo : r # st.row => ~rs[r].claimed) => ClaimsAhead(RowDone(st), rs)
  BY <1>3, <1>4, <1>7 DEF ClaimsAhead
<1> QED BY <1>7, <1>8, <1>9, <1>10

LEMMA RowDoneClaims ==
  ASSUME TruthInv, NEW w \in Workers, NEW stage, stage # "build", Picked(w, stage)
  PROVE  ClaimsAhead(RowDone(AtRow(w)), rows) \/ w # "loop"
<1>1. PublisherInv /\ ClaimInv
  BY DEF TruthInv
<1>2. /\ AtRow(w) \in Worker /\ AtRow(w).pc = "pick" /\ AtRow(w).stage = stage
      /\ AtRow(w).todo = worker[w].todo /\ worker[w].pc = "pick" /\ worker[w].stage = stage
  BY <1>1, AtRowOK, PickedIn
<1>3. CASE stage = "claim" /\ w = "loop"
  <2>1. \A r \in worker[w].todo : ~rows[r].claimed
    BY <1>1, <1>2, <1>3 DEF ClaimInv, ClaimsAhead
  <2> QED BY <1>2, <2>1, EndsAhead
<1>4. CASE stage # "claim"
  BY <1>2, <1>4, EndsAhead
<1> QED BY <1>3, <1>4

LEMMA TickTruth ==
  ASSUME TruthInv, Next, NEW w \in Workers,
         (\E b \in BOOLEAN : BeginTick(w, b)) \/ Query(w) \/ EndStage(w) \/ Bond(w) \/ Publish(w)
  PROVE  ClaimInv' /\ ClaimRecorded'
<1>1. PublisherInv /\ worker[w] \in Worker /\ UNCHANGED <<txs, rows>> /\ ClaimsKept(rows, rows')
      /\ worker[w].pc # "wait"
  BY WorkerFacts, SameClaims DEF TruthInv, BeginTick, Query, EndStage, Bond, Publish, chainVars
<1>2. CASE \E b \in BOOLEAN : BeginTick(w, b)
  <2>1. PICK b \in BOOLEAN : BeginTick(w, b)
    BY <1>2
  <2>2. PICK st : st = [Idle EXCEPT !.pc = "query", !.building = b]
    OBVIOUS
  <2>3. worker' = [worker EXCEPT ![w] = st]
    BY <2>1, <2>2 DEF BeginTick, To
  <2>4. st.stage = "resume"
    BY <2>2 DEF Idle
  <2> QED BY <1>1, <2>3, <2>4, NothingAhead, NoClaim
<1>3. CASE Query(w)
  <2>1. PICK st : st = [worker[w] EXCEPT !.todo = StageRows(worker[w].stage), !.pc = "pick"]
    OBVIOUS
  <2>2. worker' = [worker EXCEPT ![w] = st]
    BY <1>3, <2>1 DEF Query, To
  <2>3. /\ st.stage = worker[w].stage /\ st.todo = StageRows(worker[w].stage) /\ st.pc = "pick"
    BY <1>1, <2>1 DEF Worker
  <2>4. st.stage = "claim" => \A r \in st.todo : ~rows[r].claimed
    BY <2>3 DEF StageRows
  <2> QED BY <1>1, <2>2, <2>3, <2>4, NoClaim DEF ClaimsAhead
<1>4. CASE EndStage(w)
  BY <1>1, <1>4, EndsAhead, NoClaim DEF EndStage, To
<1>5. CASE Bond(w) \/ Publish(w)
  <2>1. PICK st : worker' = [worker EXCEPT ![w] = st] /\ (st = Idle \/ st.stage = "build")
    <3>1. worker[w].stage = "build"
      BY <1>1, <1>5, WorkerFacts DEF Bond, Publish, Placed
    <3>2. [worker[w] EXCEPT !.pc = "publish"].stage = "build"
      BY <1>1, <3>1 DEF Worker
    <3>3. ASSUME NEW call, NEW arg, NEW r
          PROVE  Prepare(worker[w], r, call, arg).stage = "build"
      BY <1>1, <3>1 DEF Prepare, Worker
    <3>4. CASE Bond(w)
      <4>1. PICK st : st = Prepare(worker[w], worker[w].row, "approve", 0)
        OBVIOUS
      <4>2. st.stage = "build"
        BY <3>3, <4>1
      <4>3. \/ worker' = [worker EXCEPT ![w] = [worker[w] EXCEPT !.pc = "publish"]]
            \/ worker' = [worker EXCEPT ![w] = st]
        BY <3>4, <4>1 DEF Bond, To
      <4> QED BY <3>2, <4>2, <4>3
    <3>5. CASE Publish(w)
      <4>1. PICK st : st = Prepare(worker[w], worker[w].row, "publish", rows[worker[w].row].content)
        OBVIOUS
      <4>2. st.stage = "build"
        BY <3>3, <4>1
      <4>3. worker' = [worker EXCEPT ![w] = st] \/ worker' = [worker EXCEPT ![w] = Idle]
        BY <3>5, <4>1 DEF Publish, To
      <4> QED BY <4>2, <4>3
    <3> QED BY <1>5, <3>4, <3>5
  <2> QED BY <1>1, <2>1, EndsAhead, NothingAhead, NoClaim
<1> QED BY <1>2, <1>3, <1>4, <1>5

LEMMA VisitTruth ==
  ASSUME TruthInv, Next, NEW w \in Workers, ResumeRow(w) \/ FinalizeRow(w)
  PROVE  ClaimInv' /\ ClaimRecorded'
<1>0. PICK r : r = PickedRow(w)
  OBVIOUS
<1>1. PublisherInv /\ worker[w] \in Worker /\ UNCHANGED txs /\ rows \in Seq(Row)
  BY WorkerFacts, TableFacts DEF TruthInv, ResumeRow, FinalizeRow, chainVars
<1>2. PICK stage \in {"resume", "finalize"} : Picked(w, stage)
  BY DEF ResumeRow, FinalizeRow
<1>3. r \in DOMAIN rows /\ worker[w].pc = "pick" /\ worker[w].stage = stage /\ rows[r] \in Row
  BY <1>0, <1>1, <1>2, PickedIn, TableFacts
<1>4. AtRow(w) \in Worker /\ AtRow(w).stage = stage
  BY <1>1, <1>2, AtRowOK
<1>5. ASSUME NEW status \in RowStatus, rows' = [rows EXCEPT ![r].status = status]
      PROVE  ClaimsKept(rows, rows')
  <2>1. PICK row : row = [rows[r] EXCEPT !.status = status]
    OBVIOUS
  <2>2. /\ row \in Row /\ row.claimed = rows[r].claimed /\ row.reward = rows[r].reward
        /\ row.onchain = rows[r].onchain
    BY <1>3, <2>1 DEF Row
  <2> QED BY <1>1, <1>3, <1>5, <2>1, <2>2, RowClaims
<1>6. ClaimsKept(rows, rows')
  <2>1. Mirrored(registry[rows[r].onchain].status) \in RowStatus /\ "failed" \in RowStatus
    BY DEF Mirrored, RowStatus
  <2> QED BY <1>0, <1>5, <2>1, SameClaims DEF ResumeRow, FinalizeRow
<1>7. PICK st : worker' = [worker EXCEPT ![w] = st] /\ (st = RowDone(AtRow(w)) \/ st.stage = stage)
  <2>1. CASE ResumeRow(w)
    <3>1. [AtRow(w) EXCEPT !.pc = "wait", !.call = "publish", !.ref = rows[r].ref].stage = stage
      BY <1>4 DEF Worker
    <3> QED BY <1>0, <2>1, <3>1 DEF ResumeRow, To
  <2>2. CASE FinalizeRow(w)
    <3>1. \A i, s : Prepare([worker[w] EXCEPT !.seen = s], r, "finalize", i).stage = stage
      BY <1>1, <1>3 DEF Prepare, Worker
    <3> QED BY <1>0, <2>2, <3>1 DEF FinalizeRow, To
  <2> QED BY <2>1, <2>2
<1>8. ClaimsAhead(st, rows')
  BY <1>4, <1>7, EndsAhead, NothingAhead
<1> QED BY <1>1, <1>3, <1>6, <1>7, <1>8, NoClaim

\* A row is recorded as paid by the one claim mined for it, or by none.
LEMMA ClaimTruth ==
  ASSUME TruthInv, Next, NEW r \in DOMAIN rows, NEW reward \in Nat, UNCHANGED txs,
         rows[r].onchain # 0, ~rows[r].claimed,
         rows' = MarkClaimed(r, reward),
         NEW st, worker' = [worker EXCEPT !["loop"] = st], ClaimsAhead(st, rows'),
         worker["loop"].pc = "wait" => /\ txs[worker["loop"].ref].call = "claim"
                                       /\ txs[worker["loop"].ref].state = "ok"
                                       /\ txs[worker["loop"].ref].arg = rows[r].onchain
                                       /\ txs[worker["loop"].ref].result = reward
                                       /\ worker["loop"].ref \in DOMAIN txs,
         worker["loop"].pc # "wait" => reward = 0
  PROVE  ClaimInv' /\ ClaimRecorded'
<1>0. PICK a : a = worker["loop"]
  OBVIOUS
<1> DEFINE row == [rows[r] EXCEPT !.claimed = TRUE, !.reward = reward]
<1>1. /\ ClaimInv /\ ClaimRecorded /\ PublisherInv /\ rows \in Seq(Row) /\ rows[r] \in Row
      /\ OnchainIdentity
  BY TableFacts, LocallyTrue DEF TruthInv
<1>2. row \in Row /\ row.claimed /\ row.reward = reward /\ row.onchain = rows[r].onchain
  BY <1>1 DEF Row
<1>3. rows' = [rows EXCEPT ![r] = row]
  BY DEF MarkClaimed
<1> HIDE DEF row
<1>4. /\ DOMAIN rows' = DOMAIN rows /\ rows'[r] = row
      /\ \A q \in DOMAIN rows : q # r => rows'[q] = rows[q]
  BY <1>1, <1>2, <1>3, Updated
<1>5. Quiet' => Quiet
  BY <1>1, QuietBefore DEF PublisherInv
<1>6. worker'["loop"] = st
  BY <1>1, WorkerFacts DEF Workers
<1>7. \A q \in DOMAIN rows : rows[q].onchain = rows[r].onchain => q = r
  BY <1>1 DEF OnchainIdentity
<1>8. ASSUME Quiet, NEW t \in Payments(rows[r].onchain) PROVE a.pc = "wait" /\ a.ref = t
  <2>1. t \in DOMAIN txs /\ txs[t].call = "claim" /\ txs[t].state = "ok" /\ txs[t].arg = rows[r].onchain
    BY <1>8 DEF Payments
  <2>2. \A q \in DOMAIN rows : ~(rows[q].onchain = txs[t].arg /\ rows[q].claimed)
    BY <1>7, <2>1
  <2> QED BY <1>0, <1>1, <1>8, <2>1, <2>2 DEF ClaimInv
<1>9. ClaimInv'
  <2>1. \A q \in DOMAIN rows' : rows'[q].claimed => rows'[q].onchain # 0
    BY <1>1, <1>2, <1>4 DEF ClaimInv
  <2>2. Quiet' => \A t \in DOMAIN txs : txs[t].call = "claim" => txs[t].state # "mempool"
    BY <1>0, <1>1, <1>5 DEF ClaimInv
  <2>3. ASSUME Quiet', NEW t \in DOMAIN txs, txs[t].call = "claim", txs[t].state = "ok"
        PROVE  \E q \in DOMAIN rows' : rows'[q].onchain = txs[t].arg /\ rows'[q].claimed
    <3>1. CASE a.pc = "wait" /\ a.ref = t
      BY <1>0, <1>2, <1>4, <3>1
    <3>2. CASE \E q \in DOMAIN rows : rows[q].onchain = txs[t].arg /\ rows[q].claimed
      BY <1>4, <3>2
    <3> QED BY <1>0, <1>1, <1>5, <2>3, <3>1, <3>2 DEF ClaimInv
  <2> QED BY <1>6, <2>1, <2>2, <2>3 DEF ClaimInv
<1>10. ClaimRecorded'
  <2> SUFFICES ASSUME Quiet', NEW q \in DOMAIN rows', rows'[q].claimed
               PROVE  LET payments == Payments(rows'[q].onchain)
                      IN  IF payments = {} THEN rows'[q].reward = 0
                          ELSE \E t \in payments : payments = {t} /\ rows'[q].reward = txs[t].result
    BY DEF ClaimRecorded, Payments, Quiet, Seen
  <2>1. CASE q = r
    <3>1. rows'[q].onchain = rows[r].onchain /\ rows'[q].reward = reward
      BY <1>2, <1>4, <2>1
    <3>2. CASE Payments(rows[r].onchain) = {}
      <4>1. a.pc # "wait"
        BY <1>0, <3>2 DEF Payments
      <4> QED BY <1>0, <3>1, <3>2, <4>1
    <3>3. CASE Payments(rows[r].onchain) # {}
      <4>1. \A t \in Payments(rows[r].onchain) : a.pc = "wait" /\ a.ref = t
        BY <1>5, <1>8
      <4>2. Payments(rows[r].onchain) = {a.ref} /\ a.pc = "wait"
        BY <3>3, <4>1
      <4> QED BY <1>0, <3>1, <4>2
    <3> QED BY <3>2, <3>3
  <2>2. CASE q # r
    <3>1. rows'[q] = rows[q] /\ q \in DOMAIN rows
      BY <1>4, <2>2
    <3> QED BY <1>1, <1>5, <3>1 DEF ClaimRecorded, Quiet, Payments
  <2> QED BY <2>1, <2>2
<1> QED BY <1>9, <1>10

LEMMA ClaimRowTruth ==
  ASSUME TruthInv, Next, NEW w \in Workers, ClaimRow(w)
  PROVE  ClaimInv' /\ ClaimRecorded'
<1>0. PICK r : r = PickedRow(w)
  OBVIOUS
<1>1. /\ PublisherInv /\ ClaimInv /\ worker[w] \in Worker /\ UNCHANGED txs /\ Picked(w, "claim")
      /\ rows \in Seq(Row)
  BY WorkerFacts, TableFacts DEF TruthInv, ClaimRow, chainVars
<1>2. /\ r \in worker[w].todo /\ r \in DOMAIN rows /\ worker[w].pc = "pick" /\ worker[w].stage = "claim"
      /\ w = "loop" /\ rows[r].onchain # 0 /\ ~rows[r].claimed
  <2>1. /\ r \in worker[w].todo /\ r \in DOMAIN rows /\ worker[w].pc = "pick" /\ worker[w].stage = "claim"
    BY <1>0, <1>1, PickedIn
  <2>2. rows[r].onchain # 0 /\ w = "loop"
    BY <1>1, <2>1, WorkerFacts DEF ToVisit, Workers
  <2> QED BY <1>1, <2>1, <2>2 DEF ClaimInv, ClaimsAhead
<1>3. /\ AtRow(w) \in Worker /\ AtRow(w).stage = "claim" /\ AtRow(w).todo = worker[w].todo /\ AtRow(w).row = r
  BY <1>0, <1>1, AtRowOK
<1>4. \A q \in worker[w].todo : ~rows[q].claimed
  BY <1>1, <1>2 DEF ClaimInv, ClaimsAhead
<1>5. CASE rows' = MarkClaimed(r, 0) /\ To(w, RowDone(AtRow(w)))
  <2>1. \A q \in AtRow(w).todo : q # r => ~rows'[q].claimed
    <3>1. \A q \in DOMAIN rows : q # r => rows'[q] = rows[q]
      BY <1>1, <1>5 DEF MarkClaimed
    <3>2. worker[w].todo \subseteq DOMAIN rows
      BY <1>1, <1>2, WorkerFacts DEF ToVisit
    <3> QED BY <1>3, <1>4, <3>1, <3>2
  <2>2. ClaimsAhead(RowDone(AtRow(w)), rows')
    BY <1>3, <2>1, EndsAhead
  <2> QED BY <1>1, <1>2, <1>5, <2>2, ClaimTruth DEF To
<1>6. CASE UNCHANGED rows
  <2>1. PICK st : st = Prepare(worker[w], r, "claim", rows[r].onchain)
    OBVIOUS
  <2>2. st.stage = "claim" /\ st.pc = "send" /\ st.todo = worker[w].todo /\ st.row = r
    BY <1>1, <1>2, <2>1 DEF Prepare, Worker
  <2>3. ClaimsAhead(st, rows)
    BY <1>2, <1>4, <2>2 DEF ClaimsAhead
  <2>4. ClaimsAhead(StageFails(worker[w]), rows)
    BY <1>1, EndsAhead
  <2>5. CASE To(w, st)
    BY <1>1, <1>2, <1>6, <2>3, <2>5, SameClaims, NoClaim DEF To
  <2>6. CASE To(w, StageFails(worker[w]))
    BY <1>1, <1>2, <1>6, <2>4, <2>6, SameClaims, NoClaim DEF To
  <2>7. To(w, st) \/ To(w, StageFails(worker[w])) \/ (rows' = MarkClaimed(r, 0) /\ To(w, RowDone(AtRow(w))))
    BY <1>0, <2>1 DEF ClaimRow
  <2> QED BY <1>5, <2>5, <2>6, <2>7
<1>7. UNCHANGED rows \/ (rows' = MarkClaimed(r, 0) /\ To(w, RowDone(AtRow(w))))
  BY <1>0 DEF ClaimRow
<1> QED BY <1>5, <1>6, <1>7

\* A row is added.
LEMMA BuildTruth ==
  ASSUME TruthInv, Next, NEW w \in Workers,
         Build(w) \/ \E force, publish \in BOOLEAN : CreateEpoch(w, force, publish)
  PROVE  ClaimInv' /\ ClaimRecorded'
<1>1. /\ PublisherInv /\ rows \in Seq(Row) /\ content \in Nat /\ UNCHANGED txs
      /\ worker[w].pc # "wait"
  BY TableFacts DEF TruthInv, Build, CreateEpoch, chainVars
<1>2. PICK st : worker' = [worker EXCEPT ![w] = st] /\ (st = Idle \/ st = Publishing)
                /\ (rows' = Append(rows, NewRow) \/ rows' = rows)
  BY DEF Build, CreateEpoch, To
<1>3. NewRow \in Row /\ ~NewRow.claimed
  BY <1>1 DEF NewRow, Row, RowStatus
<1>4. ASSUME rows' = Append(rows, NewRow) PROVE ClaimsKept(rows, rows')
  <2>1. /\ DOMAIN rows' = DOMAIN rows \cup {Len(rows) + 1}
        /\ rows'[Len(rows) + 1] = NewRow /\ \A q \in DOMAIN rows : rows'[q] = rows[q]
    BY <1>1, <1>3, <1>4, Appended
  <2>2. \A r \in DOMAIN rows : r \in DOMAIN rows' /\ rows'[r] = rows[r]
    BY <2>1
  <2>3. \A r \in DOMAIN rows' : r \notin DOMAIN rows => ~rows'[r].claimed
    BY <1>3, <2>1
  <2> QED BY <2>2, <2>3 DEF ClaimsKept
<1>5. ASSUME rows' = rows PROVE ClaimsKept(rows, rows')
  BY <1>5, SameClaims
<1>6. st.stage # "claim"
  <2>1. Idle.stage = "resume" /\ Publishing.stage = "build"
    BY DEF Idle, Publishing
  <2> QED BY <1>2, <2>1
<1>7. ClaimsKept(rows, rows') /\ ClaimsAhead(st, rows')
  BY <1>2, <1>4, <1>5, <1>6, NothingAhead
<1> QED BY <1>1, <1>2, <1>7, NoClaim

LEMMA MarkTruth ==
  ASSUME TruthInv, Next, NEW w \in Workers, MarkSubmitted(w)
  PROVE  ClaimInv' /\ ClaimRecorded'
<1>0. PICK st : st = worker[w]
  OBVIOUS
<1>1. /\ PublisherInv /\ rows \in Seq(Row) /\ st \in Worker /\ UNCHANGED txs
      /\ st.pc = "mark" /\ st.stage = "build" /\ st.row \in DOMAIN rows /\ rows[st.row] \in Row
  <2>1. /\ PublisherInv /\ st \in Worker /\ st.pc = "mark" /\ UNCHANGED txs
    BY <1>0, WorkerFacts DEF TruthInv, MarkSubmitted, chainVars
  <2>2. st.stage = "build" /\ st.row \in DOMAIN rows
    BY <1>0, <2>1, WorkerFacts DEF Placed, InHand
  <2> QED BY <2>1, <2>2, TableFacts
<1>2. PICK new : new = [st EXCEPT !.pc = "wait"]
  OBVIOUS
<1>3. PICK row : row = [rows[st.row] EXCEPT !.status = "submitted", !.ref = st.ref]
  OBVIOUS
<1>4. worker' = [worker EXCEPT ![w] = new] /\ rows' = [rows EXCEPT ![st.row] = row]
  BY <1>0, <1>2, <1>3 DEF MarkSubmitted, To
<1>5. new.stage = "build"
  BY <1>1, <1>2 DEF Worker
<1>6. /\ row \in Row /\ row.claimed = rows[st.row].claimed /\ row.reward = rows[st.row].reward
      /\ row.onchain = rows[st.row].onchain
  BY <1>1, <1>3 DEF Row, RowStatus, Worker
<1>7. ClaimsKept(rows, rows')
  BY <1>1, <1>4, <1>6, RowClaims
<1> QED BY <1>0, <1>1, <1>4, <1>5, <1>7, NothingAhead, NoClaim

LEMMA GiveUpTruth ==
  ASSUME TruthInv, Next, NEW w \in Workers, GiveUp(w) \/ SubmitFails(w)
  PROVE  ClaimInv' /\ ClaimRecorded'
<1>1. PublisherInv /\ worker[w] \in Worker /\ UNCHANGED <<txs, rows>> /\ ClaimsKept(rows, rows')
      /\ trouble \in [Disturbance -> Nat]
  BY WorkerFacts, SameClaims DEF TruthInv, GiveUp, SubmitFails, chainVars
<1>2. PICK st : worker' = [worker EXCEPT ![w] = st]
                /\ (st = Unresolved(worker[w]) \/ st = StageFails(worker[w]))
  BY DEF GiveUp, SubmitFails, To
<1>3. ClaimsAhead(st, rows')
  BY <1>1, <1>2, EndsAhead
<1>4. worker[w].pc = "wait" /\ worker[w].call = "claim" /\ txs[worker[w].ref].state \in {"mempool", "ok"}
        => ~Quiet'
  <2> SUFFICES ASSUME worker[w].pc = "wait", worker[w].call = "claim",
                      txs[worker[w].ref].state \in {"mempool", "ok"}
               PROVE  Seen("faults")' # 0
    BY DEF Quiet
  <2>1. Disturb("faults")
    BY DEF GiveUp, SubmitFails
  <2>2. "faults" \in Disturbance
    BY DEF Disturbance
  <2> QED BY <1>1, <2>1, <2>2 DEF Disturb, Seen
<1> QED BY <1>1, <1>2, <1>3, <1>4, NoClaim

LEMMA ReceiptTruth ==
  ASSUME TruthInv, Next, NEW w \in Workers, Receipt(w)
  PROVE  ClaimInv' /\ ClaimRecorded'
<1>0. PICK st : st = worker[w]
  OBVIOUS
<1>1. /\ PublisherInv /\ ClaimInv /\ rows \in Seq(Row) /\ UNCHANGED txs /\ st.pc = "wait"
      /\ txs[st.ref].state \in {"ok", "reverted"}
  BY <1>0, TableFacts DEF TruthInv, Receipt, chainVars
<1>2. /\ st \in Worker /\ st.row \in DOMAIN rows /\ rows[st.row] \in Row /\ st.ref \in DOMAIN txs
      /\ txs[st.ref] \in Tx /\ TxOK(txs[st.ref], registry, content) /\ txs[st.ref].call = st.call
      /\ RowOK(rows[st.row], txs, registry, content)
      /\ st.call = "publish" => rows[st.row].ref = st.ref
      /\ st.call = "claim" => rows[st.row].onchain = st.arg /\ st.arg # 0 /\ txs[st.ref].arg = st.arg
  BY <1>0, <1>1, WaitFacts
<1>3. st.stage \in {"resume", "finalize", "claim", "build"} /\ Placed(st)
  BY <1>0, <1>1, <1>2, WorkerFacts DEF Worker
<1>4. st.call = "claim" => st.stage = "claim" /\ w = "loop"
  BY <1>0, <1>1, <1>3, WorkerFacts DEF Placed, Workers
<1>5. st.stage = "claim" => /\ st.call = "claim"
                            /\ st.row \in st.todo /\ \A q \in st.todo : ~rows[q].claimed
  BY <1>0, <1>1, <1>3, <1>4 DEF Placed, ClaimInv, ClaimsAhead
<1>6. CASE st.call = "claim" /\ txs[st.ref].state = "ok"
  <2>1. PICK reward : reward = txs[st.ref].result
    OBVIOUS
  <2>2. rows' = MarkClaimed(st.row, reward) /\ To(w, RowDone(st)) /\ reward \in Nat
    BY <1>0, <1>2, <1>6, <2>1 DEF Receipt, ReceiptReward, Tx
  <2>3. \A q \in st.todo : q # st.row => ~rows'[q].claimed
    <3>1. \A q \in DOMAIN rows : q # st.row => rows'[q] = rows[q]
      BY <1>1, <2>2 DEF MarkClaimed
    <3>2. st.todo \subseteq DOMAIN rows
      BY <1>0, <1>1, WorkerFacts DEF ToVisit
    <3> QED BY <1>4, <1>5, <1>6, <3>1, <3>2
  <2>4. ClaimsAhead(RowDone(st), rows')
    BY <1>2, <2>3, EndsAhead
  <2>5. ~rows[st.row].claimed
    BY <1>4, <1>5, <1>6
  <2> QED BY <1>0, <1>1, <1>2, <1>4, <1>6, <2>1, <2>2, <2>4, <2>5, ClaimTruth DEF To
<1>7. CASE ~(st.call = "claim" /\ txs[st.ref].state = "ok")
  <2>1. PICK row, new : /\ rows' = [rows EXCEPT ![st.row] = row] /\ worker' = [worker EXCEPT ![w] = new]
                        /\ \/ row = rows[st.row] /\ st.call = "approve"
                                /\ new = [st EXCEPT !.pc = "publish"]
                           \/ st.call = "publish" /\ txs[st.ref].state = "ok" /\ new = RowDone(st)
                                /\ row = [rows[st.row] EXCEPT !.status = "published", !.onchain = ReceiptId(st.ref)]
                           \/ st.call = "publish" /\ new = Unresolved(st)
                                /\ row = [rows[st.row] EXCEPT !.status = "failed"]
                           \/ st.call = "finalize" /\ new = RowDone(st)
                                /\ row = [rows[st.row] EXCEPT !.status = Verdict(st)]
                           \/ st.call \in {"finalize", "claim"} /\ new = RowDone(st) /\ row = rows[st.row]
    BY <1>0, <1>7 DEF Receipt, To
  <2>2. /\ row \in Row /\ row.claimed = rows[st.row].claimed /\ row.reward = rows[st.row].reward
        /\ rows[st.row].onchain # 0 => row.onchain = rows[st.row].onchain
    <3>1. /\ Verdict(st) \in RowStatus /\ "published" \in RowStatus /\ "failed" \in RowStatus
          /\ ReceiptId(st.ref) \in Nat
      BY <1>2 DEF Verdict, RowStatus, ReceiptId, Tx
    <3>2. ASSUME NEW status \in RowStatus, row = [rows[st.row] EXCEPT !.status = status]
          PROVE  /\ row \in Row /\ row.claimed = rows[st.row].claimed /\ row.reward = rows[st.row].reward
                 /\ rows[st.row].onchain # 0 => row.onchain = rows[st.row].onchain
      BY <1>2, <3>2 DEF Row
    <3>3. CASE st.call = "publish" /\ row = [rows[st.row] EXCEPT !.status = "published", !.onchain = ReceiptId(st.ref)]
      <4>1. /\ row \in Row /\ row.claimed = rows[st.row].claimed /\ row.reward = rows[st.row].reward
            /\ row.onchain = ReceiptId(st.ref)
        BY <1>2, <3>1, <3>3 DEF Row
      <4>2. rows[st.row].onchain # 0 => txs[st.ref].result = rows[st.row].onchain
        BY <1>2, <3>3 DEF RowOK
      <4> QED BY <4>1, <4>2 DEF ReceiptId
    <3> QED BY <1>2, <2>1, <3>1, <3>2, <3>3
  <2>3. ClaimsKept(rows, rows')
    BY <1>1, <1>2, <2>1, <2>2, RowClaims
  <2>4. \A q \in DOMAIN rows : rows'[q].claimed = rows[q].claimed
    BY <2>3 DEF ClaimsKept
  <2>5. ClaimsAhead(new, rows')
    <3>1. CASE new = RowDone(st)
      <4>1. st.stage = "claim" => \A q \in st.todo : ~rows'[q].claimed
        BY <1>0, <1>1, <1>5, <2>4, WorkerFacts DEF ToVisit
      <4> QED BY <1>2, <3>1, <4>1, EndsAhead
    <3>2. CASE new = Unresolved(st)
      BY <1>2, <3>2, EndsAhead
    <3>3. CASE new = [st EXCEPT !.pc = "publish"] /\ st.call = "approve"
      <4>1. new.pc = "publish"
        BY <1>2, <3>3 DEF Worker
      <4> QED BY <4>1, NothingAhead
    <3> QED BY <2>1, <3>1, <3>2, <3>3
  <2>6. ~(st.call = "claim" /\ txs[st.ref].state \in {"mempool", "ok"})
    BY <1>1, <1>7
  <2> QED BY <1>0, <1>1, <2>1, <2>3, <2>5, <2>6, NoClaim
<1> QED BY <1>6, <1>7

\* What mining does to the table of transactions.
MinedAs(t, state) ==
  /\ txs[t].state = "mempool" /\ state \in {"ok", "reverted"}
  /\ DOMAIN txs' = DOMAIN txs
  /\ \A u \in DOMAIN txs : u # t => txs'[u] = txs[u]
  /\ txs'[t].call = txs[t].call /\ txs'[t].arg = txs[t].arg /\ txs'[t].nonce = txs[t].nonce
  /\ txs'[t].state = state

LEMMA MineCases ==
  ASSUME PublisherInv, NEW t \in DOMAIN txs, MineTx(t)
  PROVE  /\ UNCHANGED <<content, rows, worker, trouble>>
         /\ \A u \in DOMAIN txs : txs[u].state = "mempool" => txs[u].nonce >= txs[t].nonce
         /\ \E state \in {"ok", "reverted"} : MinedAs(t, state)
<1>1. ASSUME NEW state \in {"ok", "reverted"}, NEW result,
             txs' = [txs EXCEPT ![t].state = state, ![t].result = result]
      PROVE  MinedAs(t, state)
  <2>1. PICK tx : tx = [txs[t] EXCEPT !.state = state, !.result = result]
    OBVIOUS
  <2>2. txs' = [txs EXCEPT ![t] = tx]
    BY <1>1, <2>1, TableFacts
  <2>3. tx.state = state /\ tx.call = txs[t].call /\ tx.arg = txs[t].arg /\ tx.nonce = txs[t].nonce
    BY <2>1, TableFacts DEF Tx
  <2>4. txs'[t] = tx /\ DOMAIN txs' = DOMAIN txs /\ \A u \in DOMAIN txs : u # t => txs'[u] = txs[u]
    BY <2>2
  <2>5. txs[t].state = "mempool"
    BY DEF MineTx
  <2> QED BY <2>3, <2>4, <2>5 DEF MinedAs
<1>2. /\ UNCHANGED <<content, rows, worker, trouble>>
      /\ \A u \in DOMAIN txs : txs[u].state = "mempool" => txs[u].nonce >= txs[t].nonce
  BY DEF MineTx
<1>3. \E state \in {"ok", "reverted"} :
        \E result : txs' = [txs EXCEPT ![t].state = state, ![t].result = result]
  BY DEF MineTx
<1> QED BY <1>1, <1>2, <1>3

\* A claim that is mined is the one the loop waits for, and the first for its commitment.
LEMMA MineTruth ==
  ASSUME TruthInv, Next, NEW t \in DOMAIN txs, MineTx(t)
  PROVE  ClaimInv' /\ ClaimRecorded'
<1>0. PICK a : a = worker["loop"]
  OBVIOUS
<1>1. /\ ClaimInv /\ ClaimRecorded /\ PublisherInv /\ UNCHANGED <<rows, worker, trouble>>
      /\ OnchainIdentity /\ "loop" \in Workers
  BY MineCases, LocallyTrue DEF TruthInv, Workers
<1>2. PICK state : MinedAs(t, state)
  BY <1>1, MineCases
<1>3. Quiet' <=> Quiet
  BY <1>1 DEF Quiet, Seen
<1>4. ASSUME Quiet, txs[t].call = "claim"
      PROVE  /\ a.pc = "wait" /\ a.ref = t /\ a.row \in DOMAIN rows /\ rows[a.row].onchain = txs[t].arg
             /\ ~rows[a.row].claimed /\ rows[a.row].onchain # 0
  <2>1. a.pc = "wait" /\ a.ref = t
    BY <1>0, <1>1, <1>2, <1>4 DEF ClaimInv, MinedAs
  <2>2. /\ a \in Worker /\ a.call = "claim" /\ a.row \in DOMAIN rows /\ rows[a.row].onchain = txs[t].arg
        /\ a.arg # 0 /\ rows[a.row].onchain = a.arg
    BY <1>0, <1>1, <1>4, <2>1, WaitFacts
  <2>3. a.stage = "claim"
    BY <1>0, <1>1, <2>1, <2>2, WorkerFacts DEF Placed, Worker
  <2> QED BY <1>0, <1>1, <2>1, <2>2, <2>3 DEF ClaimInv, ClaimsAhead
<1>5. ClaimInv'
  <2>1. ASSUME Quiet, NEW u \in DOMAIN txs, txs'[u].call = "claim", txs'[u].state = "mempool"
        PROVE  a.pc = "wait" /\ a.ref = u
    BY <1>0, <1>1, <1>2, <2>1 DEF ClaimInv, MinedAs
  <2>2. ASSUME Quiet, NEW u \in DOMAIN txs, txs'[u].call = "claim", txs'[u].state = "ok"
        PROVE  \/ a.pc = "wait" /\ a.ref = u
               \/ \E r \in DOMAIN rows : rows[r].onchain = txs'[u].arg /\ rows[r].claimed
    BY <1>0, <1>1, <1>2, <1>4, <2>2 DEF ClaimInv, MinedAs
  <2>3. DOMAIN txs' = DOMAIN txs
    BY <1>2 DEF MinedAs
  <2> QED BY <1>0, <1>1, <1>3, <2>1, <2>2, <2>3 DEF ClaimInv
<1>6. ClaimRecorded'
  <2> SUFFICES ASSUME Quiet, NEW r \in DOMAIN rows, rows[r].claimed
               PROVE  LET payments == Payments(rows[r].onchain)'
                      IN  IF payments = {} THEN rows[r].reward = 0
                          ELSE \E u \in payments : payments = {u} /\ rows[r].reward = txs'[u].result
    BY <1>1, <1>3 DEF ClaimRecorded, Payments, Quiet, Seen
  <2>1. rows[r].onchain # 0
    BY <1>1 DEF ClaimInv
  <2>2. ~(txs[t].call = "claim" /\ txs[t].arg = rows[r].onchain)
    BY <1>1, <1>4, <2>1 DEF OnchainIdentity
  <2>3. Payments(rows[r].onchain)' = Payments(rows[r].onchain)
    BY <1>1, <1>2, <2>2 DEF Payments, MinedAs
  <2>4. t \notin Payments(rows[r].onchain)
    BY <2>2 DEF Payments
  <2>5. \A u \in Payments(rows[r].onchain) : txs'[u] = txs[u]
    BY <1>2, <2>4 DEF MinedAs, Payments
  <2> QED BY <1>1, <2>3, <2>5 DEF ClaimRecorded, Quiet
<1> QED BY <1>5, <1>6

\* No claim is sent, mined or recorded: transactions may leave the mempool, the registry,
\* the index and the rows' ages may change, or every worker may stop.
LEMMA OtherTruth ==
  ASSUME TruthInv, Next, UNCHANGED txs \/ \E t \in DOMAIN txs : DropTx(t),
         ClaimsKept(rows, rows'), UNCHANGED worker \/ (worker'["loop"] = Idle /\ ~Quiet')
  PROVE  ClaimInv' /\ ClaimRecorded'
<1>0. PICK a : a = worker["loop"]
  OBVIOUS
<1>1. /\ ClaimInv /\ ClaimRecorded /\ PublisherInv /\ "loop" \in Workers
  BY DEF TruthInv, Workers
<1>2. Quiet' => Quiet /\ worker'["loop"] = a
  BY <1>0, <1>1, QuietBefore DEF PublisherInv
<1>3. /\ DOMAIN txs' = DOMAIN txs
      /\ \A t \in DOMAIN txs : \/ txs'[t] = txs[t]
                               \/ txs[t].state = "mempool" /\ txs'[t].state = "dropped"
  <2>1. CASE \E t \in DOMAIN txs : DropTx(t)
    <3>1. PICK t \in DOMAIN txs : txs[t].state = "mempool" /\ txs' = [txs EXCEPT ![t].state = "dropped"]
      BY <2>1 DEF DropTx
    <3>2. /\ DOMAIN txs' = DOMAIN txs /\ txs'[t] = [txs[t] EXCEPT !.state = "dropped"]
          /\ \A u \in DOMAIN txs : u # t => txs'[u] = txs[u]
      BY <3>1
    <3>3. txs'[t].state = "dropped"
      BY <1>1, <3>2, TableFacts DEF Tx
    <3> QED BY <3>1, <3>2, <3>3
  <2> QED BY <2>1
<1>4. \A i : Payments(i)' = Payments(i)
  BY <1>3 DEF Payments
<1>5. \A r \in DOMAIN rows' : rows'[r].claimed => r \in DOMAIN rows /\ rows[r].claimed /\ rows[r].onchain # 0
                                                 /\ rows'[r].onchain = rows[r].onchain
                                                 /\ rows'[r].reward = rows[r].reward
  BY <1>1 DEF ClaimInv, ClaimsKept
<1>6. ClaimsAhead(worker'["loop"], rows')
  <2>1. ClaimsAhead(a, rows) /\ ToVisit(a, rows)
    BY <1>0, <1>1, WorkerFacts DEF ClaimInv
  <2>2. a.pc \in {"pick", "send", "wait"} => a.todo \subseteq DOMAIN rows
    BY <2>1 DEF ToVisit
  <2>3. ClaimsAhead(a, rows')
    BY <2>1, <2>2 DEF ClaimsAhead, ClaimsKept
  <2>4. ClaimsAhead(Idle, rows')
    BY DEF ClaimsAhead, Idle
  <2> QED BY <1>0, <2>3, <2>4
<1>7. ClaimInv'
  <2>1. ASSUME Quiet', NEW t \in DOMAIN txs, txs'[t].call = "claim", txs'[t].state = "ok"
        PROVE  \/ a.pc = "wait" /\ a.ref = t
               \/ \E r \in DOMAIN rows' : rows'[r].onchain = txs'[t].arg /\ rows'[r].claimed
    <3>1. txs'[t] = txs[t]
      BY <1>3, <2>1
    <3>2. CASE \E r \in DOMAIN rows : rows[r].onchain = txs[t].arg /\ rows[r].claimed
      BY <1>1, <3>1, <3>2 DEF ClaimInv, ClaimsKept
    <3> QED BY <1>0, <1>1, <1>2, <2>1, <3>1, <3>2 DEF ClaimInv
  <2>2. ASSUME Quiet', NEW t \in DOMAIN txs, txs'[t].call = "claim", txs'[t].state = "mempool"
        PROVE  a.pc = "wait" /\ a.ref = t
    BY <1>0, <1>1, <1>2, <1>3, <2>2 DEF ClaimInv
  <2> QED BY <1>2, <1>3, <1>5, <1>6, <2>1, <2>2 DEF ClaimInv
<1>8. ClaimRecorded'
  <2> SUFFICES ASSUME Quiet', NEW r \in DOMAIN rows', rows'[r].claimed, NEW i, i = rows'[r].onchain
               PROVE  LET payments == Payments(i)'
                      IN  IF payments = {} THEN rows'[r].reward = 0
                          ELSE \E t \in payments : payments = {t} /\ rows'[r].reward = txs'[t].result
    BY DEF ClaimRecorded, Payments, Quiet, Seen
  <2>1. \A t \in Payments(i) : txs'[t] = txs[t]
    BY <1>3 DEF Payments
  <2>2. /\ i = rows[r].onchain /\ rows'[r].reward = rows[r].reward /\ r \in DOMAIN rows
        /\ rows[r].claimed /\ Payments(i)' = Payments(i)
    BY <1>4, <1>5
  <2>3. LET payments == Payments(i)
        IN  IF payments = {} THEN rows[r].reward = 0
            ELSE \E t \in payments : payments = {t} /\ rows[r].reward = txs[t].result
    BY <1>1, <1>2, <2>2 DEF ClaimRecorded, Quiet
  <2> QED BY <2>1, <2>2, <2>3
<1> QED BY <1>7, <1>8

\* A transaction is sent: a claim only by the loop, which waits for it.
LEMMA SendTruth ==
  ASSUME TruthInv, Next, NEW w \in Workers, Send(w)
  PROVE  ClaimInv' /\ ClaimRecorded'
<1>0. PICK a : a = worker["loop"]
  OBVIOUS
<1>1. /\ ClaimInv /\ ClaimRecorded /\ PublisherInv /\ "loop" \in Workers /\ worker \in [Workers -> Worker]
      /\ UNCHANGED <<rows, trouble>> /\ worker[w].pc = "send" /\ worker[w] \in Worker
  BY SendCases, WorkerFacts DEF TruthInv, Workers
<1>2. CASE worker' = [worker EXCEPT ![w] = StageFails(worker[w])] /\ UNCHANGED txs
  <2>1. ClaimsAhead(StageFails(worker[w]), rows') /\ ClaimsKept(rows, rows')
    BY <1>1, EndsAhead, SameClaims
  <2> QED BY <1>1, <1>2, <2>1, NoClaim
<1>3. ASSUME NEW new, worker' = [worker EXCEPT ![w] = new], SentBy(worker[w], new)
      PROVE  ClaimInv' /\ ClaimRecorded'
  <2>1. Quiet' <=> Quiet
    BY <1>1 DEF Quiet, Seen
  <2>2. PICK b : b = worker'["loop"]
    OBVIOUS
  <2>3. w # "loop" => b = a
    BY <1>0, <1>1, <1>3, <2>2
  <2>4. w = "loop" => b = new /\ a = worker[w]
    BY <1>0, <1>1, <1>3, <2>2
  <2>5. worker[w].call = "claim" => w = "loop" /\ worker[w].stage = "claim"
    BY <1>1, WorkerFacts DEF Placed, Workers, Worker
  <2>6. new.stage = "claim" => new.call = "claim"
    BY <1>1, <1>3, WorkerFacts DEF Placed, SentBy
  <2>7. \A t \in DOMAIN txs : \/ txs'[t] = txs[t]
                              \/ txs[t].state = "mempool" /\ txs'[t].state = "replaced"
    <3> SUFFICES ASSUME NEW t \in DOMAIN txs
                 PROVE  txs'[t] = txs[t] \/ (txs[t].state = "mempool" /\ txs'[t].state = "replaced")
      OBVIOUS
    <3>1. txs[t] \in Tx
      BY <1>1, TableFacts
    <3>2. txs'[t] = txs[t] \/ (txs[t].state = "mempool" /\ txs'[t] = [txs[t] EXCEPT !.state = "replaced"])
      BY <1>3 DEF SentBy
    <3> QED BY <3>1, <3>2 DEF Tx
  <2>8. PICK n : n = new.ref
    OBVIOUS
  <2>9. /\ DOMAIN txs' = DOMAIN txs \cup {n} /\ n \notin DOMAIN txs
        /\ txs'[n].state = "mempool" /\ txs'[n].call = worker[w].call
    BY <1>3, <2>8 DEF SentBy
  <2>10. worker[w].call = "claim" => b.pc = "wait" /\ b.ref = n
    BY <1>3, <2>4, <2>5, <2>8 DEF SentBy
  <2>11. ClaimsAhead(b, rows')
    <3>1. CASE w = "loop"
      <4>1. ClaimsAhead(a, rows) /\ new.stage = a.stage /\ new.todo = a.todo /\ new.row = a.row
        BY <1>0, <1>1, <1>3, <2>4, <3>1 DEF ClaimInv, SentBy
      <4>2. a.pc = "send"
        BY <1>1, <2>4, <3>1
      <4> QED BY <1>1, <2>4, <3>1, <4>1, <4>2 DEF ClaimsAhead
    <3>2. CASE w # "loop"
      BY <1>0, <1>1, <2>3, <3>2 DEF ClaimInv
    <3> QED BY <3>1, <3>2
  <2>12. ASSUME Quiet, NEW t \in DOMAIN txs, txs[t].call = "claim", txs[t].state \in {"mempool", "ok"},
                a.pc = "wait", a.ref = t
         PROVE  b.pc = "wait" /\ b.ref = t
    BY <1>1, <2>3, <2>4, <2>12
  <2>13. ClaimInv'
    <3>1. ASSUME Quiet, NEW t \in DOMAIN txs', txs'[t].call = "claim", txs'[t].state = "mempool"
          PROVE  b.pc = "wait" /\ b.ref = t
      <4>1. CASE t = n
        BY <2>9, <2>10, <3>1, <4>1
      <4>2. CASE t # n
        <5>1. t \in DOMAIN txs /\ txs'[t] = txs[t]
          BY <2>7, <2>9, <3>1, <4>2
        <5> QED BY <1>0, <1>1, <2>12, <3>1, <5>1 DEF ClaimInv
      <4> QED BY <4>1, <4>2
    <3>2. ASSUME Quiet, NEW t \in DOMAIN txs', txs'[t].call = "claim", txs'[t].state = "ok"
          PROVE  \/ b.pc = "wait" /\ b.ref = t
                 \/ \E r \in DOMAIN rows' : rows'[r].onchain = txs'[t].arg /\ rows'[r].claimed
      <4>1. t \in DOMAIN txs /\ txs'[t] = txs[t]
        BY <2>7, <2>9, <3>2
      <4> QED BY <1>0, <1>1, <2>12, <3>2, <4>1 DEF ClaimInv
    <3>3. \A r \in DOMAIN rows' : rows'[r].claimed => rows'[r].onchain # 0
      BY <1>1 DEF ClaimInv
    <3> QED BY <2>1, <2>2, <2>11, <3>1, <3>2, <3>3 DEF ClaimInv
  <2>14. ClaimRecorded'
    <3> SUFFICES ASSUME Quiet', NEW r \in DOMAIN rows', rows'[r].claimed, NEW i, i = rows'[r].onchain
                 PROVE  LET payments == Payments(i)'
                        IN  IF payments = {} THEN rows'[r].reward = 0
                            ELSE \E t \in payments : payments = {t} /\ rows'[r].reward = txs'[t].result
      BY DEF ClaimRecorded, Payments, Quiet, Seen
    <3>1. Payments(i)' = Payments(i)
      BY <2>7, <2>9 DEF Payments
    <3>2. \A t \in Payments(i) : txs'[t] = txs[t]
      BY <2>7 DEF Payments
    <3>3. LET payments == Payments(i)
          IN  IF payments = {} THEN rows[r].reward = 0
              ELSE \E t \in payments : payments = {t} /\ rows[r].reward = txs[t].result
      BY <1>1, <2>1 DEF ClaimRecorded, Quiet
    <3> QED BY <1>1, <3>1, <3>2, <3>3
  <2> QED BY <2>13, <2>14
<1> QED BY <1>1, <1>2, <1>3, SendCases

LEMMA AgeClaims ==
  ASSUME PublisherInv, NEW r \in DOMAIN rows, Age(r)
  PROVE  ClaimsKept(rows, rows')
<1>1. PICK row : row = [rows[r] EXCEPT !.stale = TRUE]
  OBVIOUS
<1>2. /\ row \in Row /\ row.claimed = rows[r].claimed /\ row.reward = rows[r].reward
      /\ row.onchain = rows[r].onchain
  BY <1>1, TableFacts DEF Row
<1>3. rows' = [rows EXCEPT ![r] = row] /\ rows \in Seq(Row)
  BY <1>1, TableFacts DEF Age
<1> QED BY <1>2, <1>3, RowClaims

LEMMA NextTruth == TruthInv /\ [Next]_vars => TruthInv'
<1> SUFFICES ASSUME TruthInv, [Next]_vars PROVE ClaimInv' /\ ClaimRecorded'
  BY NextPublisherInv DEF TruthInv
<1>1. CASE UNCHANGED vars
  BY <1>1 DEF TruthInv, vars, ClaimInv, ClaimRecorded, Quiet, Seen, Payments
<1>2. CASE Next
  <2>1. ASSUME NEW w \in Workers, Step(w) PROVE ClaimInv' /\ ClaimRecorded'
    BY <1>2, <2>1, TickTruth, VisitTruth, ClaimRowTruth, BuildTruth, SendTruth, MarkTruth,
       GiveUpTruth, ReceiptTruth DEF Step
  <2>2. CASE \E t \in DOMAIN txs : MineTx(t)
    BY <1>2, <2>2, MineTruth
  <2>3. ASSUME Chain, ~\E t \in DOMAIN txs : MineTx(t)
        PROVE  /\ UNCHANGED txs \/ \E t \in DOMAIN txs : DropTx(t)
               /\ rows' = rows /\ worker' = worker
    BY <2>3 DEF Chain, DropTx, CloseWindow, Dispute, FinalizeByOther, Judge, ClaimByOther
  <2>4. CASE Chain
    BY <1>2, <2>2, <2>3, <2>4, SameClaims, OtherTruth
  <2>5. CASE IndexGrows
    BY <1>2, <2>5, SameClaims, OtherTruth DEF IndexGrows, chainVars
  <2>6. CASE Crash
    <3>1. worker'["loop"] = Idle /\ UNCHANGED <<rows, txs>>
      BY <2>6 DEF Crash, chainVars, Workers
    <3>2. ~Quiet'
      BY <2>6 DEF Crash, Disturb, Quiet, Seen, Disturbance, TruthInv, PublisherInv, TypeOK
    <3> QED BY <1>2, <3>1, <3>2, SameClaims, OtherTruth
  <2>7. CASE \E r \in DOMAIN rows : Age(r)
    <3>1. ClaimsKept(rows, rows') /\ UNCHANGED <<txs, worker>>
      BY <2>7, AgeClaims DEF Age, chainVars, TruthInv
    <3> QED BY <1>2, <3>1, OtherTruth
  <2> QED BY <1>2, <2>1, <2>4, <2>5, <2>6, <2>7 DEF Next
<1> QED BY <1>1, <1>2

LEMMA InitTruth == Init => TruthInv
<1> SUFFICES ASSUME Init PROVE ClaimInv /\ ClaimRecorded
  BY InitPublisherInv DEF TruthInv
<1>1. rows = << >> /\ txs = << >> /\ worker["loop"] = Idle
  BY DEF Init, Workers
<1>2. ClaimsAhead(Idle, rows)
  BY DEF ClaimsAhead, Idle
<1> QED BY <1>1, <1>2 DEF ClaimInv, ClaimRecorded

\* The epochs table tells the truth about the chain, in every interleaving of the loop, the
\* endpoint, the chain and rivals: a row's on-chain id is its own and names what it was built
\* for, its verdict is the registry's (FinalizeDue), and the reward it records is what its
\* one claim was paid (ClaimDue, MarkClaimed).
THEOREM RowsAlwaysTruthful == Spec => []RowsTruthful
<1>1. TruthInv => RowsTruthful
  BY LocallyTrue DEF TruthInv, RowsTruthful
<1> QED BY <1>1, InitTruth, NextTruth, PTL DEF Spec

-----------------------------------------------------------------------------
(* The loop's nonces.                                                      *)

LEMMA LiveFacts ==
  ASSUME PublisherInv
  PROVE  /\ IsFiniteSet(Live) /\ PendingNonce = Cardinality(Live) /\ PendingNonce \in Nat
         /\ \A t \in Live : t \in DOMAIN txs /\ txs[t].nonce \in Nat
<1>1. IsFiniteSet(DOMAIN txs)
  BY TableFacts, FS_Interval
<1>2. IsFiniteSet(Live)
  BY <1>1, FS_Subset DEF Live
<1>3. PendingNonce = Cardinality(Live)
  BY DEF PendingNonce, Live
<1>4. \A t \in Live : t \in DOMAIN txs /\ txs[t].nonce \in Nat
  BY TableFacts DEF Live, Tx
<1> QED BY <1>2, <1>3, <1>4, FS_CardinalityType

\* The next transaction in line is mined.
LEMMA MineNonces ==
  ASSUME PublisherInv, NonceInv, NEW t \in DOMAIN txs, MineTx(t)
  PROVE  NonceInv'
<1> SUFFICES ASSUME Seen("posts")' = 0
             PROVE  /\ (worker["api"] = Idle)' /\ NoncesInOrder' /\ Replaced' = {}
                    /\ (worker["loop"].pc = "send" => worker["loop"].nonce = PendingNonce)'
  BY DEF NonceInv
<1>1. PICK state : MinedAs(t, state)
  BY MineCases
<1>2. UNCHANGED <<worker, trouble>> /\ \A u \in DOMAIN txs : txs[u].state = "mempool" => txs[u].nonce >= txs[t].nonce
  BY MineCases
<1>3. /\ worker["api"] = Idle /\ NoncesInOrder /\ Replaced = {}
      /\ worker["loop"].pc = "send" => worker["loop"].nonce = PendingNonce
  BY <1>2 DEF NonceInv, Seen
<1>4. Live' = Live /\ t \in Live /\ txs[t].state = "mempool" /\ \A u \in Live : txs'[u].nonce = txs[u].nonce
  BY <1>1 DEF Live, MinedAs
<1>5. PendingNonce' = PendingNonce
  BY <1>4 DEF PendingNonce, Live
<1>6. Replaced' = {}
  BY <1>1, <1>3 DEF Replaced, MinedAs
<1>7. ASSUME NEW u \in Live, NEW v \in Live, txs'[u].state # "mempool", txs'[v].state = "mempool"
      PROVE  txs[u].nonce < txs[v].nonce
  <2>1. v # t /\ txs[v].state = "mempool" /\ v \in DOMAIN txs
    BY <1>1, <1>7 DEF MinedAs, Live
  <2>2. txs[u].nonce \in Nat /\ txs[v].nonce \in Nat
    BY LiveFacts
  <2>3. CASE u = t
    <3>1. txs[v].nonce >= txs[t].nonce /\ txs[v].nonce # txs[t].nonce
      BY <1>2, <1>3, <1>4, <2>1 DEF NoncesInOrder
    <3> QED BY <2>2, <2>3, <3>1
  <2>4. CASE u # t
    <3>1. txs[u].state # "mempool"
      BY <1>1, <1>7, <2>4 DEF MinedAs, Live
    <3> QED BY <1>3, <2>1, <3>1 DEF NoncesInOrder
  <2> QED BY <2>3, <2>4
<1>8. NoncesInOrder'
  BY <1>3, <1>4, <1>5, <1>7 DEF NoncesInOrder
<1> QED BY <1>2, <1>3, <1>5, <1>6, <1>8

\* The newest queued transaction is dropped, and its nonce is the next again.
LEMMA DropNonces ==
  ASSUME PublisherInv, NonceInv, NEW t \in DOMAIN txs, DropTx(t)
  PROVE  NonceInv'
<1> SUFFICES ASSUME Seen("posts")' = 0
             PROVE  /\ (worker["api"] = Idle)' /\ NoncesInOrder' /\ Replaced' = {}
                    /\ (worker["loop"].pc = "send" => worker["loop"].nonce = PendingNonce)'
  BY DEF NonceInv
<1>1. PICK tx : tx = [txs[t] EXCEPT !.state = "dropped"]
  OBVIOUS
<1>2. /\ txs' = [txs EXCEPT ![t] = tx] /\ txs[t].state = "mempool" /\ UNCHANGED worker
      /\ \A u \in DOMAIN txs : txs[u].state = "mempool" => txs[u].nonce <= txs[t].nonce
      /\ worker["loop"].pc # "send"
  BY <1>1 DEF DropTx, Workers
<1>3. Seen("posts") = 0
  BY DEF DropTx, Disturb, Seen, PublisherInv, TypeOK, Disturbance
<1>4. worker["api"] = Idle /\ NoncesInOrder /\ Replaced = {}
  BY <1>3 DEF NonceInv
<1>5. tx.state = "dropped" /\ tx.nonce = txs[t].nonce
  BY <1>1, TableFacts DEF Tx
<1>6. DOMAIN txs' = DOMAIN txs /\ txs'[t] = tx /\ \A u \in DOMAIN txs : u # t => txs'[u] = txs[u]
  BY <1>2
<1>7. Live' = Live \ {t} /\ t \in Live
  BY <1>2, <1>5, <1>6 DEF Live
<1>8. PendingNonce' = PendingNonce - 1
  <2>1. Cardinality(Live \ {t}) = Cardinality(Live) - 1
    BY <1>7, LiveFacts, FS_RemoveElement
  <2>2. PendingNonce' = Cardinality(Live \ {t})
    BY <1>7 DEF PendingNonce, Live
  <2> QED BY <2>1, <2>2, LiveFacts
<1>9. \A u \in Live \ {t} : txs[u].nonce < txs[t].nonce
  <2> SUFFICES ASSUME NEW u \in Live \ {t} PROVE txs[u].nonce < txs[t].nonce
    OBVIOUS
  <2>1. txs[u].nonce \in Nat /\ txs[t].nonce \in Nat /\ txs[u].nonce # txs[t].nonce /\ u \in DOMAIN txs
    BY <1>4, <1>7, LiveFacts DEF NoncesInOrder
  <2>2. CASE txs[u].state = "mempool"
    BY <1>2, <2>1, <2>2
  <2>3. CASE txs[u].state # "mempool"
    BY <1>2, <1>4, <1>7, <2>3 DEF NoncesInOrder
  <2> QED BY <2>2, <2>3
<1>10. \A u \in Live' : txs'[u] = txs[u] /\ txs[u].nonce < PendingNonce'
  <2> SUFFICES ASSUME NEW u \in Live \ {t} PROVE txs'[u] = txs[u] /\ txs[u].nonce < PendingNonce - 1
    BY <1>7, <1>8
  <2>1. txs[u].nonce < txs[t].nonce /\ txs[t].nonce < PendingNonce
    BY <1>4, <1>7, <1>9 DEF NoncesInOrder
  <2>2. txs[u].nonce \in Nat /\ txs[t].nonce \in Nat /\ PendingNonce \in Nat /\ u \in DOMAIN txs
    BY <1>7, LiveFacts
  <2> QED BY <1>6, <2>1, <2>2
<1>11. NoncesInOrder'
  BY <1>4, <1>7, <1>10 DEF NoncesInOrder
<1>12. Replaced' = {}
  BY <1>4, <1>5, <1>6 DEF Replaced
<1> QED BY <1>2, <1>4, <1>11, <1>12

\* The loop sends under a nonce nothing else has.
LEMMA SendNonces ==
  ASSUME PublisherInv, NonceInv, NEW w \in Workers, Send(w)
  PROVE  NonceInv'
<1> SUFFICES ASSUME Seen("posts")' = 0
             PROVE  /\ (worker["api"] = Idle)' /\ NoncesInOrder' /\ Replaced' = {}
                    /\ (worker["loop"].pc = "send" => worker["loop"].nonce = PendingNonce)'
  BY DEF NonceInv
<1>0. PICK st : st = worker[w]
  OBVIOUS
<1>1. /\ st.pc = "send" /\ UNCHANGED trouble /\ worker \in [Workers -> Worker] /\ st \in Worker
  BY <1>0, SendCases, WorkerFacts
<1>2. /\ worker["api"] = Idle /\ NoncesInOrder /\ Replaced = {}
      /\ worker["loop"].pc = "send" => worker["loop"].nonce = PendingNonce
  BY <1>1 DEF NonceInv, Seen
<1>3. w = "loop" /\ st.nonce = PendingNonce
  <2>1. Idle.pc = "idle"
    BY DEF Idle
  <2> QED BY <1>0, <1>1, <1>2, <2>1 DEF Workers
<1>4. CASE worker' = [worker EXCEPT ![w] = StageFails(st)] /\ UNCHANGED txs
  <2>1. StageFails(st).pc # "send"
    BY <1>1 DEF StageFails, NextStage, Worker, Idle
  <2>2. worker'["loop"] = StageFails(st) /\ worker'["api"] = worker["api"]
    BY <1>1, <1>3, <1>4 DEF Workers
  <2> QED BY <1>2, <1>4, <2>1, <2>2 DEF NoncesInOrder, Replaced, Live, PendingNonce
<1>5. ASSUME NEW new, worker' = [worker EXCEPT ![w] = new], SentBy(st, new)
      PROVE  /\ (worker["api"] = Idle)' /\ NoncesInOrder' /\ Replaced' = {}
             /\ (worker["loop"].pc = "send" => worker["loop"].nonce = PendingNonce)'
  <2>1. PICK n : n = new.ref
    OBVIOUS
  <2>2. \A t \in Live : txs[t].nonce # st.nonce
    BY <1>2, <1>3, LiveFacts DEF NoncesInOrder
  <2>3. \A t \in DOMAIN txs : txs'[t] = txs[t]
    BY <1>5, <2>2 DEF SentBy, Live
  <2>4. /\ DOMAIN txs' = DOMAIN txs \cup {n} /\ n \notin DOMAIN txs
        /\ txs'[n].state = "mempool" /\ txs'[n].nonce = st.nonce
    BY <1>5, <2>1 DEF SentBy
  <2>5. Live' = Live \cup {n} /\ n \notin Live
    BY <2>3, <2>4 DEF Live
  <2>6. PendingNonce' = PendingNonce + 1
    <3>1. Cardinality(Live \cup {n}) = Cardinality(Live) + 1
      BY <2>5, LiveFacts, FS_AddElement
    <3>2. PendingNonce' = Cardinality(Live \cup {n})
      BY <2>5 DEF PendingNonce, Live
    <3> QED BY <3>1, <3>2, LiveFacts
  <2>7. \A t \in Live' : txs'[t].nonce < PendingNonce'
    BY <1>2, <1>3, <2>3, <2>4, <2>5, <2>6, LiveFacts DEF NoncesInOrder
  <2>8. \A t, u \in Live' : txs'[t].nonce = txs'[u].nonce => t = u
    BY <1>2, <2>2, <2>3, <2>4, <2>5, LiveFacts DEF NoncesInOrder
  <2>9. ASSUME NEW t \in Live', NEW u \in Live', txs'[t].state # "mempool", txs'[u].state = "mempool"
        PROVE  txs'[t].nonce < txs'[u].nonce
    <3>1. t \in Live /\ txs'[t] = txs[t]
      BY <2>3, <2>4, <2>5, <2>9, LiveFacts
    <3>2. CASE u = n
      BY <1>2, <1>3, <2>4, <3>1, <3>2 DEF NoncesInOrder
    <3>3. CASE u \in Live
      BY <1>2, <2>3, <2>9, <3>1, <3>3, LiveFacts DEF NoncesInOrder
    <3> QED BY <2>5, <3>2, <3>3
  <2>10. Replaced' = {}
    BY <1>2, <2>3, <2>4 DEF Replaced
  <2>11. worker'["api"] = worker["api"] /\ worker'["loop"] = new /\ new.pc # "send"
    BY <1>1, <1>3, <1>5 DEF Workers, SentBy
  <2> QED BY <1>2, <2>7, <2>8, <2>9, <2>10, <2>11 DEF NoncesInOrder
<1> QED BY <1>0, <1>4, <1>5, SendCases

\* What a worker remembers of a nonce it has just read.
ReadsNonce(st) == st.pc = "send" => st.nonce = PendingNonce

LEMMA EndsSend ==
  ASSUME NEW st \in Worker
  PROVE  /\ ReadsNonce(NextStage(st)) /\ ReadsNonce(StageFails(st)) /\ ReadsNonce(RowDone(st))
         /\ ReadsNonce(Unresolved(st)) /\ ReadsNonce(Idle)
         /\ \A r, call, arg : ReadsNonce(Prepare(st, r, call, arg))
<1>1. ReadsNonce(Idle)
  BY DEF ReadsNonce, Idle
<1>2. NextStage(st).pc # "send"
  <2>1. CASE st.stage = "resume"
    BY <2>1 DEF NextStage, Worker
  <2>2. CASE st.stage = "finalize"
    BY <2>2 DEF NextStage, Worker
  <2>3. CASE st.stage = "claim" /\ st.building /\ ~st.inFlight
    BY <2>3 DEF NextStage, Worker
  <2>4. CASE st.stage \notin {"resume", "finalize"} /\ ~(st.stage = "claim" /\ st.building /\ ~st.inFlight)
    BY <2>4 DEF NextStage, Idle
  <2> QED BY <2>1, <2>2, <2>3, <2>4
<1>3. ReadsNonce(RowDone(st))
  <2>1. st.stage # "build" => RowDone(st).pc = "pick"
    BY DEF RowDone, Worker
  <2>2. st.stage = "build" => RowDone(st) = Idle
    BY DEF RowDone
  <2> QED BY <1>1, <2>1, <2>2 DEF ReadsNonce
<1>4. ReadsNonce(Unresolved(st))
  <2>1. st.stage = "resume" => Unresolved(st).pc = "pick"
    BY DEF Unresolved, RowDone, Worker
  <2>2. st.stage # "resume" => Unresolved(st) = Idle
    BY DEF Unresolved
  <2> QED BY <1>1, <2>1, <2>2 DEF ReadsNonce
<1>5. ASSUME NEW r, NEW call, NEW arg
      PROVE  ReadsNonce(Prepare(st, r, call, arg))
  <2>1. Prepare(st, r, call, arg).nonce = PendingNonce
    BY DEF Prepare, Worker
  <2> QED BY <2>1 DEF ReadsNonce
<1> QED BY <1>1, <1>2, <1>3, <1>4, <1>5 DEF StageFails, ReadsNonce

\* Every step but a sending leaves the transactions alone, and reads the nonce as it is.
LEMMA StepReads ==
  ASSUME PublisherInv, NEW w \in Workers, Step(w), ~Send(w)
  PROVE  /\ UNCHANGED txs
         /\ \E st : worker' = [worker EXCEPT ![w] = st] /\ ReadsNonce(st)
<1>0. PICK old : old = worker[w]
  OBVIOUS
<1>1. old \in Worker
  BY <1>0, WorkerFacts
<1>2. UNCHANGED txs
  BY DEF Step, BeginTick, Query, EndStage, ResumeRow, FinalizeRow, ClaimRow, Build, CreateEpoch,
         Bond, Publish, SubmitFails, MarkSubmitted, Receipt, GiveUp, chainVars
<1> DEFINE Goal == \E st : worker' = [worker EXCEPT ![w] = st] /\ ReadsNonce(st)
<1>3. ASSUME NEW st, To(w, st), ReadsNonce(st) PROVE Goal
  BY <1>3 DEF To
<1> HIDE DEF Goal
<1>4. ASSUME NEW stage, stage # "build", Picked(w, stage)
      PROVE  AtRow(w) \in Worker /\ ReadsNonce(RowDone(AtRow(w)))
  BY <1>4, AtRowOK, EndsSend
<1>5. ASSUME EndStage(w) \/ SubmitFails(w) \/ GiveUp(w) PROVE Goal
  <2>1. To(w, NextStage(old)) \/ To(w, StageFails(old)) \/ To(w, Unresolved(old))
    BY <1>0, <1>5 DEF EndStage, SubmitFails, GiveUp
  <2> QED BY <1>1, <1>3, <2>1, EndsSend
<1>6. ASSUME \E b \in BOOLEAN : BeginTick(w, b) PROVE Goal
  <2>1. PICK b \in BOOLEAN : BeginTick(w, b)
    BY <1>6
  <2>2. PICK st : st = [Idle EXCEPT !.pc = "query", !.building = b]
    OBVIOUS
  <2>3. st.pc = "query"
    BY <2>2 DEF Idle
  <2>4. To(w, st)
    BY <2>1, <2>2 DEF BeginTick
  <2> QED BY <1>3, <2>3, <2>4 DEF ReadsNonce
<1>7. ASSUME Query(w) PROVE Goal
  <2>1. PICK st : st = [old EXCEPT !.todo = StageRows(old.stage), !.pc = "pick"]
    OBVIOUS
  <2>2. st.pc = "pick"
    BY <1>1, <2>1 DEF Worker
  <2>3. To(w, st)
    BY <1>0, <1>7, <2>1 DEF Query
  <2> QED BY <1>3, <2>2, <2>3 DEF ReadsNonce
<1>8. ASSUME ResumeRow(w) PROVE Goal
  <2>1. AtRow(w) \in Worker /\ ReadsNonce(RowDone(AtRow(w)))
    BY <1>4, <1>8 DEF ResumeRow
  <2>2. PICK st : st = [AtRow(w) EXCEPT !.pc = "wait", !.call = "publish", !.ref = rows[PickedRow(w)].ref]
    OBVIOUS
  <2>3. st.pc = "wait"
    BY <2>1, <2>2 DEF Worker
  <2>4. To(w, RowDone(AtRow(w))) \/ To(w, st)
    BY <1>8, <2>2 DEF ResumeRow
  <2> QED BY <1>3, <2>1, <2>3, <2>4 DEF ReadsNonce
<1>9. ASSUME FinalizeRow(w) PROVE Goal
  <2>1. PICK r, i : r = PickedRow(w) /\ i = rows[r].onchain
    OBVIOUS
  <2>2. ReadsNonce(RowDone(AtRow(w)))
    BY <1>4, <1>9 DEF FinalizeRow
  <2>3. PICK seen : seen = registry[i].status
    OBVIOUS
  <2>4. PICK at : at = [old EXCEPT !.seen = seen]
    OBVIOUS
  <2>5. To(w, RowDone(AtRow(w))) \/ (Finalizable(i) /\ To(w, Prepare(at, r, "finalize", i)))
    BY <1>0, <1>9, <2>1, <2>3, <2>4 DEF FinalizeRow
  <2>6. Finalizable(i) => at \in Worker
    BY <1>1, <2>3, <2>4 DEF Finalizable, Disputed, Undecided, Worker
  <2> QED BY <1>3, <2>2, <2>5, <2>6, EndsSend
<1>10. ASSUME ClaimRow(w) PROVE Goal
  <2>1. ReadsNonce(RowDone(AtRow(w)))
    BY <1>4, <1>10 DEF ClaimRow
  <2>2. PICK r, i : r = PickedRow(w) /\ i = rows[r].onchain
    OBVIOUS
  <2>3. To(w, RowDone(AtRow(w))) \/ To(w, Prepare(old, r, "claim", i)) \/ To(w, StageFails(old))
    BY <1>0, <1>10, <2>2 DEF ClaimRow
  <2> QED BY <1>1, <1>3, <2>1, <2>3, EndsSend
<1>11. ASSUME Build(w) \/ \E force, publish \in BOOLEAN : CreateEpoch(w, force, publish) PROVE Goal
  <2>1. Publishing.pc = "bond"
    BY DEF Publishing, Idle
  <2>2. To(w, Publishing) \/ To(w, Idle)
    BY <1>11 DEF Build, CreateEpoch
  <2>3. ReadsNonce(Publishing)
    BY <2>1 DEF ReadsNonce
  <2> QED BY <1>1, <1>3, <2>2, <2>3, EndsSend
<1>12. ASSUME Bond(w) \/ Publish(w) PROVE Goal
  <2>1. PICK n : n = rows[old.row].content
    OBVIOUS
  <2>2. PICK st : st = [old EXCEPT !.pc = "publish"]
    OBVIOUS
  <2>3. st.pc = "publish"
    BY <1>1, <2>2 DEF Worker
  <2>4. To(w, st) \/ To(w, Prepare(old, old.row, "approve", 0)) \/ To(w, Prepare(old, old.row, "publish", n))
        \/ To(w, Idle)
    BY <1>0, <1>12, <2>1, <2>2 DEF Bond, Publish
  <2>5. ReadsNonce(st)
    BY <2>3 DEF ReadsNonce
  <2> QED BY <1>1, <1>3, <2>4, <2>5, EndsSend
<1>13. ASSUME MarkSubmitted(w) \/ Receipt(w) PROVE Goal
  <2>1. PICK st : st = [old EXCEPT !.pc = "wait"]
    OBVIOUS
  <2>2. PICK next : next = [old EXCEPT !.pc = "publish"]
    OBVIOUS
  <2>3. st.pc = "wait" /\ next.pc = "publish"
    BY <1>1, <2>1, <2>2 DEF Worker
  <2>4. To(w, st) \/ To(w, next) \/ To(w, RowDone(old)) \/ To(w, Unresolved(old))
    BY <1>0, <1>13, <2>1, <2>2 DEF MarkSubmitted, Receipt
  <2>5. ReadsNonce(st) /\ ReadsNonce(next)
    BY <2>3 DEF ReadsNonce
  <2> QED BY <1>1, <1>3, <2>4, <2>5, EndsSend
<1>14. Goal
  BY <1>5, <1>6, <1>7, <1>8, <1>9, <1>10, <1>11, <1>12, <1>13 DEF Step
<1> QED BY <1>2, <1>14 DEF Goal

\* The nonces stay as they are, and the loop remembers the next one at most.
LEMMA SameNonces ==
  ASSUME NonceInv, UNCHANGED txs, Seen("posts")' = 0 => Seen("posts") = 0,
         Seen("posts")' = 0 => worker'["api"] = Idle,
         \/ worker'["loop"] = worker["loop"]
         \/ worker'["loop"].pc = "send" => worker'["loop"].nonce = PendingNonce
  PROVE  NonceInv'
<1>1. Live' = Live /\ PendingNonce' = PendingNonce /\ Replaced' = Replaced
  BY DEF Live, PendingNonce, Replaced
<1> QED BY <1>1 DEF NonceInv, NoncesInOrder

LEMMA NextNonces == PublisherInv /\ NonceInv /\ [Next]_vars => NonceInv'
<1> SUFFICES ASSUME PublisherInv, NonceInv, [Next]_vars PROVE NonceInv'
  OBVIOUS
<1>1. CASE UNCHANGED vars
  BY <1>1, SameNonces DEF vars, Seen, NonceInv
<1>2. CASE Next
  <2>1. Seen("posts")' = 0 => Seen("posts") = 0
    BY <1>2, TroubleStays DEF PublisherInv, Seen, Disturbance
  <2>2. ASSUME NEW w \in Workers, Step(w), ~Send(w) PROVE NonceInv'
    <3>1. UNCHANGED txs
      BY <2>2, StepReads
    <3>2. PICK st : worker' = [worker EXCEPT ![w] = st] /\ ReadsNonce(st)
      BY <2>2, StepReads
    <3>3. worker \in [Workers -> Worker] /\ trouble \in [Disturbance -> Nat]
      BY WorkerFacts
    <3>4. CASE w = "loop"
      <4>1. worker'["loop"] = st /\ worker'["api"] = worker["api"]
        BY <3>2, <3>3, <3>4 DEF Workers
      <4> QED BY <2>1, <3>1, <3>2, <4>1, SameNonces DEF ReadsNonce, NonceInv
    <3>5. CASE w = "api" /\ Seen("posts")' # 0
      <4>1. worker'["loop"] = worker["loop"]
        BY <3>2, <3>3, <3>5 DEF Workers
      <4> QED BY <2>1, <3>1, <3>5, <4>1, SameNonces
    <3>6. CASE w = "api" /\ Seen("posts")' = 0
      <4>1. worker["api"] = Idle
        BY <2>1, <3>6 DEF NonceInv
      <4>2. Idle.pc = "idle"
        BY DEF Idle
      <4>3. PICK force, publish \in BOOLEAN : CreateEpoch(w, force, publish)
        BY <2>2, <3>6, <4>1, <4>2 DEF Step, BeginTick, Query, EndStage, ResumeRow, FinalizeRow, ClaimRow,
           Picked, Build, Bond, Publish, Send, SubmitFails, MarkSubmitted, Receipt, GiveUp
      <4>4. trouble' = [trouble EXCEPT !["rows"] = @ + 1, !["posts"] = @ + 1]
        BY <4>3 DEF CreateEpoch
      <4>5. trouble'["posts"] # 0
        BY <3>3, <4>4 DEF Disturbance
      <4> QED BY <3>6, <4>5 DEF Seen
    <3> QED BY <3>4, <3>5, <3>6 DEF Workers
  <2>3. ASSUME NEW w \in Workers, Send(w) PROVE NonceInv'
    BY <2>3, SendNonces
  <2>4. CASE Chain
    <3>1. ASSUME ~\E t \in DOMAIN txs : MineTx(t) \/ DropTx(t)
          PROVE  UNCHANGED <<txs, worker>>
      BY <2>4, <3>1 DEF Chain, CloseWindow, Dispute, FinalizeByOther, Judge, ClaimByOther
    <3>2. ASSUME UNCHANGED <<txs, worker>> PROVE NonceInv'
      BY <2>1, <3>2, SameNonces DEF NonceInv
    <3> QED BY <3>1, <3>2, MineNonces, DropNonces
  <2>5. CASE IndexGrows \/ \E r \in DOMAIN rows : Age(r)
    <3>1. UNCHANGED <<txs, worker>>
      BY <2>5 DEF IndexGrows, Age, chainVars
    <3> QED BY <2>1, <3>1, SameNonces DEF NonceInv
  <2>6. CASE Crash
    <3>1. worker'["loop"] = Idle /\ worker'["api"] = Idle /\ UNCHANGED txs
      BY <2>6 DEF Crash, chainVars, Workers
    <3>2. Idle.pc # "send"
      BY DEF Idle
    <3> QED BY <2>1, <3>1, <3>2, SameNonces
  <2> QED BY <1>2, <2>2, <2>3, <2>4, <2>5, <2>6 DEF Next
<1> QED BY <1>1, <1>2

LEMMA InitNonces == Init => NonceInv
<1> SUFFICES ASSUME Init PROVE NonceInv
  OBVIOUS
<1>1. txs = << >> /\ worker["api"] = Idle /\ worker["loop"] = Idle
  BY DEF Init, Workers
<1>2. Live = {} /\ Replaced = {} /\ Idle.pc # "send"
  BY <1>1 DEF Live, Replaced, Idle
<1> QED BY <1>1, <1>2 DEF NonceInv, NoncesInOrder

\* As long as the endpoint is not called, no transaction of the account ever takes the place
\* of another, through drops, abandoned waits and restarts: the nonce the loop reads is the
\* next one when it sends (publisherLoop, signedTx).
THEOREM LoopNeverReplaces == Spec => []LoopKeepsNonces
<1>1. NonceInv => LoopKeepsNonces
  BY DEF NonceInv, LoopKeepsNonces
<1>2. Init => PublisherInv /\ NonceInv
  BY InitPublisherInv, InitNonces
<1>3. PublisherInv /\ NonceInv /\ [Next]_vars => (PublisherInv /\ NonceInv)'
  BY NextPublisherInv, NextNonces
<1> QED BY <1>1, <1>2, <1>3, PTL DEF Spec

-----------------------------------------------------------------------------
(* The account's bonds.                                                    *)

\* What a worker's step does to a row's status, and by what right.
GoesOn(w, row, new) ==
  /\ new.content = row.content /\ new.ref = row.ref /\ new.stale = row.stale
  /\ row.onchain # 0 => new.onchain = row.onchain
  /\ \/ new.status = row.status
     \/ new.status = "failed" /\ (row.stale \/ txs[row.ref].state = "reverted")
     \/ /\ new.status = "published" /\ worker[w].pc = "wait" /\ worker[w].call = "publish"
        /\ rows[worker[w].row] = row
     \/ new.status \in {"finalized", "rejected"} /\ row.onchain # 0
        /\ \/ ~Undecided(row.onchain) /\ new.status = Mirrored(registry[row.onchain].status)
           \/ worker[w].pc = "wait" /\ worker[w].call = "finalize" /\ rows[worker[w].row] = row

LEMMA OneGoesOn ==
  ASSUME rows \in Seq(Row), NEW w, NEW r \in DOMAIN rows, NEW row \in Row,
         rows' = [rows EXCEPT ![r] = row], GoesOn(w, rows[r], row)
  PROVE  DOMAIN rows' = DOMAIN rows /\ \A q \in DOMAIN rows : GoesOn(w, rows[q], rows'[q])
<1>1. /\ DOMAIN rows' = DOMAIN rows /\ rows'[r] = row
      /\ \A q \in DOMAIN rows : q # r => rows'[q] = rows[q]
  BY Updated
<1>2. \A q \in DOMAIN rows : GoesOn(w, rows[q], rows[q])
  BY DEF GoesOn
<1> QED BY <1>1, <1>2

LEMMA StepRows ==
  ASSUME PublisherInv, NEW w \in Workers, Step(w), ~MarkSubmitted(w)
  PROVE  /\ \A r \in DOMAIN rows : r \in DOMAIN rows' /\ GoesOn(w, rows[r], rows'[r])
         /\ \/ DOMAIN rows' = DOMAIN rows
            \/ /\ rows' = Append(rows, NewRow) /\ (Builds(FALSE) \/ Seen("posts")' # 0)
               /\ worker' = [worker EXCEPT ![w] = Publishing] \/ Seen("posts")' # 0
<1>0. rows \in Seq(Row) /\ \A r \in DOMAIN rows : GoesOn(w, rows[r], rows[r])
  BY TableFacts DEF GoesOn
<1> DEFINE AllGoOn == DOMAIN rows' = DOMAIN rows /\ \A r \in DOMAIN rows : GoesOn(w, rows[r], rows'[r])
<1>1. ASSUME UNCHANGED rows PROVE AllGoOn
  BY <1>0, <1>1
<1>2. ASSUME NEW r \in DOMAIN rows, NEW row \in Row, rows' = [rows EXCEPT ![r] = row],
             GoesOn(w, rows[r], row)
      PROVE  AllGoOn
  BY <1>0, <1>2, OneGoesOn
<1> HIDE DEF AllGoOn
<1>3. ASSUME ResumeRow(w) PROVE AllGoOn
  <2>1. PICK r : r = PickedRow(w)
    OBVIOUS
  <2>2. r \in DOMAIN rows /\ rows[r] \in Row
    BY <1>3, <2>1, PickedIn, TableFacts DEF ResumeRow
  <2>3. PICK row : row = [rows[r] EXCEPT !.status = "failed"]
    OBVIOUS
  <2>4. (rows' = [rows EXCEPT ![r] = row] /\ rows[r].stale) \/ UNCHANGED rows
    BY <1>3, <2>1, <2>3 DEF ResumeRow
  <2>5. /\ row \in Row /\ row.status = "failed" /\ row.content = rows[r].content
        /\ row.ref = rows[r].ref /\ row.stale = rows[r].stale /\ row.onchain = rows[r].onchain
    BY <2>2, <2>3 DEF Row, RowStatus
  <2> QED BY <1>1, <1>2, <2>2, <2>4, <2>5 DEF GoesOn
<1>4. ASSUME FinalizeRow(w) PROVE AllGoOn
  <2>1. PICK r, i : r = PickedRow(w) /\ i = rows[r].onchain
    OBVIOUS
  <2>2. r \in DOMAIN rows /\ rows[r] \in Row /\ i # 0
    BY <1>4, <2>1, PickedIn, TableFacts, WorkerFacts DEF FinalizeRow, ToVisit
  <2>3. PICK s : s = Mirrored(registry[i].status)
    OBVIOUS
  <2>4. PICK row : row = [rows[r] EXCEPT !.status = s]
    OBVIOUS
  <2>5. (rows' = [rows EXCEPT ![r] = row] /\ ~Undecided(i)) \/ UNCHANGED rows
    BY <1>4, <2>1, <2>3, <2>4 DEF FinalizeRow
  <2>6. s \in {"finalized", "rejected"}
    BY <2>3 DEF Mirrored
  <2>7. /\ row \in Row /\ row.status = s /\ row.content = rows[r].content
        /\ row.ref = rows[r].ref /\ row.stale = rows[r].stale /\ row.onchain = rows[r].onchain
    BY <2>2, <2>4, <2>6 DEF Row, RowStatus
  <2> QED BY <1>1, <1>2, <2>1, <2>2, <2>3, <2>5, <2>6, <2>7 DEF GoesOn
<1>5. ASSUME NEW r \in DOMAIN rows, NEW reward \in Nat, rows' = MarkClaimed(r, reward) PROVE AllGoOn
  <2>1. PICK row : row = [rows[r] EXCEPT !.claimed = TRUE, !.reward = reward]
    OBVIOUS
  <2>2. rows' = [rows EXCEPT ![r] = row]
    BY <1>5, <2>1 DEF MarkClaimed
  <2>3. /\ row \in Row /\ row.status = rows[r].status /\ row.content = rows[r].content
        /\ row.ref = rows[r].ref /\ row.stale = rows[r].stale /\ row.onchain = rows[r].onchain
    BY <2>1, TableFacts DEF Row
  <2> QED BY <1>2, <2>2, <2>3 DEF GoesOn
<1>6. ASSUME ClaimRow(w) PROVE AllGoOn
  <2>1. PickedRow(w) \in DOMAIN rows
    BY <1>6, PickedIn DEF ClaimRow
  <2>2. rows' = MarkClaimed(PickedRow(w), 0) \/ UNCHANGED rows
    BY <1>6 DEF ClaimRow
  <2> QED BY <1>1, <1>5, <2>1, <2>2
<1>7. ASSUME Receipt(w) PROVE AllGoOn
  <2>1. PICK st : st = worker[w]
    OBVIOUS
  <2>2. /\ st.pc = "wait" /\ st.row \in DOMAIN rows /\ rows[st.row] \in Row /\ txs[st.ref] \in Tx
        /\ RowOK(rows[st.row], txs, registry, content)
        /\ st.call = "publish" => rows[st.row].ref = st.ref
        /\ st.call = "finalize" => rows[st.row].onchain # 0
    <3>1. worker[w].pc = "wait"
      BY <1>7 DEF Receipt
    <3> QED BY <2>1, <3>1, WaitFacts
  <2>3. PICK id, v, reward : id = ReceiptId(st.ref) /\ v = Verdict(st) /\ reward = ReceiptReward(st.ref)
    OBVIOUS
  <2>4. id \in Nat /\ v \in {"finalized", "rejected"} /\ reward \in Nat
    BY <2>2, <2>3 DEF ReceiptId, Verdict, ReceiptReward, Tx
  <2>5. PICK published, failed, decided :
          /\ published = [rows[st.row] EXCEPT !.status = "published", !.onchain = id]
          /\ failed = [rows[st.row] EXCEPT !.status = "failed"]
          /\ decided = [rows[st.row] EXCEPT !.status = v]
    OBVIOUS
  <2>6. \/ st.call = "publish" /\ rows' = [rows EXCEPT ![st.row] = published]
        \/ st.call = "publish" /\ txs[st.ref].state = "reverted" /\ rows' = [rows EXCEPT ![st.row] = failed]
        \/ st.call = "finalize" /\ rows' = [rows EXCEPT ![st.row] = decided]
        \/ rows' = MarkClaimed(st.row, reward)
        \/ rows' = [rows EXCEPT ![st.row] = rows[st.row]]
    BY <1>7, <2>1, <2>3, <2>5 DEF Receipt
  <2>7. /\ published \in Row /\ published.status = "published" /\ published.content = rows[st.row].content
        /\ published.ref = rows[st.row].ref /\ published.stale = rows[st.row].stale
        /\ published.onchain = id
    BY <2>2, <2>4, <2>5 DEF Row, RowStatus
  <2>8. /\ failed \in Row /\ failed.status = "failed" /\ failed.content = rows[st.row].content
        /\ failed.ref = rows[st.row].ref /\ failed.stale = rows[st.row].stale
        /\ failed.onchain = rows[st.row].onchain
    BY <2>2, <2>5 DEF Row, RowStatus
  <2>9. /\ decided \in Row /\ decided.status = v /\ decided.content = rows[st.row].content
        /\ decided.ref = rows[st.row].ref /\ decided.stale = rows[st.row].stale
        /\ decided.onchain = rows[st.row].onchain
    BY <2>2, <2>4, <2>5 DEF Row, RowStatus
  <2>10. CASE st.call = "publish" /\ rows' = [rows EXCEPT ![st.row] = published]
    <3>1. rows[st.row].onchain # 0 => rows[st.row].onchain = id
      BY <2>2, <2>3, <2>10 DEF RowOK, ReceiptId
    <3> QED BY <1>2, <2>1, <2>2, <2>7, <2>10, <3>1 DEF GoesOn
  <2>11. CASE st.call = "publish" /\ txs[st.ref].state = "reverted" /\ rows' = [rows EXCEPT ![st.row] = failed]
    BY <1>2, <2>2, <2>8, <2>11 DEF GoesOn
  <2>12. CASE st.call = "finalize" /\ rows' = [rows EXCEPT ![st.row] = decided]
    BY <1>2, <2>1, <2>2, <2>4, <2>9, <2>12 DEF GoesOn
  <2>13. CASE rows' = MarkClaimed(st.row, reward)
    BY <1>5, <2>2, <2>4, <2>13
  <2>14. CASE rows' = [rows EXCEPT ![st.row] = rows[st.row]]
    BY <1>0, <1>1, <2>14
  <2> QED BY <2>6, <2>10, <2>11, <2>12, <2>13, <2>14
<1>8. CASE rows' = Append(rows, NewRow)
  <2>1. NewRow \in Row
    BY TableFacts DEF NewRow, Row, RowStatus
  <2>2. \A r \in DOMAIN rows : r \in DOMAIN rows' /\ rows'[r] = rows[r]
    BY <1>0, <1>8, <2>1, Appended
  <2>3. \/ Builds(FALSE) /\ worker' = [worker EXCEPT ![w] = Publishing]
        \/ Seen("posts")' # 0
    <3>1. CASE Build(w)
      <4>1. CASE Builds(FALSE)
        BY <3>1, <4>1 DEF Build, To
      <4>2. CASE ~Builds(FALSE)
        BY <1>0, <1>8, <3>1, <4>2, <2>1, Appended DEF Build
      <4> QED BY <4>1, <4>2
    <3>2. ASSUME NEW force, NEW publish, CreateEpoch(w, force, publish)
          PROVE  Seen("posts")' # 0
      <4>1. trouble' = [trouble EXCEPT !["rows"] = @ + 1, !["posts"] = @ + 1]
        BY <3>2 DEF CreateEpoch
      <4>2. trouble \in [Disturbance -> Nat]
        BY WorkerFacts
      <4> QED BY <4>1, <4>2 DEF Seen, Disturbance
    <3>3. ASSUME ~Build(w), ~\E force, publish \in BOOLEAN : CreateEpoch(w, force, publish)
          PROVE  FALSE
      <4>1. AllGoOn
        BY <1>1, <1>3, <1>4, <1>6, <1>7, <3>3 DEF Step, BeginTick, Query, EndStage, Bond, Publish, Send,
           SubmitFails, GiveUp
      <4>2. DOMAIN rows' = DOMAIN rows
        BY <4>1 DEF AllGoOn
      <4> QED BY <1>0, <1>8, <2>1, <4>2, Appended
    <3> QED BY <3>1, <3>2, <3>3
  <2> QED BY <1>0, <1>8, <2>2, <2>3
<1>9. CASE rows' # Append(rows, NewRow)
  <2>1. AllGoOn
    <3>1. UNCHANGED rows \/ ResumeRow(w) \/ FinalizeRow(w) \/ ClaimRow(w) \/ Receipt(w)
      BY <1>9 DEF Step, BeginTick, Query, EndStage, Bond, Publish, Send, SubmitFails, GiveUp, Build, CreateEpoch
    <3> QED BY <1>1, <1>3, <1>4, <1>6, <1>7, <3>1
  <2> QED BY <2>1 DEF AllGoOn
<1> QED BY <1>8, <1>9

\* No transaction's call is forgotten, and nothing mined is unmined.
LEMMA SendTxsKept ==
  ASSUME PublisherInv, NEW st, NEW new, SentBy(st, new)
  PROVE  TxsKept(txs, txs')
<1> SUFFICES ASSUME NEW t \in DOMAIN txs
             PROVE  /\ t \in DOMAIN txs' /\ txs'[t].call = txs[t].call /\ txs'[t].arg = txs[t].arg
                    /\ Mined(txs[t]) => txs'[t].state = txs[t].state /\ txs'[t].result = txs[t].result
  BY DEF TxsKept
<1>1. txs[t] \in Tx
  BY TableFacts
<1>2. t \in DOMAIN txs' /\ (\/ txs'[t] = txs[t]
                            \/ /\ txs[t].state = "mempool"
                               /\ txs'[t] = [txs[t] EXCEPT !.state = "replaced"])
  BY DEF SentBy
<1> QED BY <1>1, <1>2 DEF Tx, Mined

LEMMA MineTxsKept ==
  ASSUME PublisherInv, NEW t \in DOMAIN txs, MineTx(t) \/ DropTx(t)
  PROVE  TxsKept(txs, txs') /\ DOMAIN txs' = DOMAIN txs
<1>1. CASE MineTx(t)
  <2>1. PICK state : MinedAs(t, state)
    BY <1>1, MineCases
  <2> QED BY <2>1 DEF MinedAs, TxsKept, Mined
<1>2. CASE DropTx(t)
  <2>1. PICK tx : tx = [txs[t] EXCEPT !.state = "dropped"]
    OBVIOUS
  <2>2. txs' = [txs EXCEPT ![t] = tx] /\ txs[t].state = "mempool"
    BY <1>2, <2>1 DEF DropTx
  <2>3. tx.call = txs[t].call /\ tx.arg = txs[t].arg
    BY <2>1, TableFacts DEF Tx
  <2> QED BY <2>2, <2>3 DEF TxsKept, Mined
<1> QED BY <1>1, <1>2

\* Publications stay tracked, failed rows stay rightly failed, when rows only go on.
LEMMA TrackStep ==
  ASSUME PublisherInv, TrackInv, Next, TxsKept(txs, txs'),
         \A t \in DOMAIN txs' : t \notin DOMAIN txs /\ txs'[t].call = "publish" => Tracked(t)',
         Seen("crashes")' = 0 => \A t \in DOMAIN txs : Tracked(t) => Tracked(t)',
         Seen("stale")' = 0 =>
           \A r \in DOMAIN rows' : \/ FailedRightly(rows'[r], txs')
                                   \/ r \in DOMAIN rows /\ rows'[r].ref = rows[r].ref
                                        /\ rows'[r].stale = rows[r].stale
                                        /\ (rows'[r].status = "failed" =>
                                              \/ rows[r].status = "failed" \/ rows[r].stale
                                              \/ txs[rows[r].ref].state = "reverted")
  PROVE  TrackInv'
<1>1. /\ Seen("crashes")' = 0 => Seen("crashes") = 0
      /\ Seen("stale")' = 0 => Seen("stale") = 0
  BY TroubleStays DEF PublisherInv, Seen, Disturbance
<1>2. Seen("crashes")' = 0 => \A t \in DOMAIN txs' : txs'[t].call = "publish" => Tracked(t)'
  BY <1>1 DEF TrackInv, TxsKept
<1>3. ASSUME Seen("stale")' = 0, NEW r \in DOMAIN rows' PROVE FailedRightly(rows'[r], txs')
  <2>1. CASE /\ r \in DOMAIN rows /\ rows'[r].ref = rows[r].ref /\ rows'[r].stale = rows[r].stale
             /\ (rows'[r].status = "failed" =>
                   \/ rows[r].status = "failed" \/ rows[r].stale \/ txs[rows[r].ref].state = "reverted")
    <3>1. FailedRightly(rows[r], txs)
      BY <1>1, <1>3, <2>1 DEF TrackInv
    <3>2. /\ RowOK(rows[r], txs, registry, content)
          /\ RowOK(rows[r], txs, registry, content) => rows[r].ref = 0 \/ rows[r].ref \in DOMAIN txs
          /\ rows[r].ref = 0 <=> rows[r].status = "built"
      BY <2>1 DEF PublisherInv, RowsOK, RowOK
    <3>3. rows[r].ref \in DOMAIN txs /\ txs[rows[r].ref].state = "reverted"
            => txs'[rows[r].ref].state = "reverted"
      BY DEF TxsKept, Mined
    <3>4. ~rows'[r].stale
      BY <2>1, <3>1 DEF FailedRightly
    <3>5. ASSUME rows'[r].status = "failed" PROVE txs'[rows'[r].ref].state = "reverted"
      <4>1. txs[rows[r].ref].state = "reverted"
        BY <2>1, <3>1, <3>5 DEF FailedRightly
      <4>2. rows[r].ref # 0
        <5>1. CASE rows[r].status = "failed"
          BY <3>2, <5>1
        <5>2. CASE rows'[r].status # rows[r].status
          <6>1. PublisherInv'
            BY NextPublisherInv
          <6>2. RowOK(rows'[r], txs', registry', content')
            BY <6>1 DEF PublisherInv, RowsOK
          <6>3. rows'[r].ref # 0
            BY <3>5, <6>2 DEF RowOK
          <6> QED BY <2>1, <6>3
        <5> QED BY <3>5, <5>1, <5>2
      <4> QED BY <2>1, <3>2, <3>3, <4>1, <4>2
    <3> QED BY <3>4, <3>5 DEF FailedRightly
  <2> QED BY <1>3, <2>1
<1> QED BY <1>2, <1>3 DEF TrackInv

LEMMA NextTracks == PublisherInv /\ TrackInv /\ [Next]_vars => TrackInv'
<1> SUFFICES ASSUME PublisherInv, TrackInv, [Next]_vars PROVE TrackInv'
  OBVIOUS
<1>1. CASE UNCHANGED vars
  BY <1>1 DEF vars, TrackInv, Tracked, Seen
<1>2. CASE Next
  <2>0. /\ worker \in [Workers -> Worker] /\ trouble \in [Disturbance -> Nat] /\ "loop" \in Workers
        /\ \A r \in DOMAIN rows : rows[r] \in Row /\ r \in Nat
    BY WorkerFacts, TableFacts DEF Workers
  <2>1. ASSUME NEW w \in Workers, Step(w), ~Send(w), ~MarkSubmitted(w) PROVE TrackInv'
    <3>1. UNCHANGED txs
      BY <2>1, StepReads
    <3>2. PICK st : worker' = [worker EXCEPT ![w] = st]
      BY <2>1, StepReads
    <3>3. worker[w].pc # "mark"
      BY <2>1 DEF Step, BeginTick, Query, EndStage, ResumeRow, FinalizeRow, ClaimRow, Picked, Build,
         CreateEpoch, Bond, Publish, SubmitFails, Receipt, GiveUp
    <3>4. \A r \in DOMAIN rows : r \in DOMAIN rows' /\ GoesOn(w, rows[r], rows'[r])
      BY <2>1, StepRows
    <3>5. \A r \in DOMAIN rows' : r \notin DOMAIN rows => FailedRightly(rows'[r], txs')
      <4>1. CASE DOMAIN rows' = DOMAIN rows
        BY <4>1
      <4>2. CASE rows' = Append(rows, NewRow)
        <5>1. rows \in Seq(Row) /\ NewRow \in Row /\ NewRow.status = "built" /\ ~NewRow.stale
          BY TableFacts DEF NewRow, Row, RowStatus
        <5>2. \A r \in DOMAIN rows' : r \notin DOMAIN rows => rows'[r] = NewRow
          BY <4>2, <5>1, Appended
        <5> QED BY <5>1, <5>2 DEF FailedRightly
      <4> QED BY <2>1, <4>1, <4>2, StepRows
    <3>6. ASSUME NEW t \in DOMAIN txs, Tracked(t) PROVE Tracked(t)'
      <4>1. CASE \E r \in DOMAIN rows : rows[r].ref = t
        BY <3>4, <4>1 DEF GoesOn, Tracked
      <4>2. CASE \E v \in Workers : worker[v].pc = "mark" /\ worker[v].ref = t
        BY <2>0, <3>2, <3>3, <4>2 DEF Tracked
      <4> QED BY <3>6, <4>1, <4>2 DEF Tracked
    <3>7. \A r \in DOMAIN rows' : \/ FailedRightly(rows'[r], txs')
                                  \/ r \in DOMAIN rows /\ rows'[r].ref = rows[r].ref
                                       /\ rows'[r].stale = rows[r].stale
                                       /\ (rows'[r].status = "failed" =>
                                             \/ rows[r].status = "failed" \/ rows[r].stale
                                             \/ txs[rows[r].ref].state = "reverted")
      BY <3>4, <3>5 DEF GoesOn
    <3> QED BY <1>2, <3>1, <3>6, <3>7, TrackStep, Same
  <2>2. ASSUME NEW w \in Workers, Send(w) PROVE TrackInv'
    <3>0. PICK a : a = worker[w]
      OBVIOUS
    <3>1. a.pc = "send" /\ UNCHANGED rows
      BY <2>2, <3>0, SendCases
    <3>2. PICK st : worker' = [worker EXCEPT ![w] = st]
      BY <2>2, SendCases
    <3>3. ASSUME NEW t \in DOMAIN txs, Tracked(t) PROVE Tracked(t)'
      <4>1. \A v \in Workers : worker[v].pc = "mark" => worker'[v] = worker[v]
        BY <2>0, <3>0, <3>1, <3>2
      <4> QED BY <3>1, <3>3, <4>1 DEF Tracked
    <3>4. \A r \in DOMAIN rows' : r \in DOMAIN rows /\ rows'[r] = rows[r]
      BY <3>1
    <3>5. CASE UNCHANGED txs
      BY <1>2, <3>3, <3>4, <3>5, TrackStep, Same
    <3>6. ASSUME NEW new, worker' = [worker EXCEPT ![w] = new], SentBy(a, new) PROVE TrackInv'
      <4>1. TxsKept(txs, txs')
        BY <3>6, SendTxsKept
      <4>2. \A t \in DOMAIN txs' : t \notin DOMAIN txs /\ txs'[t].call = "publish" => Tracked(t)'
        <5> SUFFICES ASSUME NEW t \in DOMAIN txs', t \notin DOMAIN txs, txs'[t].call = "publish"
                     PROVE  Tracked(t)'
          OBVIOUS
        <5>1. t = new.ref /\ txs'[t].call = a.call
          BY <3>6 DEF SentBy
        <5>2. new.pc = "mark"
          BY <3>6, <5>1 DEF SentBy
        <5>3. worker'[w] = new
          BY <2>0, <3>6
        <5> QED BY <5>1, <5>2, <5>3 DEF Tracked
      <4> QED BY <1>2, <3>3, <3>4, <4>1, <4>2, TrackStep
    <3> QED BY <2>2, <3>0, <3>5, <3>6, SendCases
  <2>3. ASSUME NEW w \in Workers, MarkSubmitted(w) PROVE TrackInv'
    <3>0. PICK st : st = worker[w]
      OBVIOUS
    <3>1. /\ st \in Worker /\ st.row \in DOMAIN rows /\ rows[st.row] \in Row /\ rows[st.row].ref = 0
          /\ st.ref # 0 /\ st.ref \in DOMAIN txs /\ UNCHANGED txs /\ rows \in Seq(Row) /\ st.ref \in Nat
      <4>1. /\ st \in Worker /\ st.row \in DOMAIN rows /\ rows[st.row].ref = 0 /\ st.ref \in DOMAIN txs
            /\ UNCHANGED txs
        BY <2>3, <3>0, WorkerFacts DEF MarkSubmitted, InHand, Awaits, Building, Unsent, Placed, chainVars
      <4> QED BY <4>1, TableFacts
    <3>2. PICK row, new : /\ row = [rows[st.row] EXCEPT !.status = "submitted", !.ref = st.ref]
                          /\ new = [st EXCEPT !.pc = "wait"]
      OBVIOUS
    <3>3. rows' = [rows EXCEPT ![st.row] = row] /\ worker' = [worker EXCEPT ![w] = new]
      BY <2>3, <3>0, <3>2 DEF MarkSubmitted, To
    <3>4. /\ row \in Row /\ row.status = "submitted" /\ row.ref = st.ref /\ row.stale = rows[st.row].stale
      BY <3>1, <3>2 DEF Row, RowStatus
    <3>5. /\ DOMAIN rows' = DOMAIN rows /\ rows'[st.row] = row
          /\ \A q \in DOMAIN rows : q # st.row => rows'[q] = rows[q]
      BY <3>1, <3>3, <3>4, Updated
    <3>6. ASSUME NEW t \in DOMAIN txs, Tracked(t) PROVE Tracked(t)'
      <4>1. t # 0
        BY TableFacts
      <4>2. CASE \E r \in DOMAIN rows : rows[r].ref = t
        BY <3>1, <3>5, <4>1, <4>2 DEF Tracked
      <4>3. CASE \E v \in Workers : worker[v].pc = "mark" /\ worker[v].ref = t
        <5>1. PICK v \in Workers : worker[v].pc = "mark" /\ worker[v].ref = t
          BY <4>3
        <5>2. CASE v = w
          <6>1. rows'[st.row].ref = t /\ st.row \in DOMAIN rows'
            BY <3>0, <3>1, <3>4, <3>5, <5>1, <5>2
          <6> QED BY <6>1 DEF Tracked
        <5>3. CASE v # w
          <6>1. worker'[v] = worker[v]
            BY <2>0, <3>3, <5>3
          <6> QED BY <5>1, <6>1 DEF Tracked
        <5> QED BY <5>2, <5>3
      <4> QED BY <3>6, <4>2, <4>3 DEF Tracked
    <3>7. ASSUME Seen("stale")' = 0, NEW r \in DOMAIN rows'
          PROVE  \/ FailedRightly(rows'[r], txs')
                 \/ r \in DOMAIN rows /\ rows'[r] = rows[r]
      <4>1. Seen("stale") = 0
        BY <1>2, <3>7, TroubleStays DEF PublisherInv, Seen, Disturbance
      <4>2. ~rows[st.row].stale
        BY <3>1, <4>1 DEF TrackInv, FailedRightly
      <4> QED BY <3>4, <3>5, <4>2 DEF FailedRightly
    <3> QED BY <1>2, <3>1, <3>6, <3>7, TrackStep, Same
  <2>4. CASE Chain \/ IndexGrows
    <3>1. UNCHANGED <<rows, worker>>
      BY <2>4 DEF Chain, MineTx, DropTx, CloseWindow, Dispute, FinalizeByOther, Judge, ClaimByOther, IndexGrows
    <3>2. \A t \in DOMAIN txs : Tracked(t) => Tracked(t)'
      BY <3>1 DEF Tracked
    <3>3. ASSUME UNCHANGED txs PROVE TrackInv'
      BY <1>2, <3>1, <3>2, <3>3, TrackStep, Same
    <3>4. ASSUME NEW t \in DOMAIN txs, MineTx(t) \/ DropTx(t) PROVE TrackInv'
      <4>1. TxsKept(txs, txs') /\ DOMAIN txs' = DOMAIN txs
        BY <3>4, MineTxsKept
      <4> QED BY <1>2, <3>1, <3>2, <4>1, TrackStep
    <3>5. ASSUME ~\E t \in DOMAIN txs : MineTx(t) \/ DropTx(t) PROVE UNCHANGED txs
      BY <2>4, <3>5 DEF Chain, CloseWindow, Dispute, FinalizeByOther, Judge, ClaimByOther, IndexGrows, chainVars
    <3> QED BY <3>3, <3>4, <3>5
  <2>5. CASE Crash
    <3>1. UNCHANGED <<rows, txs>> /\ Seen("crashes")' # 0
      BY <2>0, <2>5 DEF Crash, chainVars, Disturb, Seen, Disturbance
    <3> QED BY <1>2, <3>1, TrackStep, Same
  <2>6. ASSUME NEW r \in DOMAIN rows, Age(r) PROVE TrackInv'
    <3>1. UNCHANGED <<txs, worker>> /\ Seen("stale")' # 0
      BY <2>0, <2>6 DEF Age, chainVars, Disturb, Seen, Disturbance
    <3>2. ASSUME NEW q \in DOMAIN rows PROVE q \in DOMAIN rows' /\ rows'[q].ref = rows[q].ref
      <4>1. PICK row : row = [rows[r] EXCEPT !.stale = TRUE]
        OBVIOUS
      <4>2. row.ref = rows[r].ref /\ rows' = [rows EXCEPT ![r] = row]
        BY <2>0, <2>6, <4>1 DEF Age, Row
      <4> QED BY <4>2
    <3>3. \A t \in DOMAIN txs : Tracked(t) => Tracked(t)'
      BY <3>1, <3>2 DEF Tracked
    <3> QED BY <1>2, <3>1, <3>3, TrackStep, Same
  <2> QED BY <1>2, <2>1, <2>2, <2>3, <2>4, <2>5, <2>6 DEF Next
<1> QED BY <1>1, <1>2

LEMMA InitTracks == Init => TrackInv
  BY DEF Init, TrackInv

\* Nothing an account has sent is forgotten, by any step.
LEMMA NextTxsKept ==
  ASSUME PublisherInv, Next
  PROVE  TxsKept(txs, txs')
<1>1. ASSUME UNCHANGED txs PROVE TxsKept(txs, txs')
  BY <1>1, Same
<1>2. ASSUME NEW w \in Workers, Step(w) PROVE TxsKept(txs, txs')
  <2>1. CASE Send(w)
    BY <1>1, <2>1, SendCases, SendTxsKept
  <2>2. CASE ~Send(w)
    BY <1>1, <1>2, <2>2, StepReads
  <2> QED BY <2>1, <2>2
<1>3. ASSUME ~(\E w \in Workers : Step(w)), ~\E t \in DOMAIN txs : MineTx(t) \/ DropTx(t)
      PROVE  UNCHANGED txs
  BY <1>3 DEF Next, Chain, CloseWindow, Dispute, FinalizeByOther, Judge, ClaimByOther, IndexGrows, Crash,
     Age, chainVars
<1> QED BY <1>1, <1>2, <1>3, MineTxsKept

\* Only a publication adds a commitment.
LEMMA MineAdds ==
  ASSUME PublisherInv, NEW t \in DOMAIN txs, MineTx(t)
  PROVE  \/ DOMAIN registry' = DOMAIN registry
         \/ /\ DOMAIN registry' = DOMAIN registry \cup {Len(registry) + 1}
            /\ txs'[t].call = "publish" /\ txs'[t].state = "ok" /\ txs'[t].result = Len(registry) + 1
<1>0. /\ txs[t] \in Tx /\ registry \in Seq(OnchainEpoch) /\ content \in Nat
      /\ t \in DOMAIN txs
  BY TableFacts
<1>1. CASE UNCHANGED registry
  BY <1>1
<1>2. CASE txs[t].call = "finalize" /\ registry' = Settled(txs[t].arg)
  BY <1>2 DEF Settled
<1>3. CASE /\ txs[t].call = "publish"
           /\ txs' = [txs EXCEPT ![t].state = "ok", ![t].result = Len(registry) + 1]
           /\ registry' = Append(registry, [content |-> txs[t].arg, status |-> "Proposed",
                                            open |-> TRUE, verdict |-> "none", silent |-> FALSE])
  <2>1. PICK e : e = [content |-> txs[t].arg, status |-> "Proposed", open |-> TRUE, verdict |-> "none",
                      silent |-> FALSE]
    OBVIOUS
  <2>2. e \in OnchainEpoch
    BY <1>0, <2>1 DEF OnchainEpoch, Tx
  <2>3. DOMAIN registry' = DOMAIN registry \cup {Len(registry) + 1}
    BY <1>0, <1>3, <2>1, <2>2, Appended
  <2>4. PICK n : n = Len(registry) + 1
    OBVIOUS
  <2>5. PICK tx : tx = [txs[t] EXCEPT !.state = "ok", !.result = n]
    OBVIOUS
  <2>6. txs'[t] = tx
    BY <1>0, <1>3, <2>4, <2>5
  <2>7. tx.call = txs[t].call /\ tx.state = "ok" /\ tx.result = n
    BY <1>0, <2>5 DEF Tx
  <2> QED BY <1>3, <2>3, <2>4, <2>6, <2>7
<1> QED BY <1>1, <1>2, <1>3 DEF MineTx

LEMMA NextPublished ==
  ASSUME PublisherInv, Next, \A i \in DOMAIN registry : Published(i)
  PROVE  \A i \in DOMAIN registry' : Published(i)'
<1>1. ASSUME NEW i \in DOMAIN registry PROVE Published(i)'
  BY NextTxsKept DEF Published, TxsKept, Mined
<1>2. CASE DOMAIN registry' = DOMAIN registry
  BY <1>1, <1>2
<1>3. ASSUME NEW t \in DOMAIN txs, MineTx(t)
      PROVE  \A i \in DOMAIN registry' : Published(i)'
  <2>1. t \in DOMAIN txs'
    BY <1>3, MineTxsKept
  <2> QED BY <1>1, <1>2, <1>3, <2>1, MineAdds DEF Published
<1>4. ASSUME ~\E t \in DOMAIN txs : MineTx(t) PROVE DOMAIN registry' = DOMAIN registry
  <2>1. ASSUME NEW w \in Workers, Step(w) PROVE UNCHANGED registry
    BY <2>1 DEF Step, BeginTick, Query, EndStage, ResumeRow, FinalizeRow, ClaimRow, Build, CreateEpoch,
       Bond, Publish, Send, SubmitFails, MarkSubmitted, Receipt, GiveUp, chainVars
  <2>2. ASSUME ~\E w \in Workers : Step(w) PROVE DOMAIN registry' = DOMAIN registry
    BY <1>4, <2>2 DEF Next, Chain, DropTx, CloseWindow, Dispute, FinalizeByOther, Judge, Settled,
       ClaimByOther, IndexGrows, Crash, Age, chainVars
  <2> QED BY <2>1, <2>2
<1> QED BY <1>2, <1>3, <1>4

\* What a row says is settled when it is built, and a row is built after the others.
RowsGrow ==
  /\ \A r \in DOMAIN rows : r \in DOMAIN rows' /\ rows'[r].content = rows[r].content
  /\ \/ DOMAIN rows' = DOMAIN rows
     \/ /\ DOMAIN rows' = DOMAIN rows \cup {Len(rows) + 1} /\ Len(rows) + 1 \notin DOMAIN rows
        /\ rows'[Len(rows) + 1] = NewRow

LEMMA MarkRows ==
  ASSUME PublisherInv, NEW w \in Workers, MarkSubmitted(w)
  PROVE  /\ worker[w].row \in DOMAIN rows /\ worker[w].stage = "build" /\ Building(worker[w])
         /\ DOMAIN rows' = DOMAIN rows /\ UNCHANGED trouble
         /\ \A q \in DOMAIN rows : q # worker[w].row => rows'[q] = rows[q]
         /\ rows'[worker[w].row].content = rows[worker[w].row].content
         /\ rows'[worker[w].row].status = "submitted"
         /\ \E new : /\ worker' = [worker EXCEPT ![w] = new] /\ new.pc = "wait" /\ new.stage = "build"
                     /\ new.row = worker[w].row /\ new.todo = worker[w].todo
<1>0. PICK st : st = worker[w]
  OBVIOUS
<1>1. /\ st \in Worker /\ st.row \in DOMAIN rows /\ rows[st.row] \in Row /\ rows \in Seq(Row)
      /\ st.stage = "build" /\ Building(st) /\ st.ref \in DOMAIN txs
  BY <1>0, WorkerFacts, TableFacts DEF MarkSubmitted, InHand, Awaits, Building, Placed
<1>2. PICK row, new : /\ row = [rows[st.row] EXCEPT !.status = "submitted", !.ref = st.ref]
                      /\ new = [st EXCEPT !.pc = "wait"]
  OBVIOUS
<1>3. rows' = [rows EXCEPT ![st.row] = row] /\ worker' = [worker EXCEPT ![w] = new] /\ UNCHANGED trouble
  BY <1>0, <1>2 DEF MarkSubmitted, To
<1>4. row \in Row /\ row.status = "submitted" /\ row.content = rows[st.row].content
  BY <1>1, <1>2, TableFacts DEF Row, RowStatus
<1>5. new.pc = "wait" /\ new.stage = "build" /\ new.row = st.row /\ new.todo = st.todo
  BY <1>1, <1>2 DEF Worker
<1>6. /\ DOMAIN rows' = DOMAIN rows /\ rows'[st.row] = row
      /\ \A q \in DOMAIN rows : q # st.row => rows'[q] = rows[q]
  BY <1>1, <1>3, <1>4, Updated
<1> QED BY <1>0, <1>1, <1>3, <1>4, <1>5, <1>6

LEMMA AgedRow ==
  ASSUME PublisherInv, NEW r \in DOMAIN rows, Age(r)
  PROVE  DOMAIN rows' = DOMAIN rows /\ \A q \in DOMAIN rows : rows'[q].content = rows[q].content
<1>1. PICK row : row = [rows[r] EXCEPT !.stale = TRUE]
  OBVIOUS
<1>2. rows' = [rows EXCEPT ![r] = row]
  BY <1>1, TableFacts DEF Age
<1>3. row \in Row /\ row.content = rows[r].content
  BY <1>1, TableFacts DEF Row
<1>4. rows \in Seq(Row)
  BY TableFacts
<1> QED BY <1>2, <1>3, <1>4, Updated

LEMMA NextRowsGrow ==
  ASSUME PublisherInv, Next
  PROVE  RowsGrow
<1>1. ASSUME UNCHANGED rows PROVE RowsGrow
  BY <1>1 DEF RowsGrow
<1>2. ASSUME NEW w \in Workers, Step(w), ~MarkSubmitted(w) PROVE RowsGrow
  <2>1. \A r \in DOMAIN rows : r \in DOMAIN rows' /\ rows'[r].content = rows[r].content
    BY <1>2, StepRows DEF GoesOn
  <2>2. CASE rows' = Append(rows, NewRow)
    <3>1. rows \in Seq(Row) /\ NewRow \in Row
      BY TableFacts DEF NewRow, Row, RowStatus
    <3> QED BY <2>1, <2>2, <3>1, Appended DEF RowsGrow
  <2> QED BY <1>2, <2>1, <2>2, StepRows DEF RowsGrow
<1>3. ASSUME NEW w \in Workers, MarkSubmitted(w) PROVE RowsGrow
  <2>1. \A q \in DOMAIN rows : rows'[q].content = rows[q].content
    BY <1>3, MarkRows
  <2> QED BY <1>3, <2>1, MarkRows DEF RowsGrow
<1>4. ASSUME NEW r \in DOMAIN rows, Age(r) PROVE RowsGrow
  BY <1>4, AgedRow DEF RowsGrow
<1>5. ASSUME ~\E w \in Workers : Step(w), ~\E r \in DOMAIN rows : Age(r) PROVE UNCHANGED rows
  BY <1>5 DEF Next, Chain, MineTx, DropTx, CloseWindow, Dispute, FinalizeByOther, Judge, ClaimByOther,
     IndexGrows, Crash
<1> QED BY <1>1, <1>2, <1>3, <1>4, <1>5

LEMMA NextOrdered ==
  ASSUME PublisherInv, Next, Ordered
  PROVE  Ordered'
<1>1. RowsGrow
  BY NextRowsGrow
<1>2. CASE DOMAIN rows' = DOMAIN rows
  BY <1>1, <1>2 DEF RowsGrow, Ordered
<1>3. CASE /\ DOMAIN rows' = DOMAIN rows \cup {Len(rows) + 1} /\ Len(rows) + 1 \notin DOMAIN rows
           /\ rows'[Len(rows) + 1] = NewRow
  <2>1. /\ NewRow.content = content /\ content \in Nat /\ Len(rows) \in Nat
        /\ \A r \in DOMAIN rows : r \in Nat /\ r <= Len(rows) /\ rows[r].content <= content
    BY TableFacts DEF NewRow, PublisherInv, RowsOK, RowOK
  <2>2. PICK n : n = Len(rows) + 1
    OBVIOUS
  <2>3. \A r \in DOMAIN rows : r <= n /\ ~(n <= r)
    BY <2>1, <2>2
  <2>4. \A r \in DOMAIN rows : rows'[r].content = rows[r].content
    BY <1>1 DEF RowsGrow
  <2>5. rows'[n].content = content /\ DOMAIN rows' = DOMAIN rows \cup {n}
    BY <1>3, <2>1, <2>2
  <2>6. rows'[n].content <= rows'[n].content
    BY <2>1, <2>5
  <2> QED BY <2>1, <2>3, <2>4, <2>5, <2>6 DEF Ordered
<1> QED BY <1>1, <1>2, <1>3 DEF RowsGrow

\* A state that has nothing of its own in hand.
LEMMA EndsCalm ==
  ASSUME NEW st \in Worker, NEW rs
  PROVE  /\ ~Building(NextStage(st)) /\ Resuming(NextStage(st), rs)
         /\ ~Building(StageFails(st)) /\ Resuming(StageFails(st), rs)
         /\ ~Building(Idle) /\ Resuming(Idle, rs)
<1>1. ~Building(Idle) /\ Resuming(Idle, rs)
  BY DEF Idle, Building, Resuming
<1>2. PICK next : next = NextStage(st)
  OBVIOUS
<1>3. \/ next.stage \in {"finalize", "claim"} /\ next.pc = "query"
      \/ next.stage = "build" /\ next.pc = "build"
      \/ next = Idle
  <2>1. CASE st.stage = "resume"
    BY <1>2, <2>1 DEF NextStage, Worker
  <2>2. CASE st.stage = "finalize"
    BY <1>2, <2>2 DEF NextStage, Worker
  <2>3. CASE st.stage = "claim" /\ st.building /\ ~st.inFlight
    BY <1>2, <2>3 DEF NextStage, Worker
  <2>4. CASE st.stage \notin {"resume", "finalize"} /\ ~(st.stage = "claim" /\ st.building /\ ~st.inFlight)
    BY <1>2, <2>4 DEF NextStage
  <2> QED BY <2>1, <2>2, <2>3, <2>4
<1>4. ~Building(next) /\ Resuming(next, rs)
  BY <1>1, <1>3 DEF Building, Resuming
<1> QED BY <1>1, <1>2, <1>4 DEF StageFails

LEMMA RowDoneCalm ==
  ASSUME NEW st \in Worker, NEW rs,
         st.stage = "resume" => \A r \in st.todo : r # st.row => rs[r].status = "submitted",
         st.stage = "finalize" => \A r \in st.todo : r # st.row => rs[r].status = "published"
  PROVE  /\ ~Building(RowDone(st)) /\ Resuming(RowDone(st), rs)
         /\ ~Building(Unresolved(st)) /\ Resuming(Unresolved(st), rs)
<1>1. ~Building(Idle) /\ Resuming(Idle, rs)
  BY EndsCalm
<1>2. PICK done : done = RowDone(st)
  OBVIOUS
<1>3. PICK left : left = Unresolved(st)
  OBVIOUS
<1>4. st.stage # "build" => done.pc = "pick" /\ done.stage = st.stage /\ done.todo = st.todo \ {st.row}
  BY <1>2 DEF RowDone, Worker
<1>5. st.stage = "build" => done = Idle
  BY <1>2 DEF RowDone
<1>6. ~Building(done) /\ Resuming(done, rs)
  BY <1>1, <1>4, <1>5 DEF Building, Resuming
<1>7. st.stage = "resume" => left.pc = "pick" /\ left.stage = st.stage /\ left.todo = st.todo \ {st.row}
  BY <1>3 DEF Unresolved, RowDone, Worker
<1>8. st.stage # "resume" => left = Idle
  BY <1>3 DEF Unresolved
<1>9. ~Building(left) /\ Resuming(left, rs)
  BY <1>1, <1>7, <1>8 DEF Building, Resuming
<1> QED BY <1>2, <1>3, <1>6, <1>9

LEMMA PreparedCalm ==
  ASSUME NEW st \in Worker, NEW r, NEW call, NEW arg, NEW next, next = Prepare(st, r, call, arg)
  PROVE  next.row = r /\ next.stage = st.stage /\ next.pc = "send" /\ next.todo = st.todo
  BY DEF Prepare, Worker

\* The loop takes nothing in hand but what it has just built, and what it resumes is still
\* submitted: no step of its own changes the status of a row it has yet to visit.
Calm(old, new) ==
  Resuming(new, rows') /\ (Building(new) => Building(old) /\ new.row = old.row)

LEMMA StepCalm ==
  ASSUME PublisherInv, TrackInv, Seen("stale") = 0, Resuming(worker["loop"], rows),
         Step("loop"), ~MarkSubmitted("loop"), ~Send("loop"), rows' # Append(rows, NewRow)
  PROVE  \E st : worker' = [worker EXCEPT !["loop"] = st] /\ Calm(worker["loop"], st)
<1>0. PICK old : old = worker["loop"]
  OBVIOUS
<1>1. "loop" \in Workers /\ old \in Worker /\ Placed(old) /\ Resuming(old, rows)
  BY <1>0, WorkerFacts DEF Workers
<1> DEFINE Goal == \E st : worker' = [worker EXCEPT !["loop"] = st] /\ Calm(old, st)
<1>3. ASSUME NEW st, To("loop", st), Resuming(st, rows'),
             Building(st) => Building(old) /\ st.row = old.row
      PROVE  Goal
  BY <1>3 DEF To, Calm
<1> HIDE DEF Goal
<1>4. ASSUME EndStage("loop") \/ SubmitFails("loop") PROVE Goal
  <2>1. To("loop", NextStage(old)) \/ To("loop", StageFails(old))
    BY <1>0, <1>4 DEF EndStage, SubmitFails
  <2> QED BY <1>1, <1>3, <2>1, EndsCalm
<1>5. ASSUME GiveUp("loop") PROVE Goal
  <2>1. UNCHANGED rows /\ (To("loop", StageFails(old)) \/ To("loop", Unresolved(old))) /\ old.pc = "wait"
    BY <1>0, <1>5 DEF GiveUp
  <2>2. /\ old.stage = "resume" => \A r \in old.todo : rows'[r].status = "submitted"
        /\ old.stage = "finalize" => \A r \in old.todo : rows'[r].status = "published"
    BY <1>1, <2>1 DEF Resuming
  <2> QED BY <1>1, <1>3, <2>1, <2>2, EndsCalm, RowDoneCalm
<1>6. ASSUME \E b \in BOOLEAN : BeginTick("loop", b) PROVE Goal
  <2>1. PICK b \in BOOLEAN : BeginTick("loop", b)
    BY <1>6
  <2>2. PICK st : st = [Idle EXCEPT !.pc = "query", !.building = b]
    OBVIOUS
  <2>3. st.pc = "query" /\ st.stage = "resume"
    BY <2>2 DEF Idle
  <2>4. To("loop", st)
    BY <2>1, <2>2 DEF BeginTick
  <2>5. Resuming(st, rows') /\ ~Building(st)
    BY <2>3 DEF Resuming, Building
  <2> QED BY <1>3, <2>4, <2>5
<1>7. ASSUME Query("loop") PROVE Goal
  <2>0. PICK todo : todo = StageRows(old.stage)
    OBVIOUS
  <2>1. PICK st : st = [old EXCEPT !.todo = todo, !.pc = "pick"]
    OBVIOUS
  <2>2. st.pc = "pick" /\ st.stage = old.stage /\ st.todo = todo
    BY <1>1, <2>1 DEF Worker
  <2>3. To("loop", st) /\ UNCHANGED rows
    BY <1>0, <1>7, <2>0, <2>1 DEF Query
  <2>4. /\ old.stage = "resume" => \A r \in todo : rows[r].status = "submitted"
        /\ old.stage = "finalize" => \A r \in todo : rows[r].status = "published"
    BY <2>0 DEF StageRows, RowsWith
  <2>5. Resuming(st, rows') /\ ~Building(st)
    BY <2>2, <2>3, <2>4 DEF Resuming, Building
  <2> QED BY <1>3, <2>3, <2>5
<1>8. ASSUME ResumeRow("loop") PROVE Goal
  <2>1. /\ AtRow("loop") \in Worker /\ AtRow("loop").stage = "resume" /\ AtRow("loop").todo = old.todo
        /\ AtRow("loop").row = PickedRow("loop") /\ PickedRow("loop") \in old.todo
        /\ PickedRow("loop") \in DOMAIN rows /\ old.stage = "resume" /\ old.pc = "pick"
    BY <1>0, <1>1, <1>8, AtRowOK, PickedIn DEF ResumeRow
  <2>2. ~rows[PickedRow("loop")].stale
    BY <2>1 DEF TrackInv, FailedRightly
  <2>3. PICK st : st = [AtRow("loop") EXCEPT !.pc = "wait", !.call = "publish", !.ref = rows[PickedRow("loop")].ref]
    OBVIOUS
  <2>4. st.pc = "wait" /\ st.stage = "resume" /\ st.todo = old.todo /\ st.row = PickedRow("loop")
    BY <2>1, <2>3 DEF Worker
  <2>5. To("loop", st) /\ UNCHANGED rows
    BY <1>8, <2>2, <2>3 DEF ResumeRow
  <2>6. Resuming(st, rows') /\ ~Building(st)
    BY <1>1, <2>1, <2>4, <2>5 DEF Resuming, Building
  <2> QED BY <1>3, <2>5, <2>6
<1>9. ASSUME FinalizeRow("loop") PROVE Goal
  <2>1. PICK r, i : r = PickedRow("loop") /\ i = rows[r].onchain
    OBVIOUS
  <2>2. /\ AtRow("loop") \in Worker /\ AtRow("loop").stage = "finalize" /\ old.stage = "finalize"
        /\ AtRow("loop").todo = old.todo /\ AtRow("loop").row = r /\ old.pc = "pick"
        /\ r \in old.todo /\ old.todo \subseteq DOMAIN rows
    BY <1>0, <1>1, <1>9, <2>1, AtRowOK, PickedIn, WorkerFacts DEF FinalizeRow, ToVisit
  <2>3. PICK seen : seen = registry[i].status
    OBVIOUS
  <2>4. PICK at : at = [old EXCEPT !.seen = seen]
    OBVIOUS
  <2>5. \/ To("loop", RowDone(AtRow("loop")))
        \/ Finalizable(i) /\ UNCHANGED rows /\ To("loop", Prepare(at, r, "finalize", i))
    BY <1>0, <1>9, <2>1, <2>3, <2>4 DEF FinalizeRow
  <2>6. CASE To("loop", RowDone(AtRow("loop")))
    <3>1. \A q \in old.todo : q # r => rows'[q].status = "published"
      <4>1. \E row : rows' = [rows EXCEPT ![r] = row] \/ UNCHANGED rows
        BY <1>9, <2>1 DEF FinalizeRow
      <4>2. \A q \in DOMAIN rows : q # r => rows'[q] = rows[q]
        BY <4>1, TableFacts
      <4> QED BY <1>1, <2>2, <4>2 DEF Resuming
    <3> QED BY <1>3, <2>2, <2>6, <3>1, RowDoneCalm
  <2>7. CASE Finalizable(i) /\ UNCHANGED rows /\ To("loop", Prepare(at, r, "finalize", i))
    <3>1. at \in Worker /\ at.stage = "finalize" /\ at.todo = old.todo
      BY <1>1, <2>2, <2>3, <2>4, <2>7 DEF Finalizable, Disputed, Undecided, Worker
    <3>2. r \in at.todo /\ \A q \in at.todo : rows'[q].status = "published"
      BY <1>1, <2>2, <2>7, <3>1 DEF Resuming
    <3>3. PICK next : next = Prepare(at, r, "finalize", i)
      OBVIOUS
    <3>4. next.row = r /\ next.stage = "finalize" /\ next.pc = "send" /\ next.todo = at.todo
      BY <3>1, <3>3, PreparedCalm
    <3>5. Resuming(next, rows')
      BY <3>2, <3>4 DEF Resuming
    <3> QED BY <1>3, <2>7, <3>3, <3>4, <3>5 DEF Building
  <2> QED BY <2>5, <2>6, <2>7
<1>10. ASSUME ClaimRow("loop") PROVE Goal
  <2>1. PICK r, i : r = PickedRow("loop") /\ i = rows[r].onchain
    OBVIOUS
  <2>2. /\ AtRow("loop") \in Worker /\ AtRow("loop").stage = "claim" /\ old.stage = "claim"
    BY <1>0, <1>1, <1>10, AtRowOK, PickedIn DEF ClaimRow
  <2>3. PICK next : next = Prepare(old, r, "claim", i)
    OBVIOUS
  <2>4. To("loop", RowDone(AtRow("loop"))) \/ To("loop", next) \/ To("loop", StageFails(old))
    BY <1>0, <1>10, <2>1, <2>3 DEF ClaimRow
  <2>5. next.stage = "claim" /\ Resuming(next, rows')
    <3>1. next.stage = "claim"
      BY <1>1, <2>2, <2>3, PreparedCalm
    <3> QED BY <3>1 DEF Resuming
  <2>6. ~Building(next)
    BY <2>5 DEF Building
  <2> QED BY <1>1, <1>3, <2>2, <2>4, <2>5, <2>6, RowDoneCalm, EndsCalm
<1>11. ASSUME Build("loop") PROVE Goal
  <2>1. To("loop", Idle)
    BY <1>11 DEF Build
  <2> QED BY <1>1, <1>3, <2>1, EndsCalm
<1>12. ASSUME Bond("loop") \/ Publish("loop") PROVE Goal
  <2>1. PICK n : n = rows[old.row].content
    OBVIOUS
  <2>2. PICK st : st = [old EXCEPT !.pc = "publish"]
    OBVIOUS
  <2>3. PICK approve : approve = Prepare(old, old.row, "approve", 0)
    OBVIOUS
  <2>4. PICK publish : publish = Prepare(old, old.row, "publish", n)
    OBVIOUS
  <2>5. old.stage = "build" /\ Building(old)
    BY <1>0, <1>1, <1>12 DEF Bond, Publish, Placed, Building
  <2>6. st.pc = "publish" /\ st.row = old.row /\ st.stage = "build"
    BY <1>1, <2>2, <2>5 DEF Worker
  <2>7. Resuming(st, rows')
    BY <2>6 DEF Resuming
  <2>8. approve.row = old.row /\ Resuming(approve, rows') /\ publish.row = old.row /\ Resuming(publish, rows')
    <3>1. /\ old \in Worker /\ old.stage # "resume" /\ old.stage # "finalize"
      BY <1>1, <2>5
    <3>2. approve.row = old.row /\ Resuming(approve, rows')
      BY <2>3, <3>1, PreparedCalm DEF Resuming
    <3>3. publish.row = old.row /\ Resuming(publish, rows')
      BY <2>4, <3>1, PreparedCalm DEF Resuming
    <3> QED BY <3>2, <3>3
  <2>9. To("loop", st) \/ To("loop", approve) \/ To("loop", publish) \/ To("loop", Idle)
    BY <1>0, <1>12, <2>1, <2>2, <2>3, <2>4 DEF Bond, Publish
  <2> QED BY <1>1, <1>3, <2>5, <2>6, <2>7, <2>8, <2>9, EndsCalm
<1>13. ASSUME Receipt("loop") PROVE Goal
  <2>1. /\ old.pc = "wait" /\ old.row \in DOMAIN rows /\ rows \in Seq(Row)
        /\ old.call = "approve" => old.stage = "build"
    BY <1>0, <1>1, <1>13, WaitFacts, TableFacts DEF Receipt
  <2>2. PICK next : next = [old EXCEPT !.pc = "publish"]
    OBVIOUS
  <2>3. next.pc = "publish" /\ next.row = old.row /\ next.stage = old.stage
    BY <1>1, <2>2 DEF Worker
  <2>4. \/ old.call = "approve" /\ To("loop", next)
        \/ To("loop", RowDone(old)) \/ To("loop", Unresolved(old))
    BY <1>0, <1>13, <2>2 DEF Receipt
  <2>5. \E row : rows' = [rows EXCEPT ![old.row] = row]
    BY <1>0, <1>13 DEF Receipt, MarkClaimed
  <2>6. \A r \in DOMAIN rows : r # old.row => rows'[r] = rows[r]
    BY <2>1, <2>5
  <2>7. old.todo \subseteq DOMAIN rows
    BY <1>0, <1>1, <2>1, WorkerFacts DEF ToVisit
  <2>8. /\ old.stage = "resume" => \A r \in old.todo : r # old.row => rows'[r].status = "submitted"
        /\ old.stage = "finalize" => \A r \in old.todo : r # old.row => rows'[r].status = "published"
    BY <1>1, <2>1, <2>6, <2>7 DEF Resuming
  <2>9. CASE old.call = "approve" /\ To("loop", next)
    <3>1. Resuming(next, rows') /\ Building(old)
      BY <2>1, <2>3, <2>9 DEF Resuming, Building
    <3> QED BY <1>3, <2>3, <2>9, <3>1
  <2> QED BY <1>1, <1>3, <2>4, <2>8, <2>9, RowDoneCalm
<1>14. Goal
  BY <1>4, <1>5, <1>6, <1>7, <1>8, <1>9, <1>10, <1>11, <1>12, <1>13 DEF Step, CreateEpoch
<1> QED BY <1>0, <1>14 DEF Goal

\* Until the endpoint is called, the loop is the only worker.
LEMMA ApiRests ==
  ASSUME PublisherInv, worker["api"] = Idle, Step("api")
  PROVE  Seen("posts")' # 0
<1>1. Idle.pc = "idle" /\ trouble \in [Disturbance -> Nat]
  BY WorkerFacts DEF Idle, Workers
<1>2. PICK force, publish \in BOOLEAN : CreateEpoch("api", force, publish)
  BY <1>1 DEF Step, BeginTick, Query, EndStage, ResumeRow, FinalizeRow, ClaimRow, Picked, Build, Bond,
     Publish, Send, SubmitFails, MarkSubmitted, Receipt, GiveUp
<1>3. trouble' = [trouble EXCEPT !["rows"] = @ + 1, !["posts"] = @ + 1]
  BY <1>2 DEF CreateEpoch
<1> QED BY <1>1, <1>3 DEF Seen, Disturbance

LEMMA StandingRows ==
  ASSUME PublisherInv
  PROVE  Standing \subseteq DOMAIN rows
<1>1. "loop" \in Workers
  BY DEF Workers
<1>2. Building(worker["loop"]) => worker["loop"].row \in DOMAIN rows
  BY <1>1, WorkerFacts DEF InHand, Building
<1> QED BY <1>2 DEF Standing, Committed

\* No further row comes to stand.
LEMMA DistinctKept ==
  ASSUME PublisherInv, Next, Distinct, Standing' \subseteq Standing
  PROVE  Distinct'
<1>1. \A r \in Standing : rows'[r].content = rows[r].content
  BY StandingRows, NextRowsGrow DEF RowsGrow
<1> QED BY <1>1 DEF Distinct

\* A row the loop leaves committed was so before: only a submitted row is published, and a
\* failed or a rejected one is never finalized.
LEMMA CommittedBefore ==
  ASSUME PublisherInv, PublisherInv', TrackInv, Seen("stale") = 0, Resuming(worker["loop"], rows),
         UNCHANGED registry, NEW r \in DOMAIN rows, r \in DOMAIN rows',
         GoesOn("loop", rows[r], rows'[r]),
         rows'[r].status \in {"submitted", "published", "finalized"}
  PROVE  r \in Committed
<1>0. PICK row : row = rows[r]
  OBVIOUS
<1>1. PICK new : new = rows'[r]
  OBVIOUS
<1>2. row \in Row /\ RowOK(row, txs, registry, content) /\ FailedRightly(row, txs)
  BY <1>0, TableFacts DEF PublisherInv, RowsOK, TrackInv
<1>3. CASE /\ new.status = "finalized" /\ worker["loop"].pc = "wait" /\ worker["loop"].call = "finalize"
           /\ rows[worker["loop"].row] = row
  <2>1. PICK st : st = worker["loop"]
    OBVIOUS
  <2>2. st \in Worker /\ Placed(st)
    BY <2>1, WorkerFacts DEF Workers
  <2>3. st.stage = "finalize"
    BY <1>3, <2>1, <2>2 DEF Placed, Worker
  <2>4. rows[st.row].status = "published"
    BY <1>3, <2>1, <2>3 DEF Resuming
  <2> QED BY <1>0, <1>3, <2>1, <2>4 DEF Committed
<1>4. CASE new.status = row.status
  BY <1>0, <1>1, <1>4 DEF Committed
<1>5. CASE /\ new.status = "published" /\ worker["loop"].pc = "wait" /\ worker["loop"].call = "publish"
           /\ rows[worker["loop"].row] = row
  <2>1. PICK st : st = worker["loop"]
    OBVIOUS
  <2>2. st \in Worker /\ Placed(st)
    BY <2>1, WorkerFacts DEF Workers
  <2>3. st.stage \in {"resume", "build"}
    BY <1>5, <2>1, <2>2 DEF Placed, Worker
  <2>4. rows[st.row].status = "submitted"
    BY <1>5, <2>1, <2>3 DEF Resuming
  <2> QED BY <1>0, <1>5, <2>1, <2>4 DEF Committed
<1>6. CASE /\ new.status = "finalized" /\ row.onchain # 0
           /\ ~Undecided(row.onchain) /\ new.status = Mirrored(registry[row.onchain].status)
  <2>1. row.status # "failed"
    BY <1>2, <1>6 DEF FailedRightly, RowOK
  <2>2. row.status # "rejected"
    BY <1>2, <1>6 DEF RowOK, Mirrored
  <2>3. row.status # "built"
    BY <1>2, <1>6 DEF RowOK
  <2> QED BY <1>0, <1>2, <2>1, <2>2, <2>3 DEF Committed, Row, RowStatus
<1> QED BY <1>0, <1>1, <1>3, <1>4, <1>5, <1>6 DEF GoesOn

\* A step of the loop that builds nothing.
LEMMA LoopContent ==
  ASSUME PublisherInv, PublisherInv', TrackInv, Next, Seen("stale") = 0,
         Resuming(worker["loop"], rows), Distinct,
         Step("loop"), ~MarkSubmitted("loop"), rows' # Append(rows, NewRow), Seen("posts")' = 0
  PROVE  Resuming(worker["loop"], rows)' /\ Distinct'
<1>0. PICK old : old = worker["loop"]
  OBVIOUS
<1>1. "loop" \in Workers /\ old \in Worker /\ Placed(old) /\ worker \in [Workers -> Worker]
  BY <1>0, WorkerFacts DEF Workers
<1>2. PICK new : worker' = [worker EXCEPT !["loop"] = new] /\ Calm(old, new)
  <2>1. CASE Send("loop")
    <3>1. old.pc = "send" /\ UNCHANGED rows
      BY <1>0, <1>1, <2>1, SendCases
    <3>2. PICK fails : fails = StageFails(old)
      OBVIOUS
    <3>3. Calm(old, fails)
      BY <1>1, <3>2, EndsCalm DEF Calm
    <3>4. ASSUME NEW sent, SentBy(old, sent) PROVE Calm(old, sent)
      <4>1. /\ sent.call = old.call /\ sent.row = old.row /\ sent.stage = old.stage
            /\ sent.pc = IF old.call = "publish" THEN "mark" ELSE "wait"
            /\ sent.todo = old.todo
        BY <3>4 DEF SentBy
      <4>2. old.stage # "resume" /\ Resuming(old, rows')
        BY <1>0, <1>1, <3>1 DEF Placed
      <4>3. Resuming(sent, rows')
        BY <3>1, <4>1, <4>2 DEF Resuming
      <4>4. Building(sent) => Building(old)
        BY <3>1, <4>1 DEF Building
      <4> QED BY <4>1, <4>3, <4>4 DEF Calm
    <3> QED BY <1>0, <1>1, <2>1, <3>2, <3>3, <3>4, SendCases
  <2>2. CASE ~Send("loop")
    BY <1>0, <2>2, StepCalm
  <2> QED BY <2>1, <2>2
<1>3. worker'["loop"] = new
  BY <1>1, <1>2
<1>4. /\ \A r \in DOMAIN rows : r \in DOMAIN rows' /\ GoesOn("loop", rows[r], rows'[r])
      /\ DOMAIN rows' = DOMAIN rows
  BY <1>1, StepRows
<1>5. UNCHANGED registry
  BY DEF Step, BeginTick, Query, EndStage, ResumeRow, FinalizeRow, ClaimRow, Build, CreateEpoch, Bond,
     Publish, Send, SubmitFails, MarkSubmitted, Receipt, GiveUp, chainVars
<1>6. Committed' \subseteq Committed
  BY <1>4, <1>5, CommittedBefore DEF Committed
<1>7. Standing' \subseteq Standing
  BY <1>0, <1>2, <1>3, <1>6 DEF Standing, Calm
<1>8. Distinct'
  BY <1>7, DistinctKept
<1> QED BY <1>2, <1>3, <1>8 DEF Calm

\* MarkSubmitted: the row in hand stands already.
LEMMA MarkContent ==
  ASSUME PublisherInv, Next, Distinct, MarkSubmitted("loop")
  PROVE  Resuming(worker["loop"], rows)' /\ Distinct'
<1>0. PICK old : old = worker["loop"]
  OBVIOUS
<1>1. "loop" \in Workers /\ worker \in [Workers -> Worker]
  BY WorkerFacts DEF Workers
<1>2. /\ old.row \in DOMAIN rows /\ Building(old) /\ DOMAIN rows' = DOMAIN rows
      /\ \A q \in DOMAIN rows : q # old.row => rows'[q] = rows[q]
      /\ rows'[old.row].status = "submitted"
  BY <1>0, <1>1, MarkRows
<1>3. PICK new : /\ worker' = [worker EXCEPT !["loop"] = new] /\ new.pc = "wait" /\ new.stage = "build"
                 /\ new.row = old.row
  BY <1>0, <1>1, MarkRows
<1>4. worker'["loop"] = new
  BY <1>1, <1>3
<1>5. Resuming(new, rows')
  BY <1>2, <1>3 DEF Resuming
<1>6. Committed' \subseteq Committed \cup {old.row}
  BY <1>2 DEF Committed
<1>7. Standing' \subseteq Standing
  BY <1>0, <1>2, <1>3, <1>4, <1>6 DEF Standing
<1> QED BY <1>4, <1>5, <1>7, DistinctKept

\* Build: what is built says more than everything that is committed.
LEMMA BuildContent ==
  ASSUME PublisherInv, Next, Distinct, Ordered, Builds(FALSE),
         rows' = Append(rows, NewRow), worker' = [worker EXCEPT !["loop"] = Publishing]
  PROVE  Resuming(worker["loop"], rows)' /\ Distinct'
<1>1. "loop" \in Workers /\ worker \in [Workers -> Worker] /\ rows \in Seq(Row) /\ Len(rows) \in Nat
      /\ content \in Nat
  BY WorkerFacts, TableFacts DEF Workers
<1>2. PICK n : n = Len(rows) + 1
  OBVIOUS
<1>3. NewRow \in Row /\ NewRow.content = content /\ NewRow.status = "built"
  BY <1>1 DEF NewRow, Row, RowStatus
<1>4. /\ DOMAIN rows' = DOMAIN rows \cup {n} /\ n \notin DOMAIN rows /\ rows'[n] = NewRow
      /\ \A q \in DOMAIN rows : rows'[q] = rows[q]
  BY <1>1, <1>2, <1>3, Appended
<1>5. PICK new : new = Publishing
  OBVIOUS
<1>6. new.stage = "build" /\ new.pc = "bond" /\ new.row = n
  BY <1>2, <1>5 DEF Publishing, Idle
<1>7. worker'["loop"] = new
  BY <1>1, <1>5
<1>8. Resuming(new, rows')
  BY <1>6 DEF Resuming
<1>9. Committed' \subseteq Committed
  BY <1>3, <1>4 DEF Committed
<1>10. Standing' \subseteq Committed \cup {n}
  BY <1>6, <1>7, <1>9 DEF Standing
<1>11. ASSUME NEW q \in Committed PROVE rows[q].content # content
  <2>1. Committed \subseteq 0 .. Len(rows) /\ Committed # {} /\ Committed \subseteq DOMAIN rows
    BY <1>11, TableFacts DEF Committed
  <2>2. PICK m : m = Max(Committed)
    OBVIOUS
  <2>3. m \in Committed /\ q <= m
    BY <1>1, <1>11, <2>1, <2>2, LargestOf
  <2>4. rows[q].content <= rows[m].content
    BY <1>11, <2>1, <2>3 DEF Ordered
  <2>5. rows[m].content # content
    BY <2>1, <2>2 DEF Builds, Unchanged
  <2>6. rows[m].content <= content /\ rows[m].content \in Nat /\ rows[q].content \in Nat
    BY <1>11, <2>1, <2>3, TableFacts DEF PublisherInv, RowsOK, RowOK, Row
  <2> QED BY <1>1, <2>4, <2>5, <2>6
<1>12. Committed \subseteq Standing /\ Committed \subseteq DOMAIN rows
  BY DEF Standing, Committed
<1>13. Distinct'
  <2> SUFFICES ASSUME NEW r \in Standing', NEW q \in Standing', rows'[r].content = rows'[q].content
               PROVE  r = q
    BY DEF Distinct
  <2>1. \A p \in Committed : rows'[p].content = rows[p].content /\ rows'[p].content # rows'[n].content
    BY <1>3, <1>4, <1>11, <1>12
  <2>2. CASE r \in Committed /\ q \in Committed
    BY <1>12, <2>1, <2>2 DEF Distinct
  <2> QED BY <1>10, <2>1, <2>2
<1> QED BY <1>7, <1>8, <1>13

LEMMA NextContent ==
  PublisherInv /\ NonceInv /\ TrackInv /\ ContentInv /\ [Next]_vars => ContentInv'
<1> SUFFICES ASSUME PublisherInv, NonceInv, TrackInv, ContentInv, [Next]_vars PROVE ContentInv'
  OBVIOUS
<1>1. CASE UNCHANGED vars
  BY <1>1 DEF vars, ContentInv, Published, Ordered, LoopAlone, Seen, Distinct, Standing, Committed
<1>2. CASE Next
  <2>1. PublisherInv'
    BY NextPublisherInv
  <2>2. (\A i \in DOMAIN registry : Published(i))' /\ Ordered'
    BY <1>2, NextPublished, NextOrdered DEF ContentInv
  <2> SUFFICES ASSUME LoopAlone' PROVE Resuming(worker["loop"], rows)' /\ Distinct'
    BY <2>2 DEF ContentInv
  <2>3. Seen("posts") = 0 /\ Seen("stale") = 0 /\ Seen("posts")' = 0 /\ Seen("stale")' = 0
    BY <1>2, TroubleStays DEF PublisherInv, LoopAlone, Seen, Disturbance
  <2>4. Resuming(worker["loop"], rows) /\ Distinct /\ Ordered /\ worker["api"] = Idle
    BY <2>3 DEF ContentInv, LoopAlone, NonceInv
  <2>5. trouble \in [Disturbance -> Nat]
    BY DEF PublisherInv, TypeOK
  <2>6. ASSUME Step("api") PROVE FALSE
    BY <2>3, <2>4, <2>6, ApiRests
  <2>7. CASE Step("loop") /\ MarkSubmitted("loop")
    BY <1>2, <2>4, <2>7, MarkContent
  <2>8. CASE Step("loop") /\ ~MarkSubmitted("loop") /\ rows' = Append(rows, NewRow)
    <3>1. DOMAIN rows' # DOMAIN rows
      <4>1. rows \in Seq(Row) /\ NewRow \in Row
        BY TableFacts DEF NewRow, Row, RowStatus
      <4> QED BY <2>8, <4>1, Appended
    <3>2. Builds(FALSE) /\ worker' = [worker EXCEPT !["loop"] = Publishing]
      BY <2>3, <2>8, <3>1, StepRows DEF Workers
    <3> QED BY <1>2, <2>4, <2>8, <3>2, BuildContent
  <2>9. CASE Step("loop") /\ ~MarkSubmitted("loop") /\ rows' # Append(rows, NewRow)
    BY <1>2, <2>1, <2>3, <2>4, <2>9, LoopContent
  <2>10. CASE Chain \/ IndexGrows
    <3>1. UNCHANGED <<rows, worker>>
      BY <2>10 DEF Chain, MineTx, DropTx, CloseWindow, Dispute, FinalizeByOther, Judge, ClaimByOther, IndexGrows
    <3>2. Standing' = Standing
      BY <3>1 DEF Standing, Committed
    <3> QED BY <1>2, <2>4, <3>1, <3>2, DistinctKept
  <2>11. CASE Crash
    <3>1. UNCHANGED rows /\ worker'["loop"] = Idle
      BY <2>11 DEF Crash, Workers
    <3>2. Resuming(Idle, rows') /\ ~Building(Idle)
      BY DEF Resuming, Building, Idle
    <3>3. Standing' \subseteq Standing
      BY <3>1, <3>2 DEF Standing, Committed
    <3> QED BY <1>2, <2>4, <3>1, <3>2, <3>3, DistinctKept
  <2>12. ASSUME NEW r \in DOMAIN rows, Age(r) PROVE FALSE
    BY <2>3, <2>5, <2>12 DEF Age, Disturb, Seen, Disturbance
  <2> QED BY <1>2, <2>6, <2>7, <2>8, <2>9, <2>10, <2>11, <2>12 DEF Next, Workers
<1> QED BY <1>1, <1>2

LEMMA InitContent == Init => ContentInv
<1> SUFFICES ASSUME Init PROVE ContentInv
  OBVIOUS
<1>1. rows = << >> /\ registry = << >> /\ worker["loop"] = Idle
  BY DEF Init, Workers
<1>2. Standing = {}
  BY <1>1 DEF Standing, Committed, Building, Idle
<1>3. Resuming(Idle, rows)
  BY DEF Resuming, Idle
<1> QED BY <1>1, <1>2, <1>3 DEF ContentInv, Ordered, Distinct

\* What stands for a bond that was posted: the row that records it, or the one in hand.
StandsFor(r, t) ==
  /\ r \in Standing /\ rows[r].content = txs[t].arg
  /\ \/ rows[r].ref = t
     \/ /\ worker["loop"].pc = "mark" /\ worker["loop"].ref = t
        /\ worker["loop"].row = r /\ rows[r].ref = 0

LEMMA BondStands ==
  ASSUME PublisherInv, NonceInv, TrackInv, Seen("posts") = 0, Seen("crashes") = 0, Seen("stale") = 0,
         NEW t \in DOMAIN txs, txs[t].call = "publish", txs[t].state = "ok",
         registry[txs[t].result].status # "Rejected"
  PROVE  \E r \in DOMAIN rows : StandsFor(r, t)
<1>1. Tracked(t) /\ t # 0
  BY TableFacts DEF TrackInv
<1>2. ASSUME NEW r \in DOMAIN rows, rows[r].ref = t PROVE StandsFor(r, t)
  <2>1. rows[r] \in Row /\ RowOK(rows[r], txs, registry, content) /\ FailedRightly(rows[r], txs)
    BY TableFacts DEF PublisherInv, RowsOK, TrackInv
  <2>2. rows[r].status # "built" /\ rows[r].status # "failed" /\ rows[r].content = txs[t].arg
    BY <1>1, <1>2, <2>1 DEF RowOK, FailedRightly
  <2>3. rows[r].status # "rejected"
    BY <1>2, <2>1 DEF RowOK
  <2>4. r \in Committed
    BY <2>1, <2>2, <2>3 DEF Committed, Row, RowStatus
  <2> QED BY <1>2, <2>2, <2>4 DEF StandsFor, Standing
<1>3. ASSUME NEW w \in Workers, worker[w].pc = "mark", worker[w].ref = t
      PROVE  \E r \in DOMAIN rows : StandsFor(r, t)
  <2>1. w = "loop"
    BY <1>3 DEF NonceInv, Idle, Workers
  <2>2. PICK st : st = worker["loop"]
    OBVIOUS
  <2>3. /\ st.pc = "mark" /\ st.ref = t /\ st.stage = "build" /\ st.call = "publish"
        /\ st.row \in DOMAIN rows /\ txs[t].arg = rows[st.row].content
    BY <1>3, <2>1, <2>2, WorkerFacts DEF Placed, InHand, Awaits
  <2>4. Building(st) /\ rows[st.row].ref = 0
    BY <1>3, <2>1, <2>2, <2>3, WorkerFacts DEF InHand, Building, Unsent
  <2> QED BY <2>2, <2>3, <2>4 DEF StandsFor, Standing
<1> QED BY <1>1, <1>2, <1>3 DEF Tracked

LEMMA EachBondNew ==
  ASSUME PublisherInv, NonceInv, TrackInv, ContentInv
  PROVE  OneBondPerContent
<1> SUFFICES ASSUME Seen("posts") = 0, Seen("crashes") = 0, Seen("stale") = 0,
                    NEW i \in DOMAIN registry, NEW j \in DOMAIN registry, i # j,
                    registry[i].content = registry[j].content,
                    registry[i].status # "Rejected", registry[j].status # "Rejected"
             PROVE  FALSE
  BY DEF OneBondPerContent
<1>1. PICK t \in DOMAIN txs : txs[t].call = "publish" /\ txs[t].state = "ok" /\ txs[t].result = i
  BY DEF ContentInv, Published
<1>2. PICK u \in DOMAIN txs : txs[u].call = "publish" /\ txs[u].state = "ok" /\ txs[u].result = j
  BY DEF ContentInv, Published
<1>3. t # u /\ t # 0 /\ u # 0 /\ txs[t].arg = txs[u].arg
  <2>1. registry[i].content = txs[t].arg /\ registry[j].content = txs[u].arg
    BY <1>1, <1>2 DEF PublisherInv, TxsOK, TxOK
  <2> QED BY <1>1, <1>2, <2>1, TableFacts
<1>4. PICK r \in DOMAIN rows : StandsFor(r, t)
  BY <1>1, BondStands
<1>5. PICK q \in DOMAIN rows : StandsFor(q, u)
  BY <1>2, BondStands
<1>6. Distinct
  BY DEF ContentInv, LoopAlone
<1>7. r = q
  BY <1>3, <1>4, <1>5, <1>6 DEF StandsFor, Distinct
<1> QED BY <1>3, <1>4, <1>5, <1>7 DEF StandsFor

LEMMA EachBondTracked ==
  ASSUME PublisherInv, TrackInv
  PROVE  EveryBondTracked
<1> SUFFICES ASSUME Seen("crashes") = 0, Seen("stale") = 0, NEW t \in DOMAIN txs,
                    txs[t].call = "publish", txs[t].state = "ok"
             PROVE  \/ \E r \in DOMAIN rows : rows[r].ref = t /\ rows[r].status # "failed"
                    \/ \E w \in Workers : worker[w].pc = "mark" /\ worker[w].ref = t
  BY DEF EveryBondTracked
<1>1. Tracked(t)
  BY DEF TrackInv
<1>2. \A r \in DOMAIN rows : rows[r].ref = t => rows[r].status # "failed"
  BY DEF TrackInv, FailedRightly
<1> QED BY <1>1, <1>2 DEF Tracked

\* Every bond this account posts is followed by the row that will settle it, and no two that
\* stand say the same thing, through failed calls, dropped transactions, disputes and waits
\* given up: what is submitted counts as committed until a receipt says otherwise, and the
\* loop builds only when nothing it has sent is unresolved or unrecorded (LatestCommittedRoots,
\* ResumePending, buildTick).
THEOREM BondsAlwaysAccounted == Spec => []BondsAccounted
<1> DEFINE Inv == PublisherInv /\ NonceInv /\ TrackInv /\ ContentInv
<1>1. Inv => BondsAccounted
  BY EachBondNew, EachBondTracked DEF BondsAccounted
<1>2. Init => Inv
  BY InitPublisherInv, InitNonces, InitTracks, InitContent
<1>3. Inv /\ [Next]_vars => Inv'
  BY NextPublisherInv, NextNonces, NextTracks, NextContent
<1> HIDE DEF Inv
<1> QED BY <1>1, <1>2, <1>3, PTL DEF Spec
=============================================================================
