----------------------------- MODULE UserState ------------------------------
(***************************************************************************)
(* What a reader signs and this deployment keeps: whole-account states     *)
(* (internal/userstate, internal/store/userstate.go) and, over the same    *)
(* tables, the older signed verdicts and asset lists and the unsigned      *)
(* votes (internal/store/demand.go, assetcommits.go, their handlers in     *)
(* internal/api).                                                          *)
(*                                                                         *)
(* Hashes are the values they commit to: a state's id is the state, a      *)
(* digest is the list.  Owners sign what they like and a signed message    *)
(* may arrive at any time and any number of times, so an action takes any  *)
(* message its signer could have produced.  A transaction is one step: the *)
(* account's advisory lock orders those that take it, and a plain vote is  *)
(* one transaction as well.                                                *)
(***************************************************************************)
EXTENDS Integers, FiniteSets, FiniteSetsExt

CONSTANTS
  Accounts, Chains, Tokens,
  Devices, OwnerOf,     \* the pages that review and sign states, and for whom
  Contents,             \* the verdicts and asset lists that get signed, as pairs
  Deadlines, MaxUnix,   \* signed deadlines; the largest that fits an int64
  MaxVerdicts, MaxAssets,  \* verdicts a state may have per chain, and assets (200 each)
  MaxEntries,              \* and entries of both kinds together (2000)
  None,
  MaxRevision, MaxGeneration, Scenarios  \* bounds

Verdict == [chain : Chains, token : Tokens, weight : {-1, 1}]
Asset   == [chain : Chains, token : Tokens]

Disturbance ==
  {"time",      \* seconds that pass
   "states",    \* states a page may post
   "legacy",    \* verdicts and asset lists signed the old way
   "votes",     \* unsigned votes
   "imports",   \* histories restored from another deployment
   "ticks",     \* checkpoints built by the state publisher
   "aborts",    \* its ticks that failed or died
   "dropped",   \* its transactions evicted from the node's pool
   "reverts",   \* its transactions that revert
   "reorgs", "deep",   \* reorgs within the confirmation depth, and deeper ones
   "foreign"}   \* transactions sent with its key by someone else

ASSUME UserStateAssumption ==
  /\ OwnerOf \in [Devices -> Accounts]
  /\ Contents \subseteq (SUBSET Verdict) \X (SUBSET Asset)
  /\ Deadlines \subseteq Nat /\ MaxUnix \in Nat
  /\ MaxVerdicts \in Nat /\ MaxAssets \in Nat /\ MaxEntries \in Nat
  /\ MaxRevision \in Nat /\ MaxGeneration \in Nat
  /\ Scenarios \subseteq [Disturbance -> Nat]

VARIABLES
  now,
  heads,       \* user_state_heads by account, generation 0 without a row
  revisions,   \* user_state_revisions: every state kept, by id
  demand,      \* asset_demand; plain marks a row that only a vote put there
  floors,      \* account_verdicts: the last deadline by chain and account, -1 if none
  commits,     \* account_asset_commits with its items; deadline -1 if none
  checkpoints, \* user_state_checkpoints: the roots whose manifest is stored
  view,        \* what each page has read for review
  spent,       \* history: deadlines of the old-style signatures applied
  replayed,    \* history: those applied again
  trouble

stateVars == <<now, heads, revisions, demand, floors, commits, checkpoints, view, spent, replayed>>
tableVars == <<heads, revisions, demand, floors, commits, checkpoints>>

Seen(kind) == trouble.seen[kind]

Disturb(kind) ==
  /\ Seen(kind) < trouble.allowed[kind]
  /\ trouble' = [trouble EXCEPT !.seen[kind] = @ + 1]

-----------------------------------------------------------------------------
(* States.                                                                 *)

State(a, n, prev, dl, vs, as) ==
  [account |-> a, revision |-> n, previous |-> prev, deadline |-> dl, verdicts |-> vs, assets |-> as]

\* Build: the caps on all entries, on each chain's verdicts and on the assets, and one entry
\* per key.
Build(s) ==
  /\ Cardinality(s.verdicts) + Cardinality(s.assets) <= MaxEntries
  /\ \A c \in Chains : Cardinality({v \in s.verdicts : v.chain = c}) <= MaxVerdicts
  /\ Cardinality(s.assets) <= MaxAssets
  /\ \A v, w \in s.verdicts : v.chain = w.chain /\ v.token = w.token => v = w

\* Validate authenticates a state whenever it was made: its deadline is not read here.
Validate(s, signer) ==
  /\ s.revision > 0
  /\ (s.revision = 1) = (s.previous = None)
  /\ Build(s)
  /\ signer = s.account

Successor(old, s) ==
  /\ s.account = old.account
  /\ s.previous = old
  /\ s.revision = old.revision + 1

\* No row: the store's reads then find generation 0.
NoHead == [id |-> None, generation |-> 0, legacy |-> FALSE]

HasHead(a) == heads[a].generation > 0

SignedOn(a, n, prev) == {State(a, n, prev, dl, x[1], x[2]) : dl \in Deadlines, x \in Contents}

\* A page signs on top of any state it may have seen.
Signable(a) ==
  LET past == {s \in revisions : s.account = a /\ s.revision < MaxRevision}
  IN  SignedOn(a, 1, None) \cup UNION {SignedOn(a, s.revision + 1, s) : s \in past}

AllSignable == UNION {Signable(a) : a \in Accounts}

Rows(s) == {[chain |-> v.chain, token |-> v.token, weight |-> v.weight,
             account |-> s.account, plain |-> FALSE] : v \in s.verdicts}

RowsOf(a)   == {r \in demand : r.account = a}
SignedRows(a) == {r \in RowsOf(a) : ~r.plain}

-----------------------------------------------------------------------------
(* GET /v1/accounts/{address}/state: head, projection, head again.         *)

View(pc, generation, rows, items) ==
  [pc |-> pc, generation |-> generation, rows |-> rows, items |-> items]

NoView == View("none", 0, {}, {})

\* Only pages that may still post are followed.
ReadHead(d) ==
  /\ view[d].pc = "none"
  /\ Seen("states") < trouble.allowed["states"]
  /\ HasHead(OwnerOf[d])
  /\ view' = [view EXCEPT ![d] = View("verdicts", heads[OwnerOf[d]].generation, {}, {})]
  /\ UNCHANGED <<now, tableVars, spent, replayed, trouble>>

\* StateProjection walks the chains anybody has signed a verdict for ...
ReadVerdicts(d) ==
  LET known == {c \in Chains : \E a \in Accounts : floors[<<c, a>>] # -1}
  IN  /\ view[d].pc = "verdicts"
      /\ view' = [view EXCEPT ![d] = View("assets", @.generation,
                                          {r \in RowsOf(OwnerOf[d]) : r.chain \in known}, @.items)]
      /\ UNCHANGED <<now, tableVars, spent, replayed, trouble>>

\* ... and then the asset list.
ReadAssets(d) ==
  /\ view[d].pc = "assets"
  /\ view' = [view EXCEPT ![d] = View("recheck", @.generation, @.rows, commits[OwnerOf[d]].items)]
  /\ UNCHANGED <<now, tableVars, spent, replayed, trouble>>

\* The answer stands when the generation has not moved meanwhile, else it is a conflict.
Recheck(d) ==
  /\ view[d].pc = "recheck"
  /\ view' = [view EXCEPT ![d] = IF heads[OwnerOf[d]].generation = @.generation
                                   THEN View("ready", @.generation, @.rows, @.items) ELSE NoView]
  /\ UNCHANGED <<now, tableVars, spent, replayed, trouble>>

-----------------------------------------------------------------------------
(* POST /v1/accounts/{address}/state.                                      *)

\* The chains whose rows a state replaces: those it names, and those its account has
\* signed a verdict for.
Replaced(s) ==
  {c \in Chains : floors[<<c, s.account>>] # -1 \/ \E v \in s.verdicts : v.chain = c}

\* The state projected onto the tables of the older endpoints, whose replay floors it
\* only raises.
Project(s) ==
  LET a == s.account
      gone == {r \in RowsOf(a) : r.chain \in Replaced(s)}
  IN  /\ demand' = (demand \ gone) \cup Rows(s)
      /\ floors' = [p \in DOMAIN floors |->
                      IF p[2] = a /\ p[1] \in Replaced(s) THEN Max({floors[p], s.deadline})
                                                          ELSE floors[p]]
      /\ commits' = [commits EXCEPT ![a] = [items |-> s.assets,
                                            deadline |-> Max({@.deadline, s.deadline})]]

\* The guards of PutUserState after the lock, in its order.
Admissible(s, generation) ==
  LET a == s.account
  IN  /\ s.deadline <= MaxUnix
      /\ heads[a].generation = generation
      /\ s.deadline > now
      /\ \/ HasHead(a) /\ Successor(heads[a].id, s)
         \/ ~HasHead(a) /\ (s.revision = 1 \/ (s.previous \in revisions /\ Successor(s.previous, s)))

\* saveState keeps what is there: ids are immutable.
SaveStates(ss) == revisions' = revisions \cup ss

\* A page posts a state with the generation it reviewed.  Posting the head again is
\* answered like the first time and changes nothing.
PutUserState(d, s) ==
  LET a == OwnerOf[d]
  IN  /\ view[d].pc \in {"none", "ready"}
      /\ s.account = a
      /\ Validate(s, a)
      /\ Admissible(s, view[d].generation)
      /\ (HasHead(a) => heads[a].generation < MaxGeneration)
      /\ SaveStates({s})
      /\ Project(s)
      /\ heads' = [heads EXCEPT ![a] = [id |-> s, generation |-> view[d].generation + 1, legacy |-> FALSE]]
      /\ view' = [view EXCEPT ![d] = NoView]
      /\ Disturb("states")
      /\ UNCHANGED <<now, checkpoints, spent, replayed>>

\* A checkpoint export names one validated state per account.
ValidCheckpoint(ss) ==
  /\ \A s \in ss : Validate(s, s.account)
  /\ \A s, r \in ss : s.account = r.account => s = r

\* A checkpoint's root is the table it commits to.
RootOf(ss) == [a \in {s.account : s \in ss} |-> CHOOSE s \in ss : s.account = a]

\* ImportState and ImportCheckpoint restore history, never a head; the second stores the
\* manifest too, unless its root is there.
ImportState(s) == Validate(s, s.account) /\ SaveStates({s}) /\ UNCHANGED checkpoints
ImportCheckpoint(ss) ==
  /\ ValidCheckpoint(ss)
  /\ SaveStates(ss)
  /\ checkpoints' = checkpoints \cup {RootOf(ss)}

\* cmd/evmscan-state -import, with a file somebody exported.
RestoreHistory(ss) ==
  /\ ImportCheckpoint(ss) \/ \E s \in ss : ImportState(s)
  /\ Disturb("imports")
  /\ UNCHANGED <<now, heads, demand, floors, commits, view, spent, replayed>>

\* Aggregate over the accounts that have a head; its manifest is stored once.
CurrentRoot == [a \in {x \in Accounts : HasHead(x)} |-> heads[a].id]
BuildStateCheckpoint == checkpoints' = checkpoints \cup {CurrentRoot}

\* POST /v1/state/checkpoints: anyone may ask for one.
PostCheckpoint ==
  /\ Seen("imports") < trouble.allowed["imports"]
  /\ BuildStateCheckpoint
  /\ UNCHANGED <<now, heads, revisions, demand, floors, commits, view, spent, replayed, trouble>>

-----------------------------------------------------------------------------
(* The older endpoints.                                                    *)

\* Faulty variant of MarkLegacy: the head is marked, its generation kept.
MarkWithoutGeneration(a) ==
  IF HasHead(a) THEN heads' = [heads EXCEPT ![a].legacy = TRUE] ELSE UNCHANGED heads

\* Faulty variant of MarkLegacy: the generation moves, the head is not marked.
MarkGenerationOnly(a) ==
  IF HasHead(a)
  THEN heads' = [heads EXCEPT ![a].generation = @ + 1]
  ELSE UNCHANGED heads

\* Every accepted old-style write makes pages review again.
MarkLegacy(a) ==
  IF HasHead(a)
  THEN heads' = [heads EXCEPT ![a] = [id |-> @.id, generation |-> @.generation + 1, legacy |-> TRUE]]
  ELSE UNCHANGED heads

Spend(m) ==
  /\ spent' = spent \cup {m}
  /\ replayed' = replayed \cup (spent \cap {m})

\* POST /v1/verdicts: a bounded split naming each contract once, signed by the account and
\* not expired.
VerdictRequest(a, signer, dl, split) ==
  /\ Cardinality(split) <= MaxVerdicts
  /\ \A v, w \in split : v.token = w.token => v = w
  /\ dl > now
  /\ signer = a

\* The split replaces the voter's rows of one chain when its deadline is later than the
\* stored one; a refusal rolls the mark back.
ReplaceVerdicts(a, c, signer, dl, split) ==
  /\ VerdictRequest(a, signer, dl, split)
  /\ dl > floors[<<c, a>>]
  /\ (HasHead(a) => heads[a].generation < MaxGeneration)
  /\ MarkLegacy(a)
  /\ floors' = [floors EXCEPT ![<<c, a>>] = dl]
  /\ demand' = {r \in demand : r.account # a \/ r.chain # c}
               \cup {[chain |-> c, token |-> v.token, weight |-> v.weight,
                      account |-> a, plain |-> FALSE] : v \in split}
  /\ Spend(<<"verdict", a, c, dl>>)
  /\ Disturb("legacy")
  /\ UNCHANGED <<now, revisions, commits, checkpoints, view>>

\* POST /v1/accounts/{address}/assets: the same checks; this deadline is stored as an int64.
AssetsRequest(a, signer, dl, items) ==
  /\ Cardinality(items) <= MaxAssets
  /\ dl > now /\ dl <= MaxUnix
  /\ signer = a

PutAssetCommit(a, signer, dl, items) ==
  /\ AssetsRequest(a, signer, dl, items)
  /\ dl > commits[a].deadline
  /\ (HasHead(a) => heads[a].generation < MaxGeneration)
  /\ MarkLegacy(a)
  /\ commits' = [commits EXCEPT ![a] = [items |-> items, deadline |-> dl]]
  /\ Spend(<<"assets", a, None, dl>>)
  /\ Disturb("legacy")
  /\ UNCHANGED <<now, revisions, demand, floors, checkpoints, view>>

\* POST /v1/demand: anyone may name an account, and at least one contract.
DemandRequest(ts) == ts # {} /\ Cardinality(ts) <= MaxVerdicts

\* RecordDemand takes neither the account's lock nor its mark.  A row that is there keeps
\* its weight.
RecordDemand(a, c, ts) ==
  LET there == {r.token : r \in {x \in RowsOf(a) : x.chain = c}}
  IN  /\ DemandRequest(ts)
      /\ demand' = demand \cup {[chain |-> c, token |-> t, weight |-> 1, account |-> a,
                                 plain |-> TRUE] : t \in ts \ there}
      /\ Disturb("votes")
      /\ UNCHANGED <<now, heads, revisions, floors, commits, checkpoints, view, spent, replayed>>

Tick ==
  /\ now' = now + 1
  /\ Disturb("time")
  /\ UNCHANGED <<tableVars, view, spent, replayed>>

-----------------------------------------------------------------------------
StateInit ==
  /\ now = 0
  /\ heads = [a \in Accounts |-> NoHead]
  /\ revisions = {}
  /\ demand = {}
  /\ floors = [p \in Chains \X Accounts |-> -1]
  /\ commits = [a \in Accounts |-> [items |-> {}, deadline |-> -1]]
  /\ checkpoints = {}
  /\ view = [d \in Devices |-> NoView]
  /\ spent = {} /\ replayed = {}
  /\ trouble \in {[allowed |-> s, seen |-> [k \in Disturbance |-> 0]] : s \in Scenarios}

StateNext ==
  \/ \E d \in Devices : \/ ReadHead(d) \/ ReadVerdicts(d) \/ ReadAssets(d) \/ Recheck(d)
                        \/ \E s \in Signable(OwnerOf[d]) : PutUserState(d, s)
  \/ /\ Seen("imports") < trouble.allowed["imports"]
     /\ \E s, r \in AllSignable : RestoreHistory({s, r})
  \/ \E a, signer \in Accounts, c \in Chains, dl \in Deadlines, split \in {x[1] : x \in Contents} :
       (\A v \in split : v.chain = c) /\ ReplaceVerdicts(a, c, signer, dl, split)
  \/ \E a, signer \in Accounts, dl \in Deadlines, items \in {x[2] : x \in Contents} :
       PutAssetCommit(a, signer, dl, items)
  \/ \E a \in Accounts, c \in Chains, ts \in SUBSET Tokens : RecordDemand(a, c, ts)
  \/ PostCheckpoint
  \/ Tick

-----------------------------------------------------------------------------
(* Properties.                                                             *)

\* While an account's state is not marked as overtaken by an older write, the rows and the
\* list every other part reads are the ones it signed, plus unsigned votes: the mark of
\* ReplaceVerdicts and PutAssetCommit and the projection of PutUserState leave no gap.
ProjectionIsSigned ==
  \A a \in Accounts :
    HasHead(a) /\ ~heads[a].legacy =>
      /\ SignedRows(a) = Rows(heads[a].id)
      /\ commits[a].items = heads[a].id.assets

\* An old-style signature takes effect once: no order of states, verdicts and lists makes
\* the stored deadline fall back below one that was accepted.
LegacySignatureOnce == replayed = {}

\* The two ways to write an account's choices, signed states and older signatures, do not
\* undo each other: the projection is what was signed, and nothing is replayed into it.
OneSourceOfChoices == ProjectionIsSigned /\ LegacySignatureOnce

\* A state replaces only what its page reviewed: every signed row and the list that
\* PutUserState replaces under an existing head are in the projection getUserState gave out,
\* although that was read by four statements between which others wrote.
ReviewedBeforeReplaced ==
  [][\A d \in Devices :
       LET a == OwnerOf[d]
       IN  HasHead(a) /\ heads'[a].id # heads[a].id /\ view'[d] # view[d] =>
             SignedRows(a) \subseteq view[d].rows /\ commits[a].items = view[d].items]_stateVars
=============================================================================
