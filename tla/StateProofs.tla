---------------------------- MODULE StateProofs ----------------------------
(***************************************************************************)
(* Theorems about UserState and StatePublisher, for every set of accounts, *)
(* chains, pages and daemons, every confirmation depth and any number of   *)
(* disturbances.                                                           *)
(***************************************************************************)
EXTENDS StatePublisher, FiniteSetTheorems, SequenceTheorems, WellFoundedInduction, TLAPS

-----------------------------------------------------------------------------
(* What the tables hold.                                                   *)

Row == [chain : Chains, token : Tokens, weight : {-1, 1}, account : Accounts, plain : BOOLEAN]
Commit == [items : SUBSET Asset, deadline : Int]

\* What a page can sign for an account.
Written(s, a) ==
  /\ s.account = a
  /\ s.verdicts \in SUBSET Verdict
  /\ s.assets \in SUBSET Asset
  /\ s.deadline \in Nat

HeadOf(a, h) ==
  /\ h = [id |-> h.id, generation |-> h.generation, legacy |-> h.legacy]
  /\ h.generation \in Nat
  /\ h.legacy \in BOOLEAN
  /\ h.generation > 0 => Written(h.id, a)

HeadsType ==
  /\ heads = [a \in Accounts |-> heads[a]]
  /\ \A a \in Accounts : HeadOf(a, heads[a])

TablesType ==
  /\ HeadsType
  /\ demand \subseteq Row
  /\ floors \in [Chains \X Accounts -> Int]
  /\ \A p \in Chains \X Accounts : floors[p] >= -1
  /\ commits \in [Accounts -> Commit]

\* A signed row has a deadline on record for its chain, so a state replaces it.
SignedHasFloor == \A r \in demand : ~r.plain => floors[<<r.chain, r.account>>] # -1

\* No signature that was applied is later than the deadline on record.
SpentBelowFloor ==
  /\ \A a \in Accounts, c \in Chains, dl \in Deadlines :
       <<"verdict", a, c, dl>> \in spent => dl <= floors[<<c, a>>]
  /\ \A a \in Accounts, dl \in Deadlines :
       <<"assets", a, None, dl>> \in spent => dl <= commits[a].deadline

ChoicesInv ==
  /\ TablesType
  /\ SignedHasFloor
  /\ SpentBelowFloor
  /\ OneSourceOfChoices

-----------------------------------------------------------------------------
\* The larger of two numbers.
Largest(a, b) == Max({a, b})

LEMMA LargestOfTwo ==
  ASSUME NEW a \in Int, NEW b \in Int
  PROVE  /\ Largest(a, b) \in Int /\ Largest(a, b) >= a /\ Largest(a, b) >= b
<1>1. \E x \in {a, b} : \A y \in {a, b} : x >= y
  OBVIOUS
<1> QED BY <1>1 DEF Largest, Max

\* Signable's states are for the account and hold what Contents may.
LEMMA SignableWritten ==
  ASSUME NEW a \in Accounts, NEW s \in Signable(a)
  PROVE  Written(s, a)
<1>1. PICK n, prev : s \in SignedOn(a, n, prev)
  <2>1. CASE s \in SignedOn(a, 1, None)
    BY <2>1
  <2>2. CASE \E r \in revisions : s \in SignedOn(a, r.revision + 1, r)
    BY <2>2
  <2> QED BY <2>1, <2>2 DEF Signable
<1>4. PICK dl \in Deadlines, x \in Contents : s = State(a, n, prev, dl, x[1], x[2])
  BY <1>1 DEF SignedOn
<1>2. /\ s.account = a /\ s.deadline = dl /\ s.verdicts = x[1] /\ s.assets = x[2]
  BY <1>4 DEF State
<1>3. x[1] \in SUBSET Verdict /\ x[2] \in SUBSET Asset /\ dl \in Nat
  BY UserStateAssumption
<1> QED BY <1>2, <1>3 DEF Written

\* The rows of a written state are signed rows of its account.
LEMMA RowsTyped ==
  ASSUME NEW a \in Accounts, NEW s, Written(s, a)
  PROVE  /\ Rows(s) \subseteq Row
         /\ \A r \in Rows(s) : r.account = a /\ ~r.plain /\ \E v \in s.verdicts : v.chain = r.chain
<1>1. s.account = a /\ s.verdicts \in SUBSET Verdict
  BY DEF Written
<1> SUFFICES ASSUME NEW r \in Rows(s)
             PROVE  r \in Row /\ r.account = a /\ ~r.plain /\ \E v \in s.verdicts : v.chain = r.chain
  OBVIOUS
<1>2. PICK v \in s.verdicts : r = [chain |-> v.chain, token |-> v.token, weight |-> v.weight,
                                   account |-> a, plain |-> FALSE]
  BY <1>1 DEF Rows
<1>3. v.chain \in Chains /\ v.token \in Tokens /\ v.weight \in {-1, 1}
  BY <1>1 DEF Verdict
<1> QED BY <1>2, <1>3 DEF Row

\* One account's head is written.
LEMMA HeadReplaced ==
  ASSUME HeadsType, NEW a \in Accounts, NEW h, HeadOf(a, h), heads' = [heads EXCEPT ![a] = h]
  PROVE  HeadsType' /\ heads'[a] = h /\ \A b \in Accounts \ {a} : heads'[b] = heads[b]
<1>1. heads' = [b \in Accounts |-> IF b = a THEN h ELSE heads[b]]
  BY DEF HeadsType
<1>2. heads' = [b \in Accounts |-> heads'[b]]
  BY <1>1
<1>3. \A b \in Accounts : HeadOf(b, heads'[b])
  BY <1>1 DEF HeadsType
<1> QED BY <1>1, <1>2, <1>3 DEF HeadsType

-----------------------------------------------------------------------------
(* The ways to write an account's choices.                                 *)

\* What PutUserState leaves of the tables.
LEMMA ProjectStep ==
  ASSUME ChoicesInv, NEW a \in Accounts, NEW s, Written(s, a), NEW g \in Nat,
         Project(s),
         heads' = [heads EXCEPT ![a] = [id |-> s, generation |-> g + 1, legacy |-> FALSE]],
         UNCHANGED <<spent, replayed>>
  PROVE  ChoicesInv'
<1>1. s.account = a /\ s.deadline \in Nat /\ s.assets \in SUBSET Asset
  BY DEF Written
<1>2. \A p \in Chains \X Accounts :
        Largest(floors[p], s.deadline) \in Int /\ Largest(floors[p], s.deadline) >= floors[p]
        /\ Largest(floors[p], s.deadline) >= 0
  <2> TAKE p \in Chains \X Accounts
  <2>1. floors[p] \in Int
    BY DEF ChoicesInv, TablesType
  <2>3. s.deadline \in Int
    BY <1>1
  <2>2. /\ Largest(floors[p], s.deadline) \in Int /\ Largest(floors[p], s.deadline) >= floors[p]
        /\ Largest(floors[p], s.deadline) >= s.deadline
    BY ONLY <2>1, <2>3, LargestOfTwo
  <2> QED BY <1>1, <2>2
<1>3. /\ floors' = [p \in Chains \X Accounts |->
                      IF p[2] = a /\ p[1] \in Replaced(s) THEN Largest(floors[p], s.deadline) ELSE floors[p]]
      /\ floors' \in [Chains \X Accounts -> Int]
  <2>1. floors' = [p \in Chains \X Accounts |->
                      IF p[2] = a /\ p[1] \in Replaced(s) THEN Largest(floors[p], s.deadline) ELSE floors[p]]
    BY <1>1 DEF Project, Largest, ChoicesInv, TablesType
  <2> QED BY <1>2, <2>1 DEF ChoicesInv, TablesType
<1>4. \A p \in Chains \X Accounts : floors'[p] >= floors[p] /\ floors'[p] >= -1
  BY <1>2, <1>3 DEF ChoicesInv, TablesType
<1>5. PICK dl : dl = Largest(commits[a].deadline, s.deadline)
  OBVIOUS
<1>6. dl \in Int /\ dl >= commits[a].deadline
  <2>1. commits[a].deadline \in Int
    BY DEF ChoicesInv, TablesType, Commit
  <2>2. s.deadline \in Int
    BY <1>1
  <2> QED BY ONLY <1>5, <2>1, <2>2, LargestOfTwo
<1>7. commits' = [commits EXCEPT ![a] = [items |-> s.assets, deadline |-> dl]]
  BY <1>1, <1>5 DEF Project, Largest
<1>8. commits' \in [Accounts -> Commit]
  BY <1>1, <1>6, <1>7 DEF ChoicesInv, TablesType, Commit
<1>9. PICK gone : gone = {r \in RowsOf(a) : r.chain \in Replaced(s)}
  OBVIOUS
<1>10. demand' = (demand \ gone) \cup Rows(s)
  BY <1>1, <1>9 DEF Project
<1>11. HeadsType'
  <2>1. PICK h : h = [id |-> s, generation |-> g + 1, legacy |-> FALSE]
    OBVIOUS
  <2>2. HeadOf(a, h)
    BY <2>1 DEF HeadOf
  <2> QED BY <2>1, <2>2, HeadReplaced DEF ChoicesInv, TablesType
<1>12. TablesType'
  <2>1. Rows(s) \subseteq Row
    BY RowsTyped
  <2>2. demand' \subseteq Row
    BY <1>10, <2>1 DEF ChoicesInv, TablesType
  <2> QED BY <1>3, <1>4, <1>8, <1>11, <2>2 DEF TablesType
<1>13. SignedHasFloor'
  <2> SUFFICES ASSUME NEW r \in demand', ~r.plain PROVE floors'[<<r.chain, r.account>>] # -1
    BY DEF SignedHasFloor
  <2>1. r \in Row
    BY <1>12 DEF TablesType
  <2>2. <<r.chain, r.account>> \in Chains \X Accounts
    BY <2>1 DEF Row
  <2>3. CASE r \in demand
    BY <1>4, <2>2, <2>3 DEF ChoicesInv, SignedHasFloor, TablesType
  <2>4. CASE r \in Rows(s)
    <3>1. r.account = a /\ r.chain \in Replaced(s)
      BY <1>1, <2>2, <2>4, RowsTyped DEF Replaced
    <3>2. floors'[<<r.chain, r.account>>] = Largest(floors[<<r.chain, r.account>>], s.deadline)
      BY <1>3, <2>2, <3>1
    <3> QED BY <1>2, <2>2, <3>2
  <2> QED BY <1>10, <2>3, <2>4
<1>14. SpentBelowFloor'
  <2>1. ASSUME NEW b \in Accounts, NEW c \in Chains, NEW d \in Deadlines, <<"verdict", b, c, d>> \in spent
        PROVE  d <= floors'[<<c, b>>]
    <3>1. d <= floors[<<c, b>>] /\ floors[<<c, b>>] \in Int /\ floors'[<<c, b>>] \in Int /\ d \in Int
      BY <1>3, <2>1, UserStateAssumption DEF ChoicesInv, SpentBelowFloor, TablesType
    <3>2. floors'[<<c, b>>] >= floors[<<c, b>>]
      BY <1>4
    <3> QED BY <3>1, <3>2
  <2>2. ASSUME NEW b \in Accounts, NEW d \in Deadlines, <<"assets", b, None, d>> \in spent
        PROVE  d <= commits'[b].deadline
    <3>1. d <= commits[b].deadline /\ commits[b].deadline \in Int /\ d \in Int
      BY <2>2, UserStateAssumption DEF ChoicesInv, SpentBelowFloor, TablesType, Commit
    <3>2. commits'[b].deadline = IF b = a THEN dl ELSE commits[b].deadline
      BY <1>7 DEF ChoicesInv, TablesType
    <3> QED BY <1>6, <3>1, <3>2
  <2> QED BY <2>1, <2>2 DEF SpentBelowFloor
<1>15. SignedRows(a)' = Rows(s)
  <2>1. ASSUME NEW r \in demand, r.account = a, ~r.plain PROVE r \in gone
    <3>1. r.chain \in Chains /\ floors[<<r.chain, a>>] # -1
      BY <2>1 DEF ChoicesInv, SignedHasFloor, TablesType, Row
    <3> QED BY <1>1, <1>9, <2>1, <3>1 DEF Replaced, RowsOf
  <2> QED BY <1>10, <2>1, RowsTyped DEF SignedRows, RowsOf
<1>16. \A b \in Accounts \ {a} : SignedRows(b)' = SignedRows(b)
  BY <1>9, <1>10, RowsTyped DEF SignedRows, RowsOf
<1>17. ProjectionIsSigned'
  <2> SUFFICES ASSUME NEW b \in Accounts, heads'[b].generation > 0, ~heads'[b].legacy
               PROVE SignedRows(b)' = Rows(heads'[b].id) /\ commits'[b].items = heads'[b].id.assets
    BY DEF ProjectionIsSigned, HasHead
  <2>1. CASE b = a
    BY <1>7, <1>15, <2>1 DEF ChoicesInv, TablesType, HeadsType
  <2>2. CASE b # a
    <3>1. heads'[b] = heads[b] /\ commits'[b] = commits[b]
      BY <1>7, <2>2 DEF ChoicesInv, TablesType, HeadsType
    <3> QED BY <1>16, <2>2, <3>1 DEF ChoicesInv, OneSourceOfChoices, ProjectionIsSigned, HasHead
  <2> QED BY <2>1, <2>2
<1> QED BY <1>12, <1>13, <1>14, <1>17 DEF ChoicesInv, OneSourceOfChoices, LegacySignatureOnce

\* The mark of an older write: it takes the account's head out of ProjectionIsSigned.
LEMMA MarkedHead ==
  ASSUME HeadsType, NEW a \in Accounts, MarkLegacy(a)
  PROVE  /\ HeadsType'
         /\ HasHead(a)' <=> HasHead(a)
         /\ HasHead(a) => heads'[a].legacy /\ heads'[a].generation = heads[a].generation + 1
         /\ \A b \in Accounts \ {a} : heads'[b] = heads[b]
         /\ \A b \in Accounts : heads'[b].id = heads[b].id
<1>1. CASE HasHead(a)
  <2>1. PICK h : h = [id |-> heads[a].id, generation |-> heads[a].generation + 1, legacy |-> TRUE]
    OBVIOUS
  <2>2. heads' = [heads EXCEPT ![a] = h]
    BY <1>1, <2>1 DEF MarkLegacy
  <2>3. HeadOf(a, h) /\ h.generation > 0
    BY <1>1, <2>1 DEF HeadsType, HeadOf, HasHead
  <2>4. HeadsType' /\ heads'[a] = h /\ \A b \in Accounts \ {a} : heads'[b] = heads[b]
    BY <2>2, <2>3, HeadReplaced
  <2> QED BY <1>1, <2>1, <2>3, <2>4 DEF HasHead
<1>2. CASE ~HasHead(a)
  BY <1>2 DEF MarkLegacy, HeadsType, HasHead
<1> QED BY <1>1, <1>2

\* A signed verdict: the chain's rows, its deadline and the account's mark move together.
LEMMA VerdictStep ==
  ASSUME ChoicesInv, NEW a \in Accounts, NEW c \in Chains, NEW dl \in Deadlines, NEW signer,
         NEW split \in SUBSET Verdict, ReplaceVerdicts(a, c, signer, dl, split)
  PROVE  ChoicesInv'
<1>1. PICK new : new = {[chain |-> c, token |-> v.token, weight |-> v.weight,
                         account |-> a, plain |-> FALSE] : v \in split}
  OBVIOUS
<1>2. /\ demand' = {r \in demand : r.account # a \/ r.chain # c} \cup new
      /\ floors' = [floors EXCEPT ![<<c, a>>] = dl] /\ dl > floors[<<c, a>>]
      /\ MarkLegacy(a) /\ commits' = commits
      /\ spent' = spent \cup {<<"verdict", a, c, dl>>}
      /\ replayed' = replayed \cup (spent \cap {<<"verdict", a, c, dl>>})
  BY <1>1 DEF ReplaceVerdicts, Spend
<1>3. dl \in Nat /\ <<c, a>> \in Chains \X Accounts
  BY UserStateAssumption
<1>4. \A r \in new : r \in Row /\ r.account = a /\ r.chain = c /\ ~r.plain
  <2> TAKE r \in new
  <2>1. PICK v \in split : r = [chain |-> c, token |-> v.token, weight |-> v.weight,
                                account |-> a, plain |-> FALSE]
    BY <1>1
  <2>2. v.token \in Tokens /\ v.weight \in {-1, 1}
    BY DEF Verdict
  <2> QED BY <2>1, <2>2 DEF Row
<1>5. floors' \in [Chains \X Accounts -> Int]
      /\ \A p \in Chains \X Accounts : floors'[p] >= floors[p] /\ floors'[p] >= -1
  BY <1>2, <1>3 DEF ChoicesInv, TablesType
<1>6. TablesType'
  <2>1. HeadsType'
    BY <1>2, MarkedHead DEF ChoicesInv, TablesType
  <2>2. demand' \subseteq Row
    BY <1>2, <1>4 DEF ChoicesInv, TablesType
  <2>3. commits' \in [Accounts -> Commit]
    BY <1>2 DEF ChoicesInv, TablesType
  <2> QED BY <1>5, <2>1, <2>2, <2>3 DEF TablesType
<1>7. SignedHasFloor'
  <2> SUFFICES ASSUME NEW r \in demand', ~r.plain PROVE floors'[<<r.chain, r.account>>] # -1
    BY DEF SignedHasFloor
  <2>1. <<r.chain, r.account>> \in Chains \X Accounts
    BY <1>6 DEF TablesType, Row
  <2>2. CASE r \in demand
    BY <1>5, <2>1, <2>2 DEF ChoicesInv, SignedHasFloor, TablesType
  <2>3. CASE r \in new
    <3>1. r.account = a /\ r.chain = c
      BY <1>4, <2>3
    <3> QED BY <1>2, <1>3, <3>1 DEF ChoicesInv, TablesType
  <2> QED BY <1>2, <2>2, <2>3
<1>8. SpentBelowFloor'
  <2>1. ASSUME NEW b \in Accounts, NEW e \in Chains, NEW d \in Deadlines, <<"verdict", b, e, d>> \in spent'
        PROVE  d <= floors'[<<e, b>>]
    <3>1. CASE <<"verdict", b, e, d>> \in spent
      <4>1. d <= floors[<<e, b>>] /\ floors[<<e, b>>] \in Int /\ floors'[<<e, b>>] \in Int /\ d \in Int
        BY <1>5, <3>1, UserStateAssumption DEF ChoicesInv, SpentBelowFloor, TablesType
      <4>2. floors'[<<e, b>>] >= floors[<<e, b>>]
        BY <1>5
      <4> QED BY <4>1, <4>2
    <3>2. CASE <<"verdict", b, e, d>> = <<"verdict", a, c, dl>>
      BY <1>2, <1>3, <3>2 DEF ChoicesInv, TablesType
    <3> QED BY <1>2, <2>1, <3>1, <3>2
  <2>2. ASSUME NEW b \in Accounts, NEW d \in Deadlines, <<"assets", b, None, d>> \in spent'
        PROVE  d <= commits'[b].deadline
    <3>1. <<"assets", b, None, d>> \in spent
      BY <1>2, <2>2
    <3> QED BY <1>2, <3>1 DEF ChoicesInv, SpentBelowFloor
  <2> QED BY <2>1, <2>2 DEF SpentBelowFloor
<1>9. replayed' = {}
  <2>1. floors[<<c, a>>] \in Int
    BY <1>3 DEF ChoicesInv, TablesType
  <2>2. <<"verdict", a, c, dl>> \notin spent
    BY <1>2, <1>3, <2>1 DEF ChoicesInv, SpentBelowFloor
  <2>3. replayed = {}
    BY DEF ChoicesInv, OneSourceOfChoices, LegacySignatureOnce
  <2> QED BY <1>2, <2>2, <2>3
<1>10. ProjectionIsSigned'
  <2> SUFFICES ASSUME NEW b \in Accounts, heads'[b].generation > 0, ~heads'[b].legacy
               PROVE SignedRows(b)' = Rows(heads'[b].id) /\ commits'[b].items = heads'[b].id.assets
    BY DEF ProjectionIsSigned, HasHead
  <2>1. b # a /\ heads'[b] = heads[b]
    BY <1>2, MarkedHead DEF ChoicesInv, TablesType, HasHead
  <2>2. SignedRows(b)' = SignedRows(b)
    BY <1>2, <1>4, <2>1 DEF SignedRows, RowsOf
  <2> QED BY <1>2, <2>1, <2>2 DEF ChoicesInv, OneSourceOfChoices, ProjectionIsSigned, HasHead
<1> QED BY <1>6, <1>7, <1>8, <1>9, <1>10 DEF ChoicesInv, OneSourceOfChoices, LegacySignatureOnce

\* A signed asset list: the list, its deadline and the mark move together.
LEMMA AssetsStep ==
  ASSUME ChoicesInv, NEW a \in Accounts, NEW dl \in Deadlines, NEW signer,
         NEW items \in SUBSET Asset, PutAssetCommit(a, signer, dl, items)
  PROVE  ChoicesInv'
<1>1. /\ demand' = demand /\ floors' = floors
      /\ commits' = [commits EXCEPT ![a] = [items |-> items, deadline |-> dl]]
      /\ dl > commits[a].deadline
      /\ MarkLegacy(a)
      /\ spent' = spent \cup {<<"assets", a, None, dl>>}
      /\ replayed' = replayed \cup (spent \cap {<<"assets", a, None, dl>>})
  BY DEF PutAssetCommit, Spend
<1>2. dl \in Nat /\ commits[a].deadline \in Int
  BY UserStateAssumption DEF ChoicesInv, TablesType, Commit
<1>3. commits' \in [Accounts -> Commit]
  BY <1>1, <1>2 DEF ChoicesInv, TablesType, Commit
<1>4. commits'[a].deadline = dl /\ \A b \in Accounts \ {a} : commits'[b] = commits[b]
  BY <1>1 DEF ChoicesInv, TablesType
<1>5. TablesType'
  <2>1. HeadsType'
    BY <1>1, MarkedHead DEF ChoicesInv, TablesType
  <2> QED BY <1>1, <1>3, <2>1 DEF ChoicesInv, TablesType
<1>6. SignedHasFloor'
  BY <1>1 DEF ChoicesInv, SignedHasFloor
<1>7. SpentBelowFloor'
  <2>1. ASSUME NEW b \in Accounts, NEW e \in Chains, NEW d \in Deadlines, <<"verdict", b, e, d>> \in spent'
        PROVE  d <= floors'[<<e, b>>]
    <3>1. <<"verdict", b, e, d>> \in spent
      BY <1>1, <2>1
    <3> QED BY <1>1, <3>1 DEF ChoicesInv, SpentBelowFloor
  <2>2. ASSUME NEW b \in Accounts, NEW d \in Deadlines, <<"assets", b, None, d>> \in spent'
        PROVE  d <= commits'[b].deadline
    <3>1. CASE <<"assets", b, None, d>> \in spent
      <4>1. d <= commits[b].deadline /\ commits[b].deadline \in Int /\ d \in Int
        BY <3>1, UserStateAssumption DEF ChoicesInv, SpentBelowFloor, TablesType, Commit
      <4> QED BY <1>1, <1>2, <1>4, <4>1
    <3>2. CASE <<"assets", b, None, d>> = <<"assets", a, None, dl>>
      BY <1>2, <1>4, <3>2
    <3> QED BY <1>1, <2>2, <3>1, <3>2
  <2> QED BY <2>1, <2>2 DEF SpentBelowFloor
<1>8. replayed' = {}
  <2>1. <<"assets", a, None, dl>> \notin spent
    BY <1>1, <1>2 DEF ChoicesInv, SpentBelowFloor
  <2>2. replayed = {}
    BY DEF ChoicesInv, OneSourceOfChoices, LegacySignatureOnce
  <2> QED BY <1>1, <2>1, <2>2
<1>9. ProjectionIsSigned'
  <2> SUFFICES ASSUME NEW b \in Accounts, heads'[b].generation > 0, ~heads'[b].legacy
               PROVE SignedRows(b)' = Rows(heads'[b].id) /\ commits'[b].items = heads'[b].id.assets
    BY DEF ProjectionIsSigned, HasHead
  <2>1. b # a /\ heads'[b] = heads[b]
    BY <1>1, MarkedHead DEF ChoicesInv, TablesType, HasHead
  <2>2. SignedRows(b)' = SignedRows(b)
    BY <1>1 DEF SignedRows, RowsOf
  <2> QED BY <1>4, <2>1, <2>2 DEF ChoicesInv, OneSourceOfChoices, ProjectionIsSigned, HasHead
<1> QED BY <1>5, <1>6, <1>7, <1>8, <1>9 DEF ChoicesInv, OneSourceOfChoices, LegacySignatureOnce

\* An unsigned vote adds plain rows and touches nothing that was signed.
LEMMA DemandStep ==
  ASSUME TablesType, NEW a \in Accounts, NEW c \in Chains, NEW ts \in SUBSET Tokens,
         RecordDemand(a, c, ts)
  PROVE  /\ demand' \subseteq Row
         /\ \A r \in demand' : ~r.plain => r \in demand
         /\ \A b \in Accounts : SignedRows(b)' = SignedRows(b)
<1>1. PICK there : demand' = demand \cup {[chain |-> c, token |-> t, weight |-> 1, account |-> a,
                                           plain |-> TRUE] : t \in ts \ there}
  BY DEF RecordDemand
<1>4. PICK new : new = {[chain |-> c, token |-> t, weight |-> 1, account |-> a,
                         plain |-> TRUE] : t \in ts \ there}
  OBVIOUS
<1>2. \A r \in new : r \in Row /\ r.plain
  <2> TAKE r \in new
  <2>1. PICK t \in Tokens : r = [chain |-> c, token |-> t, weight |-> 1, account |-> a, plain |-> TRUE]
    BY <1>4
  <2> QED BY <2>1 DEF Row
<1>3. demand' = demand \cup new
  BY <1>1, <1>4
<1> QED BY <1>2, <1>3 DEF TablesType, SignedRows, RowsOf

\* A step that writes none of the tables.
LEMMA ChoicesFrame ==
  ASSUME ChoicesInv, UNCHANGED <<heads, demand, floors, commits, spent, replayed>>
  PROVE  ChoicesInv'
BY DEF ChoicesInv, TablesType, HeadsType, SignedHasFloor, SpentBelowFloor, OneSourceOfChoices,
       ProjectionIsSigned, LegacySignatureOnce, SignedRows, RowsOf, HasHead

\* Only the posts of StateNext write the tables.
LEMMA StateNextWrites ==
  ASSUME Next
  PROVE  \/ \E d \in Devices : \E s \in Signable(OwnerOf[d]) : PutUserState(d, s)
         \/ \E a, signer \in Accounts, c \in Chains, dl \in Deadlines, split \in {x[1] : x \in Contents} :
              ReplaceVerdicts(a, c, signer, dl, split)
         \/ \E a, signer \in Accounts, dl \in Deadlines, items \in {x[2] : x \in Contents} :
              PutAssetCommit(a, signer, dl, items)
         \/ \E a \in Accounts, c \in Chains, ts \in SUBSET Tokens : RecordDemand(a, c, ts)
         \/ UNCHANGED <<heads, demand, floors, commits, spent, replayed>>
<1>1. CASE StateNext
  BY <1>1 DEF StateNext, ReadHead, ReadVerdicts, ReadAssets, Recheck, RestoreHistory, ImportState, ImportCheckpoint,
              PostCheckpoint, Tick, tableVars
<1>2. CASE UNCHANGED stateVars
  BY <1>2 DEF stateVars
<1>3. ASSUME NEW p \in Daemons, TickStep(p) PROVE UNCHANGED <<heads, demand, floors, commits, spent, replayed>>
  BY <1>3 DEF TickStep, RecheckReceipt, RecheckHeader, BuildForRecord, ReadRecord, SignTx, SaveJob,
              Resend, ReadReceipt, HeadBlock, CheckDepth, Readback, stateVars
<1> QED
  BY <1>1, <1>2, <1>3 DEF Next, StartTick, AbortTick, MineEmpty, MineTx, Reorg, DropTx, ForeignTx

LEMMA ChoicesStep == ChoicesInv /\ [Next]_allVars => ChoicesInv'
<1> SUFFICES ASSUME ChoicesInv, [Next]_allVars PROVE ChoicesInv'
  OBVIOUS
<1>1. ASSUME NEW d \in Devices, NEW s \in Signable(OwnerOf[d]), PutUserState(d, s) PROVE ChoicesInv'
  <2>1. OwnerOf[d] \in Accounts
    BY UserStateAssumption
  <2>2. Written(s, OwnerOf[d])
    BY <2>1, SignableWritten
  <2>3. heads[OwnerOf[d]].generation \in Nat /\ view[d].generation = heads[OwnerOf[d]].generation
    BY <1>1, <2>1 DEF ChoicesInv, TablesType, HeadsType, HeadOf, PutUserState, Admissible
  <2>4. /\ Project(s) /\ UNCHANGED <<spent, replayed>>
        /\ heads' = [heads EXCEPT ![OwnerOf[d]] = [id |-> s, generation |-> view[d].generation + 1, legacy |-> FALSE]]
    BY <1>1 DEF PutUserState
  <2> QED BY <2>1, <2>2, <2>3, <2>4, ProjectStep
<1>2. ASSUME NEW a \in Accounts, NEW signer \in Accounts, NEW c \in Chains, NEW dl \in Deadlines,
             NEW x \in Contents, ReplaceVerdicts(a, c, signer, dl, x[1])
      PROVE  ChoicesInv'
  <2>1. x[1] \in SUBSET Verdict
    BY UserStateAssumption
  <2> QED BY <1>2, <2>1, VerdictStep
<1>3. ASSUME NEW a \in Accounts, NEW signer \in Accounts, NEW dl \in Deadlines,
             NEW x \in Contents, PutAssetCommit(a, signer, dl, x[2])
      PROVE  ChoicesInv'
  <2>1. x[2] \in SUBSET Asset
    BY UserStateAssumption
  <2> QED BY <1>3, <2>1, AssetsStep
<1>4. ASSUME NEW a \in Accounts, NEW c \in Chains, NEW ts \in SUBSET Tokens, RecordDemand(a, c, ts)
      PROVE  ChoicesInv'
  <2>1. /\ demand' \subseteq Row /\ \A r \in demand' : ~r.plain => r \in demand
        /\ \A b \in Accounts : SignedRows(b)' = SignedRows(b)
    BY <1>4, DemandStep DEF ChoicesInv
  <2>2. UNCHANGED <<heads, floors, commits, spent, replayed>>
    BY <1>4 DEF RecordDemand
  <2>3. TablesType' /\ SignedHasFloor' /\ SpentBelowFloor'
    BY <2>1, <2>2 DEF ChoicesInv, TablesType, HeadsType, SignedHasFloor, SpentBelowFloor
  <2>4. ProjectionIsSigned'
    BY <2>1, <2>2 DEF ChoicesInv, OneSourceOfChoices, ProjectionIsSigned, HasHead
  <2> QED BY <2>2, <2>3, <2>4 DEF ChoicesInv, OneSourceOfChoices, LegacySignatureOnce
<1>5. CASE UNCHANGED <<heads, demand, floors, commits, spent, replayed>>
  BY <1>5, ChoicesFrame
<1>6. CASE UNCHANGED allVars
  BY <1>6, <1>5 DEF allVars, stateVars
<1> QED BY <1>1, <1>2, <1>3, <1>4, <1>5, <1>6, StateNextWrites

LEMMA ChoicesInvariant == FairSpec => []ChoicesInv
<1>1. Init => ChoicesInv
  <2> SUFFICES ASSUME Init PROVE ChoicesInv
    OBVIOUS
  <2>1. /\ heads = [a \in Accounts |-> NoHead] /\ demand = {}
        /\ floors = [p \in Chains \X Accounts |-> -1]
        /\ commits = [a \in Accounts |-> [items |-> {}, deadline |-> -1]]
        /\ spent = {} /\ replayed = {}
    BY DEF Init, StateInit
  <2>2. TablesType
    <3>1. NoHead = [id |-> None, generation |-> 0, legacy |-> FALSE]
      BY DEF NoHead
    <3>2. \A a \in Accounts : HeadOf(a, NoHead)
      BY <3>1 DEF HeadOf
    <3>3. HeadsType
      BY <2>1, <3>2 DEF HeadsType
    <3>4. [items |-> {}, deadline |-> -1] \in Commit
      BY DEF Commit
    <3>5. commits \in [Accounts -> Commit]
      BY <2>1, <3>4
    <3>6. floors \in [Chains \X Accounts -> Int] /\ \A p \in Chains \X Accounts : floors[p] >= -1
      BY <2>1
    <3> QED BY <2>1, <3>3, <3>5, <3>6 DEF TablesType
  <2>3. ProjectionIsSigned
    BY <2>1 DEF ProjectionIsSigned, HasHead, NoHead
  <2> QED BY <2>1, <2>2, <2>3 DEF ChoicesInv, SignedHasFloor, SpentBelowFloor, OneSourceOfChoices, LegacySignatureOnce
<1> QED BY <1>1, ChoicesStep, PTL DEF FairSpec

\* OneSourceOfChoices holds of every reachable state: the mark, the replay floors and the
\* projection of internal/store leave no order of posts in which a state, a verdict or a
\* list undoes a later one or is applied twice.
THEOREM ChoicesHaveOneSource == FairSpec => []OneSourceOfChoices
<1>1. ChoicesInv => OneSourceOfChoices
  BY DEF ChoicesInv
<1> QED BY <1>1, ChoicesInvariant, PTL

-----------------------------------------------------------------------------
(* What a page has reviewed.                                               *)

ViewOf(v) ==
  /\ v = [pc |-> v.pc, generation |-> v.generation, rows |-> v.rows, items |-> v.items]
  /\ v.pc \in {"none", "verdicts", "assets", "recheck", "ready"}
  /\ v.generation \in Nat

\* A reading v agrees with a head of generation g, the signed rows and the list as far as
\* it has gone, unless the generation has moved since it began.
Fresh(v, g, rows, items) ==
  /\ v.pc = "none" => v.generation = 0
  /\ v.pc # "none" => v.generation > 0 /\ v.generation <= g
  /\ v.generation = g /\ v.pc \in {"assets", "recheck", "ready"} => rows \subseteq v.rows
  /\ v.generation = g /\ v.pc \in {"recheck", "ready"} => items = v.items

ReviewInv ==
  /\ view = [d \in Devices |-> view[d]]
  /\ \A d \in Devices : ViewOf(view[d])
  /\ \A d \in Devices :
       LET a == OwnerOf[d]
       IN  Fresh(view[d], heads[a].generation, SignedRows(a), commits[a].items)

\* A later generation makes any reading stale.
LEMMA StaleAfter ==
  ASSUME NEW v, ViewOf(v), NEW g \in Nat, NEW h \in Nat, h > g, NEW rows, NEW items,
         NEW newRows, NEW newItems, Fresh(v, g, rows, items)
  PROVE  Fresh(v, h, newRows, newItems)
BY DEF Fresh, ViewOf

\* One page's reading moves on.
LEMMA ViewReplaced ==
  ASSUME ReviewInv, NEW d \in Devices, NEW v, ViewOf(v), view' = [view EXCEPT ![d] = v],
         UNCHANGED <<heads, demand, commits>>,
         Fresh(v, heads[OwnerOf[d]].generation, SignedRows(OwnerOf[d]), commits[OwnerOf[d]].items)
  PROVE  ReviewInv'
<1>1. view' = [e \in Devices |-> IF e = d THEN v ELSE view[e]]
  BY DEF ReviewInv
<1>2. view' = [e \in Devices |-> view'[e]] /\ \A e \in Devices : ViewOf(view'[e])
  BY <1>1 DEF ReviewInv
<1>3. \A e \in Devices : SignedRows(OwnerOf[e])' = SignedRows(OwnerOf[e])
  BY DEF SignedRows, RowsOf
<1>4. \A e \in Devices :
        Fresh(view'[e], heads'[OwnerOf[e]].generation, SignedRows(OwnerOf[e])', commits'[OwnerOf[e]].items)
  BY <1>1, <1>3 DEF ReviewInv
<1> QED BY <1>2, <1>4 DEF ReviewInv

\* The four reads of getUserState.
LEMMA ReadStep ==
  ASSUME ChoicesInv, ReviewInv, NEW d \in Devices,
         ReadHead(d) \/ ReadVerdicts(d) \/ ReadAssets(d) \/ Recheck(d)
  PROVE  ReviewInv'
<1>1. PICK a \in Accounts : a = OwnerOf[d]
  BY UserStateAssumption
<1>2. UNCHANGED <<heads, demand, commits>>
  BY DEF ReadHead, ReadVerdicts, ReadAssets, Recheck, tableVars
<1>3. PICK g \in Nat : g = heads[a].generation
  BY DEF ChoicesInv, TablesType, HeadsType, HeadOf
<1>4. PICK w : w = view[d] /\ ViewOf(w) /\ Fresh(w, g, SignedRows(a), commits[a].items)
  BY <1>1, <1>3 DEF ReviewInv
<1>6. CASE ReadHead(d)
  <2>1. PICK v : v = [pc |-> "verdicts", generation |-> g, rows |-> {}, items |-> {}]
    OBVIOUS
  <2>2. view' = [view EXCEPT ![d] = v] /\ g > 0
    BY <1>1, <1>3, <1>6, <2>1 DEF ReadHead, View, HasHead
  <2>3. ViewOf(v) /\ Fresh(v, g, SignedRows(a), commits[a].items)
    BY <2>1, <2>2 DEF ViewOf, Fresh
  <2> QED BY <1>1, <1>2, <1>3, <2>2, <2>3, ViewReplaced
<1>7. CASE ReadVerdicts(d)
  <2>1. PICK rows : rows = {r \in RowsOf(a) : r.chain \in {c \in Chains : \E b \in Accounts : floors[<<c, b>>] # -1}}
    OBVIOUS
  <2>2. PICK v : v = [pc |-> "assets", generation |-> w.generation, rows |-> rows, items |-> w.items]
    OBVIOUS
  <2>3. view' = [view EXCEPT ![d] = v] /\ w.pc = "verdicts"
    BY <1>1, <1>4, <1>7, <2>1, <2>2 DEF ReadVerdicts, View
  <2>4. SignedRows(a) \subseteq rows
    <3>1. \A r \in SignedRows(a) : r.chain \in Chains /\ r.account = a /\ floors[<<r.chain, a>>] # -1
      BY DEF ChoicesInv, SignedHasFloor, SignedRows, RowsOf, TablesType, Row
    <3> QED BY <2>1, <3>1 DEF SignedRows
  <2>5. ViewOf(v) /\ Fresh(v, g, SignedRows(a), commits[a].items)
    BY <1>4, <2>2, <2>3, <2>4 DEF ViewOf, Fresh
  <2> QED BY <1>1, <1>2, <1>3, <2>3, <2>5, ViewReplaced
<1>8. CASE ReadAssets(d)
  <2>2. PICK v : v = [pc |-> "recheck", generation |-> w.generation, rows |-> w.rows, items |-> commits[a].items]
    OBVIOUS
  <2>3. view' = [view EXCEPT ![d] = v] /\ w.pc = "assets"
    BY <1>1, <1>4, <1>8, <2>2 DEF ReadAssets, View
  <2>5. ViewOf(v) /\ Fresh(v, g, SignedRows(a), commits[a].items)
    BY <1>4, <2>2, <2>3 DEF ViewOf, Fresh
  <2> QED BY <1>1, <1>2, <1>3, <2>3, <2>5, ViewReplaced
<1>9. CASE Recheck(d)
  <2>2. PICK v : v = IF g = w.generation
                     THEN [pc |-> "ready", generation |-> w.generation, rows |-> w.rows, items |-> w.items]
                     ELSE [pc |-> "none", generation |-> 0, rows |-> {}, items |-> {}]
    OBVIOUS
  <2>3. view' = [view EXCEPT ![d] = v] /\ w.pc = "recheck"
    BY <1>1, <1>3, <1>4, <1>9, <2>2 DEF Recheck, View, NoView
  <2>5. ViewOf(v) /\ Fresh(v, g, SignedRows(a), commits[a].items)
    BY <1>4, <2>2, <2>3 DEF ViewOf, Fresh
  <2> QED BY <1>1, <1>2, <1>3, <2>3, <2>5, ViewReplaced
<1> QED BY <1>6, <1>7, <1>8, <1>9

\* A write to one account's tables that moves its generation leaves every other page's
\* reading as fresh as it was, and makes those of this account stale.
LEMMA WriteStep ==
  ASSUME ReviewInv, HeadsType, NEW a \in Accounts,
         heads'[a].generation \in Nat, heads'[a].generation > heads[a].generation,
         view' = [d \in Devices |-> view'[d]],
         \A d \in Devices : view'[d] = view[d] \/ view'[d] = NoView,
         \A b \in Accounts \ {a} :
           heads'[b] = heads[b] /\ SignedRows(b)' = SignedRows(b) /\ commits'[b] = commits[b]
  PROVE  ReviewInv'
<1>1. ViewOf(NoView) /\ \A g, rows, items : Fresh(NoView, g, rows, items)
  BY DEF ViewOf, Fresh, NoView, View
<1> SUFFICES ASSUME NEW d \in Devices
             PROVE  /\ ViewOf(view'[d])
                    /\ Fresh(view'[d], heads'[OwnerOf[d]].generation,
                             SignedRows(OwnerOf[d])', commits'[OwnerOf[d]].items)
  BY DEF ReviewInv
<1>2. PICK b \in Accounts : b = OwnerOf[d]
  BY UserStateAssumption
<1>3. heads[b].generation \in Nat /\ heads'[b].generation \in Nat
  BY DEF HeadsType, HeadOf
<1>4. CASE view'[d] = NoView
  BY <1>1, <1>2, <1>3, <1>4
<1>5. CASE view'[d] = view[d] /\ b = a
  <2>1. ViewOf(view[d]) /\ Fresh(view[d], heads[a].generation, SignedRows(a), commits[a].items)
    BY <1>2, <1>5 DEF ReviewInv
  <2>2. Fresh(view[d], heads'[a].generation, SignedRows(a)', commits'[a].items)
    BY <1>3, <1>5, <2>1, StaleAfter
  <2> QED BY <1>2, <1>5, <2>1, <2>2
<1>6. CASE view'[d] = view[d] /\ b # a
  BY <1>2, <1>6 DEF ReviewInv
<1> QED BY <1>4, <1>5, <1>6

\* Without a head no page of the account is reading.
LEMMA WriteWithoutHead ==
  ASSUME ReviewInv, HeadsType, NEW a \in Accounts, heads[a].generation = 0,
         UNCHANGED <<heads, view>>,
         \A b \in Accounts \ {a} : SignedRows(b)' = SignedRows(b) /\ commits'[b] = commits[b]
  PROVE  ReviewInv'
<1> SUFFICES ASSUME NEW d \in Devices
             PROVE  Fresh(view[d], heads[OwnerOf[d]].generation,
                          SignedRows(OwnerOf[d])', commits'[OwnerOf[d]].items)
  BY DEF ReviewInv
<1>1. PICK b \in Accounts : b = OwnerOf[d]
  BY UserStateAssumption
<1>2. ViewOf(view[d]) /\ Fresh(view[d], heads[b].generation, SignedRows(b), commits[b].items)
  BY <1>1 DEF ReviewInv
<1>3. CASE b = a
  BY <1>1, <1>2, <1>3 DEF Fresh, ViewOf
<1>4. CASE b # a
  BY <1>1, <1>2, <1>4
<1> QED BY <1>3, <1>4

\* The older writes.
LEMMA LegacyStep ==
  ASSUME ReviewInv, HeadsType, NEW a \in Accounts, MarkLegacy(a), UNCHANGED view,
         \A b \in Accounts \ {a} : SignedRows(b)' = SignedRows(b) /\ commits'[b] = commits[b]
  PROVE  ReviewInv'
<1>1. /\ HeadsType' /\ \A b \in Accounts \ {a} : heads'[b] = heads[b]
      /\ HasHead(a) => heads'[a].generation = heads[a].generation + 1
  BY MarkedHead
<1>2. heads[a].generation \in Nat
  BY DEF HeadsType, HeadOf
<1>3. CASE HasHead(a)
  BY <1>1, <1>2, <1>3, WriteStep DEF ReviewInv
<1>4. CASE ~HasHead(a)
  BY <1>2, <1>4, WriteWithoutHead DEF MarkLegacy, HasHead
<1> QED BY <1>3, <1>4

\* PutUserState: the generation it names is the head's, so the head's next one is new.
LEMMA PostStep ==
  ASSUME ChoicesInv, ReviewInv, NEW d \in Devices, NEW s \in Signable(OwnerOf[d]), PutUserState(d, s)
  PROVE  ReviewInv'
<1>1. PICK a \in Accounts : a = OwnerOf[d]
  BY UserStateAssumption
<1>2. Written(s, a)
  BY <1>1, SignableWritten
<1>3. PICK g \in Nat : g = heads[a].generation /\ g = view[d].generation
  BY <1>1, <1>2 DEF ChoicesInv, TablesType, HeadsType, HeadOf, PutUserState, Admissible, Written
<1>4. heads' = [heads EXCEPT ![a] = [id |-> s, generation |-> g + 1, legacy |-> FALSE]]
  BY <1>1, <1>3 DEF PutUserState
<1>5. heads'[a].generation = g + 1 /\ \A b \in Accounts \ {a} : heads'[b] = heads[b]
  <2>1. DOMAIN heads = Accounts
    BY DEF ChoicesInv, TablesType, HeadsType
  <2> QED BY <1>4, <2>1
<1>6. view' = [view EXCEPT ![d] = NoView] /\ view' = [e \in Devices |-> view'[e]]
      /\ \A e \in Devices : view'[e] = view[e] \/ view'[e] = NoView
  BY DEF PutUserState, ReviewInv
<1>7. \A b \in Accounts \ {a} : SignedRows(b)' = SignedRows(b) /\ commits'[b] = commits[b]
  <2>1. Project(s) /\ s.account = a
    BY <1>2 DEF PutUserState, Written
  <2>2. PICK gone : gone = {r \in RowsOf(a) : r.chain \in Replaced(s)} /\ demand' = (demand \ gone) \cup Rows(s)
    BY <2>1 DEF Project
  <2>3. \A b \in Accounts \ {a} : SignedRows(b)' = SignedRows(b)
    BY <1>2, <2>2, RowsTyped DEF SignedRows, RowsOf
  <2>4. \A b \in Accounts \ {a} : commits'[b] = commits[b]
    BY <2>1 DEF Project, ChoicesInv, TablesType
  <2> QED BY <2>3, <2>4
<1>8. HeadsType /\ heads'[a].generation \in Nat /\ heads'[a].generation > heads[a].generation
  BY <1>3, <1>5 DEF ChoicesInv, TablesType
<1> QED BY <1>5, <1>6, <1>7, <1>8, WriteStep

LEMMA ReviewStep == ChoicesInv /\ ReviewInv /\ [Next]_allVars => ReviewInv'
<1> SUFFICES ASSUME ChoicesInv, ReviewInv, [Next]_allVars PROVE ReviewInv'
  OBVIOUS
<1>1. HeadsType
  BY DEF ChoicesInv, TablesType
<1>2. ASSUME NEW a \in Accounts, NEW signer \in Accounts, NEW c \in Chains, NEW dl \in Deadlines,
             NEW split, ReplaceVerdicts(a, c, signer, dl, split)
      PROVE  ReviewInv'
  <2>4. PICK new : new = {[chain |-> c, token |-> v.token, weight |-> v.weight,
                           account |-> a, plain |-> FALSE] : v \in split}
    OBVIOUS
  <2>1. /\ demand' = {r \in demand : r.account # a \/ r.chain # c} \cup new
        /\ \A r \in new : r.account = a
    BY <1>2, <2>4 DEF ReplaceVerdicts
  <2>2. \A b \in Accounts \ {a} : SignedRows(b)' = SignedRows(b)
    BY <2>1 DEF SignedRows, RowsOf
  <2>3. UNCHANGED <<view, commits>> /\ MarkLegacy(a)
    BY <1>2 DEF ReplaceVerdicts
  <2> QED BY <1>1, <2>2, <2>3, LegacyStep
<1>3. ASSUME NEW a \in Accounts, NEW signer \in Accounts, NEW dl \in Deadlines,
             NEW items, PutAssetCommit(a, signer, dl, items)
      PROVE  ReviewInv'
  <2>1. UNCHANGED <<view, demand>> /\ MarkLegacy(a)
    BY <1>3 DEF PutAssetCommit
  <2>2. \A b \in Accounts \ {a} : SignedRows(b)' = SignedRows(b) /\ commits'[b] = commits[b]
    BY <1>3, <2>1 DEF PutAssetCommit, SignedRows, RowsOf, ChoicesInv, TablesType
  <2> QED BY <1>1, <2>1, <2>2, LegacyStep
<1>4. ASSUME NEW a \in Accounts, NEW c \in Chains, NEW ts \in SUBSET Tokens, RecordDemand(a, c, ts)
      PROVE  ReviewInv'
  <2>1. \A b \in Accounts : SignedRows(b)' = SignedRows(b)
    BY <1>4, DemandStep DEF ChoicesInv
  <2>2. UNCHANGED <<heads, commits, view>>
    BY <1>4 DEF RecordDemand
  <2>3. \A d \in Devices : OwnerOf[d] \in Accounts
    BY UserStateAssumption
  <2> QED BY <2>1, <2>2, <2>3 DEF ReviewInv
<1>5. CASE UNCHANGED <<heads, demand, commits, view>>
  BY <1>5 DEF ReviewInv, SignedRows, RowsOf
<1>6. CASE StateNext
  <2>1. ASSUME NEW d \in Devices, ReadHead(d) \/ ReadVerdicts(d) \/ ReadAssets(d) \/ Recheck(d)
        PROVE  ReviewInv'
    BY <2>1, ReadStep
  <2>2. ASSUME NEW d \in Devices, NEW s \in Signable(OwnerOf[d]), PutUserState(d, s)
        PROVE  ReviewInv'
    BY <2>2, PostStep
  <2>3. ASSUME NEW s, NEW r, RestoreHistory({s, r}) PROVE ReviewInv'
    BY <1>5, <2>3 DEF RestoreHistory, ImportState, ImportCheckpoint
  <2>4. CASE Tick
    BY <1>5, <2>4 DEF Tick, tableVars
  <2>5. CASE PostCheckpoint
    BY <1>5, <2>5 DEF PostCheckpoint
  <2> QED BY <1>2, <1>3, <1>4, <1>6, <2>1, <2>2, <2>3, <2>4, <2>5 DEF StateNext
<1>7. CASE UNCHANGED stateVars
  BY <1>5, <1>7 DEF stateVars
<1>8. ASSUME NEW p \in Daemons, TickStep(p) PROVE UNCHANGED <<heads, demand, commits, view>>
  BY <1>8 DEF TickStep, RecheckReceipt, RecheckHeader, BuildForRecord, ReadRecord, SignTx, SaveJob,
              Resend, ReadReceipt, HeadBlock, CheckDepth, Readback, stateVars
<1> QED
  BY <1>5, <1>6, <1>7, <1>8 DEF Next, allVars, StartTick, AbortTick, MineEmpty, MineTx, Reorg, DropTx, ForeignTx

LEMMA ReviewInvariant == FairSpec => []ReviewInv
<1>1. Init => ReviewInv
  <2> SUFFICES ASSUME Init PROVE ReviewInv
    OBVIOUS
  <2>1. view = [d \in Devices |-> NoView]
    BY DEF Init, StateInit
  <2>2. ViewOf(NoView) /\ \A g, rows, items : g = 0 => Fresh(NoView, g, rows, items)
    BY DEF ViewOf, Fresh, NoView, View
  <2>3. \A a \in Accounts : heads[a].generation = 0
    BY DEF Init, StateInit, NoHead
  <2>4. \A d \in Devices : OwnerOf[d] \in Accounts
    BY UserStateAssumption
  <2> QED BY <2>1, <2>2, <2>3, <2>4 DEF ReviewInv
<1> QED BY <1>1, ChoicesInvariant, ReviewStep, PTL DEF FairSpec

\* ReviewedBeforeReplaced, however the reads of any number of pages, their posts, the older
\* writes and the votes interleave: the second reading of the generation in getUserState
\* and the comparison in PutUserState are enough.
THEOREM ReviewComesFirst == FairSpec => ReviewedBeforeReplaced
<1> DEFINE Step ==
      \A d \in Devices :
        LET a == OwnerOf[d]
        IN  HasHead(a) /\ heads'[a].id # heads[a].id /\ view'[d] # view[d] =>
              SignedRows(a) \subseteq view[d].rows /\ commits[a].items = view[d].items
<1>1. ChoicesInv /\ ReviewInv /\ [Next]_allVars => [Step]_stateVars
  <2> SUFFICES ASSUME ChoicesInv, ReviewInv, [Next]_allVars, NEW d \in Devices,
                      HasHead(OwnerOf[d]), heads'[OwnerOf[d]].id # heads[OwnerOf[d]].id, view'[d] # view[d]
               PROVE  /\ SignedRows(OwnerOf[d]) \subseteq view[d].rows
                      /\ commits[OwnerOf[d]].items = view[d].items
    OBVIOUS
  <2>1. PICK a \in Accounts : a = OwnerOf[d]
    BY UserStateAssumption
  <2>2. heads' # heads /\ view' # view
    OBVIOUS
  <2>3. PICK e \in Devices : \E s \in Signable(OwnerOf[e]) : PutUserState(e, s)
    <3>1. StateNext
      BY <2>2 DEF Next, allVars, stateVars, StartTick, AbortTick, MineEmpty, MineTx, Reorg, DropTx, ForeignTx,
                  TickStep, RecheckReceipt, RecheckHeader, BuildForRecord, ReadRecord, SignTx, SaveJob,
                  Resend, ReadReceipt, HeadBlock, CheckDepth, Readback
    <3> QED BY <2>2, <3>1 DEF StateNext, ReadHead, ReadVerdicts, ReadAssets, Recheck, RestoreHistory,
                              PostCheckpoint, Tick, tableVars, ReplaceVerdicts, PutAssetCommit, RecordDemand
  <2>4. e = d
    BY <2>3 DEF PutUserState, ReviewInv
  <2>5. view[d].pc \in {"none", "ready"} /\ view[d].generation = heads[a].generation
    BY <2>1, <2>3, <2>4, SignableWritten DEF PutUserState, Admissible
  <2>6. Fresh(view[d], heads[a].generation, SignedRows(a), commits[a].items)
    BY <2>1 DEF ReviewInv
  <2> QED BY <2>1, <2>5, <2>6 DEF Fresh, HasHead
<1>2. [][Step]_stateVars <=> ReviewedBeforeReplaced
  BY DEF ReviewedBeforeReplaced
<1> QED BY <1>1, <1>2, ChoicesInvariant, ReviewInvariant, PTL DEF FairSpec

-----------------------------------------------------------------------------
(* A confirmed record stays, and the records are cuts in order.  The       *)
(* invariant is stated over values, so that it reads the same before and   *)
(* after a step.                                                           *)

IsSeq(q) == \E S : q \in Seq(S)

Rooted(root) == RevisionsOf(root) \in [Accounts -> Nat]
Upto(r, q) == \A a \in Accounts : RevisionsOf(r)[a] <= RevisionsOf(q)[a]

\* Every state kept has a number, so every cut of heads has.
Numbered ==
  /\ \A s \in revisions : s.revision \in Nat
  /\ \A a \in Accounts : HasHead(a) => heads[a].id.revision \in Nat

\* Jobs were made from later and later cuts, none later than the heads.
JobsOK(js, cut) ==
  /\ IsSeq(js)
  /\ \A j \in DOMAIN js :
       /\ js[j] = [tx |-> js[j].tx, status |-> js[j].status]
       /\ Rooted(js[j].tx.root)
       /\ Upto(js[j].tx.root, cut)
  /\ \A j, k \in DOMAIN js : j <= k => Upto(js[j].tx.root, js[k].tx.root)

\* What a tick has in hand: the job that it settles is pending, the block is one that its
\* transaction was in, and the root is the newest cut.
DaemonOK(d, js, cut) ==
  /\ d = [pc |-> d.pc, build |-> d.build, root |-> d.root, nonce |-> d.nonce, job |-> d.job, block |-> d.block,
           head |-> d.head]
  /\ d.pc \in {"recheck", "header", "settle", "head", "depth", "readback"} => d.job \in DOMAIN js
  /\ d.pc \in {"settle", "head", "depth", "readback"} => js[d.job].status = "pending"
  /\ d.pc \in {"header", "head", "depth", "readback"} => js[d.job].tx \in d.block.block.txs
  /\ d.pc \in {"record", "sign", "save"} =>
       Rooted(d.root) /\ Upto(d.root, cut) /\ \A j \in DOMAIN js : Upto(js[j].tx.root, d.root)

\* The heights below h that hold one of the key's transactions.
Before(ch, h) == {i \in 1 .. h - 1 : ch[i].txs # {}}

\* A transaction's nonce is the number of those before it.
ChainOK(ch, top) ==
  /\ IsSeq(ch)
  /\ top \in Nat /\ Len(ch) <= top
  /\ \A h \in DOMAIN ch : \A t \in ch[h].txs : t.nonce = Cardinality(Before(ch, h))

\* A confirmed job's transaction lies where no reorg within Depth reaches ...
ConfirmedDeep(js, ch, top) ==
  \A j \in DOMAIN js :
    js[j].status = "confirmed" =>
      \E h \in DOMAIN ch : js[j].tx \in ch[h].txs /\ ch[h].ok /\ top - h >= Depth

InPlace(b, ch, top) ==
  /\ b.height \in DOMAIN ch
  /\ ch[b.height] = b.block
  /\ top - b.height >= Depth

\* ... and so does the block a tick has found deep, and that of a confirmed job it rechecks;
\* the head a tick has read was one of this chain's.
BlockDeep(d, js, ch, top) ==
  /\ d.pc = "header" /\ js[d.job].status = "confirmed" => InPlace(d.block, ch, top)
  /\ d.pc = "depth" => d.head \in Nat /\ d.head <= top
  /\ d.pc = "readback" => InPlace(d.block, ch, top) /\ d.block.block.ok

TroubleOK ==
  /\ trouble \in [allowed : [Disturbance -> Nat], seen : [Disturbance -> Nat]]
  /\ Seen("deep") <= trouble.allowed["deep"]

OneTick ==
  /\ daemon = [p \in Daemons |-> daemon[p]]
  /\ \A p \in Daemons : daemon[p].pc # "idle" => locked = p

DeepOK ==
  Seen("deep") = 0 =>
    /\ ConfirmedDeep(jobs, chain, peak)
    /\ \A p \in Daemons : BlockDeep(daemon[p], jobs, chain, peak)

RecordInv ==
  /\ TroubleOK
  /\ Numbered
  /\ OneTick
  /\ JobsOK(jobs, CurrentRoot)
  /\ \A p \in Daemons : DaemonOK(daemon[p], jobs, CurrentRoot)
  /\ ChainOK(chain, peak)
  /\ DeepOK

\* The last element of a set of positions.
LEMMA LastOf ==
  ASSUME NEW n \in Nat, NEW B, B \subseteq 1 .. n, B # {}
  PROVE  Max(B) \in B /\ \A m \in B : m <= Max(B)
<1> DEFINE D == {n - b : b \in B}
<1>1. D \subseteq Nat /\ D # {}
  OBVIOUS
<1>2. PICK d \in D : \A e \in D : ~(<<e, d>> \in OpToRel(<, Nat))
  BY <1>1, NatLessThanWellFounded, WFMin
<1>3. PICK b \in B : d = n - b
  OBVIOUS
<1>4. \A m \in B : m <= b
  <2> TAKE m \in B
  <2>1. n - m \in D /\ n - m \in Nat
    OBVIOUS
  <2>2. ~(n - m < d)
    BY <1>1, <1>2, <2>1 DEF OpToRel
  <2> QED BY <1>3, <2>2
<1>5. \E x \in B : \A m \in B : x >= m
  BY <1>4
<1> QED BY <1>5 DEF Max

LEMMA SeqFacts ==
  ASSUME NEW q, IsSeq(q)
  PROVE  /\ Len(q) \in Nat /\ DOMAIN q = 1 .. Len(q)
         /\ \A x : /\ IsSeq(Append(q, x)) /\ Len(Append(q, x)) = Len(q) + 1
                   /\ Append(q, x)[Len(q) + 1] = x
                   /\ \A i \in 1 .. Len(q) : Append(q, x)[i] = q[i]
         /\ \A n \in 0 .. Len(q) : /\ IsSeq(SubSeq(q, 1, n)) /\ Len(SubSeq(q, 1, n)) = n
                                   /\ \A i \in 1 .. n : SubSeq(q, 1, n)[i] = q[i]
<1>1. PICK S : q \in Seq(S)
  BY DEF IsSeq
<1>2. Len(q) \in Nat /\ DOMAIN q = 1 .. Len(q)
  BY <1>1
<1>3. ASSUME NEW x
      PROVE  /\ IsSeq(Append(q, x)) /\ Len(Append(q, x)) = Len(q) + 1
             /\ Append(q, x)[Len(q) + 1] = x
             /\ \A i \in 1 .. Len(q) : Append(q, x)[i] = q[i]
  <2>1. q \in Seq(S \cup {x})
    BY <1>1
  <2>2. Append(q, x) \in Seq(S \cup {x})
    BY <2>1
  <2> QED BY <2>1, <2>2 DEF IsSeq
<1>4. ASSUME NEW n \in 0 .. Len(q)
      PROVE  /\ IsSeq(SubSeq(q, 1, n)) /\ Len(SubSeq(q, 1, n)) = n
             /\ \A i \in 1 .. n : SubSeq(q, 1, n)[i] = q[i]
  <2>1. SubSeq(q, 1, n) \in Seq(S) /\ Len(SubSeq(q, 1, n)) = n
    BY <1>1, <1>2
  <2> QED BY <1>1, <2>1 DEF IsSeq
<1> QED BY <1>2, <1>3, <1>4

\* The transactions before a height are finitely many, and more of them the higher it is.
LEMMA BeforeGrows ==
  ASSUME NEW ch, NEW h \in Nat, NEW k \in Nat, 1 <= h, h < k, ch[h].txs # {}
  PROVE  /\ Cardinality(Before(ch, h)) \in Nat /\ Cardinality(Before(ch, k)) \in Nat
         /\ Cardinality(Before(ch, h)) < Cardinality(Before(ch, k))
<1>1. \A n \in Nat : IsFiniteSet(Before(ch, n))
  <2> TAKE n \in Nat
  <2>1. IsFiniteSet(1 .. n - 1)
    BY FS_Interval
  <2>2. Before(ch, n) \subseteq 1 .. n - 1
    BY DEF Before
  <2> QED BY <2>1, <2>2, FS_Subset
<1>2. h \notin Before(ch, h) /\ h \in Before(ch, k) /\ Before(ch, h) \subseteq Before(ch, k)
  BY DEF Before
<1>3. Cardinality(Before(ch, h) \cup {h}) = Cardinality(Before(ch, h)) + 1
  BY <1>1, <1>2, FS_AddElement
<1>4. Cardinality(Before(ch, h) \cup {h}) <= Cardinality(Before(ch, k))
  BY <1>1, <1>2, FS_Subset
<1>5. Cardinality(Before(ch, h)) \in Nat /\ Cardinality(Before(ch, k)) \in Nat
  BY <1>1, FS_CardinalityType
<1> QED BY <1>3, <1>4, <1>5

\* So a transaction is in one block.
LEMMA MinedOnce ==
  ASSUME NEW ch, NEW top, ChainOK(ch, top), NEW tx,
         NEW h \in DOMAIN ch, NEW k \in DOMAIN ch, tx \in ch[h].txs, tx \in ch[k].txs
  PROVE  h = k
<1>1. h \in Nat /\ k \in Nat /\ 1 <= h /\ 1 <= k
  BY SeqFacts DEF ChainOK
<1>2. tx.nonce = Cardinality(Before(ch, h)) /\ tx.nonce = Cardinality(Before(ch, k))
  BY DEF ChainOK
<1>5. ch[h].txs # {} /\ ch[k].txs # {}
  OBVIOUS
<1>3. ASSUME h < k PROVE FALSE
  <2>1. Cardinality(Before(ch, h)) \in Nat /\ Cardinality(Before(ch, h)) < Cardinality(Before(ch, k))
    BY <1>1, <1>3, <1>5, BeforeGrows
  <2> QED BY <1>2, <2>1
<1>4. ASSUME k < h PROVE FALSE
  <2>1. Cardinality(Before(ch, k)) \in Nat /\ Cardinality(Before(ch, k)) < Cardinality(Before(ch, h))
    BY <1>1, <1>4, <1>5, BeforeGrows
  <2> QED BY <1>2, <2>1
<1> QED BY <1>1, <1>3, <1>4

\* The receipt found is of that block.
LEMMA ReceiptIs ==
  ASSUME ChainOK(chain, peak), NEW tx, NEW h \in DOMAIN chain, tx \in chain[h].txs
  PROVE  /\ Mined(tx)
         /\ Receipt(tx).height = h /\ Receipt(tx).block = chain[h]
<1>1. \E k \in DOMAIN chain : tx \in chain[k].txs
  OBVIOUS
<1>2. HeightOf(tx) \in DOMAIN chain /\ tx \in chain[HeightOf(tx)].txs
  BY <1>1 DEF HeightOf
<1>3. HeightOf(tx) = h
  BY <1>2, MinedOnce
<1> QED BY <1>1, <1>3 DEF Mined, Receipt

LEMMA ReceiptHolds ==
  ASSUME NEW tx, Mined(tx)
  PROVE  tx \in Receipt(tx).block.txs
<1>1. HeightOf(tx) \in DOMAIN chain /\ tx \in chain[HeightOf(tx)].txs
  BY DEF Mined, HeightOf
<1> QED BY <1>1 DEF Receipt

-----------------------------------------------------------------------------
(* Steps of the chain.                                                     *)

\* What was Depth below the top is still there.
Keeps(ch, top, ch2, top2) ==
  /\ top2 \in Nat /\ top2 >= top
  /\ \A h \in DOMAIN ch : top - h >= Depth => h \in DOMAIN ch2 /\ ch2[h] = ch[h]

\* A new block, with a transaction of the next nonce or none.
LEMMA ExtendStep ==
  ASSUME ChainOK(chain, peak), NEW b, chain' = Append(chain, b), \A t \in b.txs : t.nonce = NextNonce,
         peak' = IF Len(chain) < peak THEN peak ELSE Len(chain) + 1
  PROVE  ChainOK(chain, peak)' /\ Keeps(chain, peak, chain', peak')
<1>1. PICK n \in Nat : n = Len(chain) /\ DOMAIN chain = 1 .. n /\ n <= peak /\ peak \in Nat
  BY SeqFacts DEF ChainOK
<1>3. /\ IsSeq(chain') /\ Len(chain') = n + 1 /\ DOMAIN chain' = 1 .. n + 1
      /\ chain'[n + 1] = b /\ \A i \in 1 .. n : chain'[i] = chain[i]
  <2>1. IsSeq(chain)
    BY DEF ChainOK
  <2>2. /\ IsSeq(chain') /\ Len(chain') = n + 1
        /\ chain'[n + 1] = b /\ \A i \in 1 .. n : chain'[i] = chain[i]
    BY ONLY <1>1, <2>1, chain' = Append(chain, b), SeqFacts
  <2> QED BY <2>2, SeqFacts
<1>4. peak' \in Nat /\ peak' >= peak /\ Len(chain') <= peak'
  BY <1>1, <1>3
<1>5. \A h \in 1 .. n + 1 : Before(chain', h) = Before(chain, h)
  BY <1>3 DEF Before
<1>6. NextNonce = Cardinality(Before(chain, n + 1))
  <2>1. (n + 1) - 1 = n
    OBVIOUS
  <2>2. {h \in DOMAIN chain : chain[h].txs # {}} = Before(chain, n + 1)
    BY <1>1, <2>1 DEF Before
  <2> QED BY <2>2 DEF NextNonce
<1>7. ASSUME NEW h \in DOMAIN chain', NEW t \in chain'[h].txs
      PROVE  t.nonce = Cardinality(Before(chain', h))
  <2>1. CASE h \in 1 .. n
    BY <1>1, <1>3, <1>5, <1>7, <2>1 DEF ChainOK
  <2>2. CASE h = n + 1
    BY <1>3, <1>5, <1>6, <1>7, <2>2
  <2> QED BY <1>3, <2>1, <2>2
<1>8. Keeps(chain, peak, chain', peak')
  BY <1>1, <1>3, <1>4 DEF Keeps
<1> QED BY <1>3, <1>4, <1>7, <1>8 DEF ChainOK

\* A reorg, which keeps what lies Depth below the top unless it is a deep one.
LEMMA ReorgStep ==
  ASSUME ChainOK(chain, peak), NEW n \in 1 .. Len(chain), Reorg(n)
  PROVE  /\ ChainOK(chain, peak)'
         /\ peak - (Len(chain) - n) <= Depth => Keeps(chain, peak, chain', peak')
<1>1. PICK k \in Nat : k = Len(chain) - n /\ k <= Len(chain) /\ k \in 0 .. Len(chain)
  <2>1. Len(chain) \in Nat
    BY SeqFacts DEF ChainOK
  <2>2. Len(chain) - n \in Nat /\ Len(chain) - n <= Len(chain) /\ Len(chain) - n \in 0 .. Len(chain)
    BY <2>1
  <2> QED BY <2>2
<1>2. chain' = SubSeq(chain, 1, k) /\ peak' = peak
  BY <1>1 DEF Reorg
<1>3. /\ IsSeq(chain') /\ Len(chain') = k /\ DOMAIN chain' = 1 .. k
      /\ \A i \in 1 .. k : chain'[i] = chain[i]
  <2>1. IsSeq(chain)
    BY DEF ChainOK
  <2>2. /\ IsSeq(chain') /\ Len(chain') = k
        /\ \A i \in 1 .. k : chain'[i] = chain[i]
    BY ONLY <1>1, <1>2, <2>1, SeqFacts
  <2> QED BY <2>2, SeqFacts
<1>4. Len(chain) \in Nat /\ DOMAIN chain = 1 .. Len(chain) /\ peak \in Nat /\ Len(chain) <= peak
  BY SeqFacts DEF ChainOK
<1>5. \A h \in 1 .. k : Before(chain', h) = Before(chain, h)
  BY <1>3 DEF Before
<1>6. \A h \in DOMAIN chain' : \A t \in chain'[h].txs : t.nonce = Cardinality(Before(chain', h))
  BY <1>1, <1>3, <1>4, <1>5 DEF ChainOK
<1>7. Len(chain') <= peak' /\ peak' \in Nat
  BY <1>1, <1>2, <1>3, <1>4
<1>8. ASSUME peak - k <= Depth PROVE Keeps(chain, peak, chain', peak')
  BY <1>1, <1>2, <1>3, <1>4, <1>8, StatePublisherAssumption DEF Keeps
<1> QED BY <1>1, <1>3, <1>6, <1>7, <1>8 DEF ChainOK

\* Counting a disturbance.
LEMMA DisturbStep ==
  ASSUME TroubleOK, NEW kind \in Disturbance, Disturb(kind)
  PROVE  /\ TroubleOK' /\ trouble'.allowed = trouble.allowed
         /\ Seen(kind)' = Seen(kind) + 1 /\ Seen(kind) \in Nat
         /\ kind # "deep" => Seen("deep")' = Seen("deep")
<1>1. PICK al \in [Disturbance -> Nat], se \in [Disturbance -> Nat] :
        trouble = [allowed |-> al, seen |-> se] /\ trouble.allowed = al /\ trouble.seen = se
  BY DEF TroubleOK
<1>2. "deep" \in Disturbance
  BY DEF Disturbance
<1>3. PICK s2 : s2 = [se EXCEPT ![kind] = se[kind] + 1]
  OBVIOUS
<1>4. s2 \in [Disturbance -> Nat] /\ s2[kind] = se[kind] + 1 /\ (kind # "deep" => s2["deep"] = se["deep"])
  BY <1>2, <1>3
<1>5. trouble' = [allowed |-> al, seen |-> s2]
  BY <1>1, <1>3 DEF Disturb
<1>6. trouble'.allowed = al /\ trouble'.seen = s2 /\ trouble' \in [allowed : [Disturbance -> Nat], seen : [Disturbance -> Nat]]
  BY <1>4, <1>5
<1>7. se[kind] < al[kind] /\ se["deep"] <= al["deep"]
  BY <1>1 DEF Disturb, Seen, TroubleOK
<1>8. s2["deep"] <= al["deep"]
  <2>1. CASE kind = "deep"
    BY <1>2, <1>4, <1>7, <2>1
  <2>2. CASE kind # "deep"
    BY <1>4, <1>7, <2>2
  <2> QED BY <2>1, <2>2
<1>9. TroubleOK'
  BY <1>6, <1>8 DEF TroubleOK, Seen
<1> QED BY <1>1, <1>4, <1>6, <1>9 DEF Seen

\* A step of the chain alone.
LEMMA NodeStep ==
  ASSUME RecordInv, UNCHANGED <<heads, revisions, pubVars>>, ChainOK(chain, peak)', TroubleOK',
         Seen("deep")' = 0 => Seen("deep") = 0 /\ Keeps(chain, peak, chain', peak')
  PROVE  RecordInv'
<1>1. UNCHANGED <<heads, revisions, jobs, locked, daemon>>
  BY DEF pubVars
<1>2. Numbered' /\ OneTick'
  BY <1>1 DEF RecordInv, Numbered, OneTick, HasHead
<1>3. CurrentRoot' = CurrentRoot
  BY <1>1 DEF CurrentRoot, HasHead
<1>4. JobsOK(jobs, CurrentRoot)' /\ \A p \in Daemons : DaemonOK(daemon[p], jobs, CurrentRoot)'
  BY <1>1, <1>3 DEF RecordInv
<1>5. ASSUME Seen("deep")' = 0
      PROVE  /\ ConfirmedDeep(jobs, chain, peak)'
             /\ \A p \in Daemons : BlockDeep(daemon[p], jobs, chain, peak)'
  <2>1. /\ Keeps(chain, peak, chain', peak') /\ ConfirmedDeep(jobs, chain, peak)
        /\ \A p \in Daemons : BlockDeep(daemon[p], jobs, chain, peak)
    BY <1>5 DEF RecordInv, DeepOK
  <2>2. /\ peak \in Nat /\ peak' \in Nat /\ peak' >= peak
        /\ \A h \in DOMAIN chain : h \in Nat
        /\ Depth \in Nat
    BY <2>1, StatePublisherAssumption, SeqFacts DEF RecordInv, ChainOK, Keeps
  <2>3. \A h \in DOMAIN chain : peak - h >= Depth =>
          h \in DOMAIN chain' /\ chain'[h] = chain[h] /\ peak' - h >= Depth
    BY <2>1, <2>2 DEF Keeps
  <2>4. ConfirmedDeep(jobs, chain', peak')
    BY <2>1, <2>3 DEF ConfirmedDeep
  <2>5. ASSUME NEW p \in Daemons PROVE BlockDeep(daemon[p], jobs, chain', peak')
    <3>1. BlockDeep(daemon[p], jobs, chain, peak)
      BY <2>1
    <3>2. daemon[p].pc = "depth" => daemon[p].head \in Nat /\ daemon[p].head <= peak'
      BY <2>2, <3>1 DEF BlockDeep
    <3> QED BY <2>3, <3>1, <3>2 DEF BlockDeep, InPlace
  <2> QED BY <1>1, <2>4, <2>5
<1>6. DeepOK'
  BY <1>5 DEF DeepOK
<1> QED BY <1>2, <1>4, <1>6 DEF RecordInv

LEMMA ChainSteps ==
  ASSUME RecordInv,
         \/ MineEmpty
         \/ \E tx \in pool, ok \in BOOLEAN : MineTx(tx, ok)
         \/ \E n \in 1 .. Len(chain) : Reorg(n)
         \/ \E tx \in pool : DropTx(tx)
         \/ ForeignTx
  PROVE  RecordInv'
<1>1. {"reverts", "reorgs", "deep", "dropped", "foreign"} \subseteq Disturbance
  BY DEF Disturbance
<1>2. TroubleOK /\ ChainOK(chain, peak)
  BY DEF RecordInv
<1>3. CASE MineEmpty
  <2>1. Extend({}, TRUE) /\ UNCHANGED <<heads, revisions, pubVars, trouble>>
    BY <1>3 DEF MineEmpty, stateVars
  <2>4. PICK b : b = [txs |-> {}, ok |-> TRUE, fork |-> forks]
    OBVIOUS
  <2>5. /\ chain' = Append(chain, b) /\ \A t \in b.txs : t.nonce = NextNonce
        /\ peak' = IF Len(chain) < peak THEN peak ELSE Len(chain) + 1
    BY <2>1, <2>4 DEF Extend
  <2>2. ChainOK(chain, peak)' /\ Keeps(chain, peak, chain', peak')
    BY <1>2, <2>5, ExtendStep
  <2>3. TroubleOK' /\ Seen("deep")' = Seen("deep")
    BY <1>2, <2>1 DEF TroubleOK, Seen
  <2> QED BY <2>1, <2>2, <2>3, NodeStep
<1>4. ASSUME NEW tx \in pool, NEW ok \in BOOLEAN, MineTx(tx, ok) PROVE RecordInv'
  <2>1. Extend({tx}, ok) /\ tx.nonce = NextNonce /\ UNCHANGED <<heads, revisions, pubVars>>
    BY <1>4 DEF MineTx, stateVars
  <2>4. PICK b : b = [txs |-> {tx}, ok |-> ok, fork |-> forks]
    OBVIOUS
  <2>5. /\ chain' = Append(chain, b) /\ \A t \in b.txs : t.nonce = NextNonce
        /\ peak' = IF Len(chain) < peak THEN peak ELSE Len(chain) + 1
    BY <2>1, <2>4 DEF Extend
  <2>2. ChainOK(chain, peak)' /\ Keeps(chain, peak, chain', peak')
    BY <1>2, <2>5, ExtendStep
  <2>3. TroubleOK' /\ Seen("deep")' = Seen("deep")
    <3>1. CASE UNCHANGED trouble
      BY <1>2, <3>1 DEF TroubleOK, Seen
    <3>2. CASE Disturb("reverts")
      BY <1>1, <1>2, <3>2, DisturbStep
    <3> QED BY <1>4, <3>1, <3>2 DEF MineTx
  <2> QED BY <2>1, <2>2, <2>3, NodeStep
<1>5. ASSUME NEW n \in 1 .. Len(chain), Reorg(n) PROVE RecordInv'
  <2>1. UNCHANGED <<heads, revisions, pubVars>>
    BY <1>5 DEF Reorg, stateVars
  <2>2. /\ ChainOK(chain, peak)'
        /\ peak - (Len(chain) - n) <= Depth => Keeps(chain, peak, chain', peak')
    BY <1>2, <1>5, ReorgStep
  <2>3. CASE peak - (Len(chain) - n) <= Depth
    <3>1. Disturb("reorgs")
      BY <1>5, <2>3 DEF Reorg
    <3>2. TroubleOK' /\ Seen("deep")' = Seen("deep")
      BY <1>1, <1>2, <3>1, DisturbStep
    <3> QED BY <2>1, <2>2, <2>3, <3>2, NodeStep
  <2>4. CASE ~(peak - (Len(chain) - n) <= Depth)
    <3>1. Disturb("deep")
      BY <1>5, <2>4 DEF Reorg
    <3>2. TroubleOK' /\ Seen("deep")' = Seen("deep") + 1 /\ Seen("deep") \in Nat
      BY <1>1, <1>2, <3>1, DisturbStep
    <3>3. Seen("deep")' # 0
      BY <3>2
    <3> QED BY <2>1, <2>2, <3>2, <3>3, NodeStep
  <2> QED BY <2>3, <2>4
<1>6. ASSUME NEW tx \in pool, DropTx(tx) PROVE RecordInv'
  <2>1. UNCHANGED <<heads, revisions, pubVars, chain, peak>> /\ Disturb("dropped")
    BY <1>6 DEF DropTx, stateVars
  <2>2. TroubleOK' /\ Seen("deep")' = Seen("deep")
    BY <1>1, <1>2, <2>1, DisturbStep
  <2>3. ChainOK(chain, peak)' /\ Keeps(chain, peak, chain', peak')
    BY <1>2, <2>1 DEF ChainOK, Keeps
  <2> QED BY <2>1, <2>2, <2>3, NodeStep
<1>7. CASE ForeignTx
  <2>1. Extend({[nonce |-> NextNonce, root |-> None]}, TRUE) /\ UNCHANGED <<heads, revisions, pubVars>> /\ Disturb("foreign")
    BY <1>7 DEF ForeignTx, stateVars
  <2>2. PICK b : b = [txs |-> {[nonce |-> NextNonce, root |-> None]}, ok |-> TRUE, fork |-> forks]
    OBVIOUS
  <2>5. /\ chain' = Append(chain, b) /\ \A t \in b.txs : t.nonce = NextNonce
        /\ peak' = IF Len(chain) < peak THEN peak ELSE Len(chain) + 1
    BY <2>1, <2>2 DEF Extend
  <2>3. ChainOK(chain, peak)' /\ Keeps(chain, peak, chain', peak')
    BY <1>2, <2>5, ExtendStep
  <2>4. TroubleOK' /\ Seen("deep")' = Seen("deep")
    BY <1>1, <1>2, <2>1, DisturbStep
  <2> QED BY <2>1, <2>3, <2>4, NodeStep
<1> QED BY <1>3, <1>4, <1>5, <1>6, <1>7

-----------------------------------------------------------------------------
(* Steps of a tick.                                                        *)

LEMMA IdleOK ==
  ASSUME NEW js, NEW cut
  PROVE  /\ Idle.pc = "idle" /\ DaemonOK(Idle, js, cut)
         /\ \A ch, top : BlockDeep(Idle, js, ch, top)
BY DEF Idle, Doing, DaemonOK, BlockDeep

\* While one tick runs the others are idle.
LEMMA Alone ==
  ASSUME OneTick, NEW p \in Daemons, locked = None \/ daemon[p].pc # "idle"
  PROVE  \A q \in Daemons \ {p} : daemon[q].pc = "idle"
BY StatePublisherAssumption DEF OneTick

\* One daemon moves, the jobs perhaps with it.
LEMMA TickMoves ==
  ASSUME RecordInv, NEW p \in Daemons, UNCHANGED <<heads, revisions, chain, peak>>,
         TroubleOK', Seen("deep")' = Seen("deep"),
         NEW d, daemon' = [daemon EXCEPT ![p] = d],
         \A q \in Daemons \ {p} : daemon[q].pc = "idle",
         d.pc # "idle" => locked' = p,
         JobsOK(jobs', CurrentRoot), DaemonOK(d, jobs', CurrentRoot),
         Seen("deep") = 0 => ConfirmedDeep(jobs', chain, peak) /\ BlockDeep(d, jobs', chain, peak)
  PROVE  RecordInv'
<1>2. CurrentRoot' = CurrentRoot /\ Numbered'
  BY DEF CurrentRoot, HasHead, RecordInv, Numbered
<1>3. daemon' = [q \in Daemons |-> IF q = p THEN d ELSE daemon[q]]
  BY DEF RecordInv, OneTick
<1>4. OneTick'
  BY <1>3 DEF OneTick
<1>5. \A q \in Daemons : daemon'[q] = d \/ (daemon'[q] = daemon[q] /\ daemon[q].pc = "idle")
  BY <1>3
<1>6. \A q \in Daemons : DaemonOK(daemon'[q], jobs', CurrentRoot)
  <2>1. \A q \in Daemons : daemon[q].pc = "idle" => DaemonOK(daemon[q], jobs', CurrentRoot)
    BY DEF RecordInv, DaemonOK
  <2> QED BY <1>5, <2>1
<1>7. Seen("deep") = 0 => \A q \in Daemons : BlockDeep(daemon'[q], jobs', chain, peak)
  <2>1. \A q \in Daemons : daemon[q].pc = "idle" => BlockDeep(daemon[q], jobs', chain, peak)
    BY DEF BlockDeep
  <2> QED BY <1>5, <2>1
<1>8. DeepOK'
  BY <1>7 DEF DeepOK
<1>9. ChainOK(chain, peak)'
  BY DEF RecordInv, ChainOK
<1> QED BY <1>2, <1>4, <1>6, <1>8, <1>9 DEF RecordInv

\* A tick returns and the jobs stay.
LEMMA EndStep ==
  ASSUME RecordInv, NEW p \in Daemons, UNCHANGED <<heads, revisions, chain, peak, jobs>>, End(p), daemon[p].pc # "idle",
         TroubleOK', Seen("deep")' = Seen("deep")
  PROVE  RecordInv'
<1>1. \A q \in Daemons \ {p} : daemon[q].pc = "idle"
  BY Alone DEF RecordInv
<1>2. PICK d : d = Idle /\ daemon' = [daemon EXCEPT ![p] = d]
  BY DEF End
<1>3. d.pc = "idle" /\ DaemonOK(d, jobs', CurrentRoot) /\ BlockDeep(d, jobs', chain, peak)
  BY <1>2, IdleOK
<1>4. JobsOK(jobs', CurrentRoot)
  BY DEF RecordInv
<1>5. Seen("deep") = 0 => ConfirmedDeep(jobs', chain, peak)
  BY DEF RecordInv, DeepOK
<1> QED BY <1>1, <1>2, <1>3, <1>4, <1>5, TickMoves

\* A tick goes on and the jobs stay.
LEMMA GoStep ==
  ASSUME RecordInv, NEW p \in Daemons, UNCHANGED <<heads, revisions, chain, peak, trouble, jobs>>,
         locked = None \/ daemon[p].pc # "idle",
         NEW d, Go(p, d), DaemonOK(d, jobs, CurrentRoot),
         Seen("deep") = 0 => BlockDeep(d, jobs, chain, peak)
  PROVE  RecordInv'
<1>1. \A q \in Daemons \ {p} : daemon[q].pc = "idle"
  BY Alone DEF RecordInv
<1>2. daemon' = [daemon EXCEPT ![p] = d] /\ locked' = p
  BY DEF Go
<1>3. TroubleOK' /\ Seen("deep")' = Seen("deep")
  BY DEF RecordInv, TroubleOK, Seen
<1>4. JobsOK(jobs', CurrentRoot) /\ DaemonOK(d, jobs', CurrentRoot)
  BY DEF RecordInv
<1>5. Seen("deep") = 0 => ConfirmedDeep(jobs', chain, peak) /\ BlockDeep(d, jobs', chain, peak)
  BY DEF RecordInv, DeepOK
<1> QED BY <1>1, <1>2, <1>3, <1>4, <1>5, TickMoves

\* Marking a job leaves its transaction and the other jobs alone.
LEMMA Marked ==
  ASSUME NEW p, NEW st, Mark(p, st), NEW cut, JobsOK(jobs, cut), NEW j \in DOMAIN jobs, j = daemon[p].job
  PROVE  /\ JobsOK(jobs', cut) /\ DOMAIN jobs' = DOMAIN jobs
         /\ jobs'[j].status = st
         /\ \A k \in DOMAIN jobs : jobs'[k].tx = jobs[k].tx
         /\ \A k \in DOMAIN jobs \ {j} : jobs'[k] = jobs[k]
<1>1. PICK x : x = [tx |-> jobs[j].tx, status |-> st]
  OBVIOUS
<1>2. [jobs[j] EXCEPT !.status = st] = x
  BY <1>1 DEF JobsOK
<1>3. jobs' = [jobs EXCEPT ![j] = x]
  BY <1>2 DEF Mark
<1>4. jobs' = [k \in DOMAIN jobs |-> IF k = j THEN x ELSE jobs[k]]
  BY <1>3
<1>5. IsSeq(jobs')
  <2>1. PICK S : jobs \in Seq(S)
    BY DEF JobsOK, IsSeq
  <2>2. jobs' \in Seq(S \cup {x})
    BY <1>4, <2>1
  <2> QED BY <2>2 DEF IsSeq
<1>6. DOMAIN jobs' = DOMAIN jobs /\ \A k \in DOMAIN jobs : jobs'[k].tx = jobs[k].tx
  BY <1>1, <1>4
<1>7. \A k \in DOMAIN jobs' : jobs'[k] = [tx |-> jobs'[k].tx, status |-> jobs'[k].status]
  BY <1>1, <1>4 DEF JobsOK
<1>8. JobsOK(jobs', cut)
  BY <1>5, <1>6, <1>7 DEF JobsOK
<1> QED BY <1>1, <1>4, <1>6, <1>8

\* A tick marks its job and returns.
LEMMA MarkStep ==
  ASSUME RecordInv, NEW p \in Daemons, UNCHANGED <<heads, revisions, chain, peak, trouble>>,
         daemon[p].pc # "idle", daemon[p].job \in DOMAIN jobs, NEW st, Mark(p, st), End(p),
         Seen("deep") = 0 /\ st = "confirmed" =>
           \E h \in DOMAIN chain : Job(p).tx \in chain[h].txs /\ chain[h].ok /\ peak - h >= Depth
  PROVE  RecordInv'
<1>1. \A q \in Daemons \ {p} : daemon[q].pc = "idle"
  BY Alone DEF RecordInv
<1>2. PICK d : d = Idle /\ daemon' = [daemon EXCEPT ![p] = d]
  BY DEF End
<1>3. d.pc = "idle" /\ DaemonOK(d, jobs', CurrentRoot) /\ BlockDeep(d, jobs', chain, peak)
  BY <1>2, IdleOK
<1>4. PICK j \in DOMAIN jobs : j = daemon[p].job
  OBVIOUS
<1>5. /\ JobsOK(jobs', CurrentRoot) /\ DOMAIN jobs' = DOMAIN jobs
      /\ jobs'[j].status = st
      /\ \A k \in DOMAIN jobs : jobs'[k].tx = jobs[k].tx
      /\ \A k \in DOMAIN jobs \ {j} : jobs'[k] = jobs[k]
  BY <1>4, Marked DEF RecordInv
<1>6. Seen("deep") = 0 => ConfirmedDeep(jobs', chain, peak)
  <2> SUFFICES ASSUME Seen("deep") = 0, NEW k \in DOMAIN jobs', jobs'[k].status = "confirmed"
               PROVE  \E h \in DOMAIN chain : jobs'[k].tx \in chain[h].txs /\ chain[h].ok /\ peak - h >= Depth
    BY DEF ConfirmedDeep
  <2>1. CASE k = j
    BY <1>4, <1>5, <2>1 DEF Job
  <2>2. CASE k # j
    BY <1>5, <2>2 DEF RecordInv, DeepOK, ConfirmedDeep
  <2> QED BY <2>1, <2>2
<1>7. TroubleOK' /\ Seen("deep")' = Seen("deep")
  BY DEF RecordInv, TroubleOK, Seen
<1> QED BY <1>1, <1>2, <1>3, <1>5, <1>6, <1>7, TickMoves

\* The cut of all heads has each head's revision.
CutOfHeads ==
  /\ Rooted(CurrentRoot)
  /\ \A a \in Accounts : RevisionsOf(CurrentRoot)[a] = IF HasHead(a) THEN heads[a].id.revision ELSE 0

LEMMA CurrentRooted == Numbered => CutOfHeads
<1> SUFFICES ASSUME Numbered PROVE CutOfHeads
  OBVIOUS
<1>1. DOMAIN CurrentRoot = {a \in Accounts : HasHead(a)} /\ \A a \in DOMAIN CurrentRoot : CurrentRoot[a] = heads[a].id
  BY DEF CurrentRoot
<1>2. \A a \in Accounts : RevisionsOf(CurrentRoot)[a] = IF HasHead(a) THEN heads[a].id.revision ELSE 0
  BY <1>1 DEF RevisionsOf
<1>3. \A a \in Accounts : RevisionsOf(CurrentRoot)[a] \in Nat
  BY <1>2 DEF Numbered
<1>4. RevisionsOf(CurrentRoot) = [a \in Accounts |-> RevisionsOf(CurrentRoot)[a]]
  BY DEF RevisionsOf
<1> QED BY <1>2, <1>3, <1>4 DEF Rooted, CutOfHeads

LEMMA UptoSelf ==
  ASSUME NEW r, Rooted(r)
  PROVE  Upto(r, r)
BY DEF Rooted, Upto

LEMMA StartStep ==
  ASSUME RecordInv, NEW p \in Daemons, NEW build \in BOOLEAN, StartTick(p, build)
  PROVE  RecordInv'
<1> DEFINE pending == {j \in DOMAIN jobs : jobs[j].status = "pending"}
           n == Len(jobs)
<1>1. UNCHANGED <<heads, revisions, chain, peak, trouble, jobs>> /\ locked = None
  BY DEF StartTick, nodeVars, stateVars
<1>2. n \in Nat /\ DOMAIN jobs = 1 .. n
  BY SeqFacts DEF RecordInv, JobsOK
<1>3. \/ pending # {} /\ Go(p, Doing("settle", build, Max(pending)))
      \/ n > 0 /\ Go(p, Doing("recheck", build, n))
      \/ Go(p, Doing("build", build, 0))
  BY DEF StartTick
<1>4. CASE pending # {} /\ Go(p, Doing("settle", build, Max(pending)))
  <2>1. Max(pending) \in pending
    BY <1>2, <1>4, LastOf
  <2>2. PICK d : d = Doing("settle", build, Max(pending)) /\ Go(p, d)
    BY <1>4
  <2>3. DaemonOK(d, jobs, CurrentRoot) /\ BlockDeep(d, jobs, chain, peak)
    BY <2>1, <2>2 DEF DaemonOK, BlockDeep, Doing
  <2> QED BY <1>1, <2>2, <2>3, GoStep
<1>5. CASE n > 0 /\ Go(p, Doing("recheck", build, n))
  <2>2. PICK d : d = Doing("recheck", build, n) /\ Go(p, d)
    BY <1>5
  <2>3. DaemonOK(d, jobs, CurrentRoot) /\ BlockDeep(d, jobs, chain, peak)
    BY <1>2, <1>5, <2>2 DEF DaemonOK, BlockDeep, Doing
  <2> QED BY <1>1, <2>2, <2>3, GoStep
<1>6. CASE Go(p, Doing("build", build, 0))
  <2>2. PICK d : d = Doing("build", build, 0) /\ Go(p, d)
    BY <1>6
  <2>3. DaemonOK(d, jobs, CurrentRoot) /\ BlockDeep(d, jobs, chain, peak)
    BY <2>2 DEF DaemonOK, BlockDeep, Doing
  <2> QED BY <1>1, <2>2, <2>3, GoStep
<1> QED BY <1>3, <1>4, <1>5, <1>6

LEMMA RecheckSteps ==
  ASSUME RecordInv, NEW p \in Daemons, RecheckReceipt(p) \/ RecheckHeader(p)
  PROVE  RecordInv'
<1>1. UNCHANGED <<heads, revisions, chain, peak, trouble>> /\ daemon[p].pc # "idle"
  BY DEF RecheckReceipt, RecheckHeader, nodeVars, stateVars, At
<1>2. PICK d : d = daemon[p] /\ DaemonOK(d, jobs, CurrentRoot) /\ (Seen("deep") = 0 => BlockDeep(d, jobs, chain, peak))
  BY DEF RecordInv, DeepOK
<1>3. d.pc \in {"recheck", "header"} /\ d.job \in DOMAIN jobs
  BY <1>2 DEF RecheckReceipt, RecheckHeader, At, DaemonOK
<1>4. CASE Mark(p, "pending") /\ End(p)
  BY <1>1, <1>2, <1>3, <1>4, MarkStep
<1>5. CASE End(p) /\ UNCHANGED jobs
  <2>1. TroubleOK' /\ Seen("deep")' = Seen("deep")
    BY <1>1 DEF RecordInv, TroubleOK, Seen
  <2> QED BY <1>1, <1>5, <2>1, EndStep
<1>6. CASE /\ Mined(Job(p).tx) /\ UNCHANGED jobs
           /\ Go(p, [daemon[p] EXCEPT !.pc = "header", !.block = Receipt(Job(p).tx)])
  <2>1. PICK r : r = Receipt(Job(p).tx)
    OBVIOUS
  <2>2. PICK e : e = [d EXCEPT !.pc = "header", !.block = r] /\ Go(p, e)
    BY <1>2, <1>6, <2>1
  <2>3. e = [pc |-> "header", build |-> d.build, root |-> d.root, nonce |-> d.nonce, job |-> d.job, block |-> r, head |-> d.head]
    BY <1>2, <2>2 DEF DaemonOK
  <2>4. Job(p).tx \in r.block.txs /\ Job(p) = jobs[d.job]
    BY <1>2, <1>6, <2>1, ReceiptHolds DEF Job
  <2>5. DaemonOK(e, jobs, CurrentRoot)
    BY <1>3, <2>3, <2>4 DEF DaemonOK
  <2>6. ASSUME Seen("deep") = 0, jobs[d.job].status = "confirmed" PROVE InPlace(r, chain, peak)
    <3>1. PICK h \in DOMAIN chain : jobs[d.job].tx \in chain[h].txs /\ peak - h >= Depth
      BY <1>3, <2>6 DEF RecordInv, DeepOK, ConfirmedDeep
    <3>2. r.height = h /\ r.block = chain[h]
      BY <2>1, <2>4, <3>1, ReceiptIs DEF RecordInv
    <3> QED BY <3>1, <3>2 DEF InPlace
  <2>7. Seen("deep") = 0 => BlockDeep(e, jobs, chain, peak)
    BY <2>3, <2>6 DEF BlockDeep
  <2> QED BY <1>1, <1>6, <2>2, <2>5, <2>7, GoStep
<1>7. CASE UNCHANGED jobs /\ Go(p, [daemon[p] EXCEPT !.pc = "build"])
  <2>2. PICK e : e = [d EXCEPT !.pc = "build"] /\ Go(p, e)
    BY <1>2, <1>7
  <2>3. e = [pc |-> "build", build |-> d.build, root |-> d.root, nonce |-> d.nonce, job |-> d.job, block |-> d.block, head |-> d.head]
    BY <1>2, <2>2 DEF DaemonOK
  <2>4. DaemonOK(e, jobs, CurrentRoot) /\ BlockDeep(e, jobs, chain, peak)
    BY <2>3 DEF DaemonOK, BlockDeep
  <2> QED BY <1>1, <1>7, <2>2, <2>4, GoStep
<1> QED BY <1>4, <1>5, <1>6, <1>7 DEF RecheckReceipt, RecheckHeader

LEMMA BuildSteps ==
  ASSUME RecordInv, NEW p \in Daemons, BuildForRecord(p) \/ ReadRecord(p) \/ SignTx(p)
  PROVE  RecordInv'
<1>1. UNCHANGED <<heads, revisions, chain, peak, trouble, jobs>> /\ daemon[p].pc # "idle"
  BY DEF BuildForRecord, ReadRecord, SignTx, nodeVars, stateVars, At
<1>2. PICK d : d = daemon[p] /\ DaemonOK(d, jobs, CurrentRoot)
  BY DEF RecordInv
<1>3. CASE End(p)
  <2>1. TroubleOK' /\ Seen("deep")' = Seen("deep")
    BY <1>1 DEF RecordInv, TroubleOK, Seen
  <2> QED BY <1>1, <1>3, <2>1, EndStep
<1>4. CASE Go(p, [daemon[p] EXCEPT !.pc = "record", !.root = CurrentRoot])
  <2>1. PICK r : r = CurrentRoot
    OBVIOUS
  <2>2. PICK e : e = [d EXCEPT !.pc = "record", !.root = r] /\ Go(p, e)
    BY <1>2, <1>4, <2>1
  <2>3. e = [pc |-> "record", build |-> d.build, root |-> r, nonce |-> d.nonce, job |-> d.job, block |-> d.block, head |-> d.head]
    BY <1>2, <2>2 DEF DaemonOK
  <2>4. Rooted(r) /\ Upto(r, r) /\ \A j \in DOMAIN jobs : Upto(jobs[j].tx.root, r)
    BY <2>1, CurrentRooted, UptoSelf DEF RecordInv, JobsOK, CutOfHeads
  <2>5. DaemonOK(e, jobs, CurrentRoot) /\ BlockDeep(e, jobs, chain, peak)
    BY <2>1, <2>3, <2>4 DEF DaemonOK, BlockDeep
  <2> QED BY <1>1, <2>2, <2>5, GoStep
<1>5. CASE ReadRecord(p) /\ Go(p, [daemon[p] EXCEPT !.pc = "sign"])
  <2>2. PICK e : e = [d EXCEPT !.pc = "sign"] /\ Go(p, e)
    BY <1>2, <1>5
  <2>3. e = [pc |-> "sign", build |-> d.build, root |-> d.root, nonce |-> d.nonce, job |-> d.job, block |-> d.block, head |-> d.head]
    BY <1>2, <2>2 DEF DaemonOK
  <2>4. d.pc = "record"
    BY <1>2, <1>5 DEF ReadRecord, At
  <2>5. DaemonOK(e, jobs, CurrentRoot) /\ BlockDeep(e, jobs, chain, peak)
    BY <1>2, <2>3, <2>4 DEF DaemonOK, BlockDeep
  <2> QED BY <1>1, <2>2, <2>5, GoStep
<1>6. CASE SignTx(p)
  <2>1. PICK n : n = PendingNonce
    OBVIOUS
  <2>2. PICK e : e = [d EXCEPT !.pc = "save", !.nonce = n] /\ Go(p, e)
    BY <1>2, <1>6, <2>1 DEF SignTx
  <2>3. e = [pc |-> "save", build |-> d.build, root |-> d.root, nonce |-> n, job |-> d.job, block |-> d.block, head |-> d.head]
    BY <1>2, <2>2 DEF DaemonOK
  <2>4. d.pc = "sign"
    BY <1>2, <1>6 DEF SignTx, At
  <2>5. DaemonOK(e, jobs, CurrentRoot) /\ BlockDeep(e, jobs, chain, peak)
    BY <1>2, <2>3, <2>4 DEF DaemonOK, BlockDeep
  <2> QED BY <1>1, <2>2, <2>5, GoStep
<1> QED BY <1>3, <1>4, <1>5, <1>6 DEF BuildForRecord, ReadRecord

\* SaveStatePublication: the new job's root is the newest cut.
LEMMA SaveStep ==
  ASSUME RecordInv, NEW p \in Daemons, SaveJob(p)
  PROVE  RecordInv'
<1>1. UNCHANGED <<heads, revisions, chain, peak, trouble>> /\ daemon[p].pc = "save"
  BY DEF SaveJob, nodeVars, stateVars, At
<1>2. TroubleOK' /\ Seen("deep")' = Seen("deep")
  BY <1>1 DEF RecordInv, TroubleOK, Seen
<1>3. PICK d : d = daemon[p] /\ DaemonOK(d, jobs, CurrentRoot) /\ d.pc = "save"
  BY <1>1 DEF RecordInv
<1>4. CASE End(p) /\ UNCHANGED jobs
  BY <1>1, <1>2, <1>4, EndStep
<1>5. CASE /\ jobs' = Append(jobs, [tx |-> [nonce |-> daemon[p].nonce, root |-> daemon[p].root], status |-> "pending"])
           /\ Go(p, [daemon[p] EXCEPT !.pc = "settle", !.job = Len(jobs) + 1])
  <2>1. PICK x : x = [tx |-> [nonce |-> d.nonce, root |-> d.root], status |-> "pending"] /\ jobs' = Append(jobs, x)
    BY <1>3, <1>5
  <2>2. PICK n \in Nat : n = Len(jobs) /\ DOMAIN jobs = 1 .. n /\ IsSeq(jobs)
    BY SeqFacts DEF RecordInv, JobsOK
  <2>3. /\ IsSeq(jobs') /\ DOMAIN jobs' = 1 .. n + 1
        /\ jobs'[n + 1] = x /\ \A j \in 1 .. n : jobs'[j] = jobs[j]
    <3>1. IsSeq(jobs') /\ Len(jobs') = n + 1 /\ jobs'[n + 1] = x /\ \A j \in 1 .. n : jobs'[j] = jobs[j]
      BY ONLY <2>1, <2>2, SeqFacts
    <3> QED BY <3>1, SeqFacts
  <2>4. PICK e : e = [d EXCEPT !.pc = "settle", !.job = n + 1] /\ Go(p, e)
    BY <1>3, <1>5, <2>2
  <2>5. e = [pc |-> "settle", build |-> d.build, root |-> d.root, nonce |-> d.nonce, job |-> n + 1, block |-> d.block, head |-> d.head]
    BY <1>3, <2>4 DEF DaemonOK
  <2>6. /\ x = [tx |-> x.tx, status |-> x.status] /\ x.tx.root = d.root /\ x.status = "pending"
    BY <2>1
  <2>7. /\ Rooted(d.root) /\ Upto(d.root, CurrentRoot) /\ \A j \in 1 .. n : Upto(jobs[j].tx.root, d.root)
        /\ Upto(d.root, d.root)
    BY <1>3, <2>2, UptoSelf DEF DaemonOK
  <2>8. JobsOK(jobs', CurrentRoot)
    <3>1. ASSUME NEW j \in DOMAIN jobs'
          PROVE  /\ jobs'[j] = [tx |-> jobs'[j].tx, status |-> jobs'[j].status]
                 /\ Rooted(jobs'[j].tx.root) /\ Upto(jobs'[j].tx.root, CurrentRoot)
      <4>1. CASE j \in 1 .. n
        BY <2>2, <2>3, <4>1 DEF RecordInv, JobsOK
      <4>2. CASE j = n + 1
        BY <2>3, <2>6, <2>7, <4>2
      <4> QED BY <2>3, <4>1, <4>2
    <3>2. ASSUME NEW j \in DOMAIN jobs', NEW k \in DOMAIN jobs', j <= k
          PROVE  Upto(jobs'[j].tx.root, jobs'[k].tx.root)
      <4>1. CASE k \in 1 .. n
        <5>1. j \in 1 .. n
          BY <2>3, <3>2, <4>1
        <5> QED BY <2>2, <2>3, <3>2, <4>1, <5>1 DEF RecordInv, JobsOK
      <4>2. CASE k = n + 1
        <5>1. jobs'[k].tx.root = d.root
          BY <2>3, <2>6, <4>2
        <5>2. CASE j \in 1 .. n
          BY <2>3, <2>7, <5>1, <5>2
        <5>3. CASE j = n + 1
          BY <2>3, <2>6, <2>7, <5>1, <5>3
        <5> QED BY <2>3, <5>2, <5>3
      <4> QED BY <2>3, <4>1, <4>2
    <3> QED BY <2>3, <3>1, <3>2 DEF JobsOK
  <2>9. DaemonOK(e, jobs', CurrentRoot) /\ BlockDeep(e, jobs', chain, peak)
    BY <2>3, <2>5, <2>6 DEF DaemonOK, BlockDeep
  <2>10. Seen("deep") = 0 => ConfirmedDeep(jobs', chain, peak)
    <3> SUFFICES ASSUME Seen("deep") = 0, NEW j \in DOMAIN jobs', jobs'[j].status = "confirmed"
                 PROVE  \E h \in DOMAIN chain : jobs'[j].tx \in chain[h].txs /\ chain[h].ok /\ peak - h >= Depth
      BY DEF ConfirmedDeep
    <3>1. j \in 1 .. n
      BY <2>3, <2>6
    <3> QED BY <2>2, <2>3, <3>1 DEF RecordInv, DeepOK, ConfirmedDeep
  <2>11. \A q \in Daemons \ {p} : daemon[q].pc = "idle"
    BY <1>1, Alone DEF RecordInv
  <2>12. daemon' = [daemon EXCEPT ![p] = e] /\ locked' = p
    BY <2>4 DEF Go
  <2> QED BY <1>1, <1>2, <2>8, <2>9, <2>10, <2>11, <2>12, TickMoves
<1> QED BY <1>4, <1>5 DEF SaveJob

\* settle: a receipt is confirmed only when its block is canonical and deep, and stays so
\* until the record has been read back.
LEMMA SettleSteps ==
  ASSUME RecordInv, NEW p \in Daemons, Resend(p) \/ ReadReceipt(p) \/ HeadBlock(p) \/ CheckDepth(p) \/ Readback(p)
  PROVE  RecordInv'
<1>1. UNCHANGED <<heads, revisions, chain, peak, trouble>> /\ daemon[p].pc # "idle"
  BY DEF Resend, ReadReceipt, HeadBlock, CheckDepth, Readback, nodeVars, stateVars, At
<1>2. TroubleOK' /\ Seen("deep")' = Seen("deep")
  BY <1>1 DEF RecordInv, TroubleOK, Seen
<1>3. PICK d : d = daemon[p] /\ DaemonOK(d, jobs, CurrentRoot) /\ (Seen("deep") = 0 => BlockDeep(d, jobs, chain, peak))
  BY DEF RecordInv, DeepOK
<1>4. d.pc \in {"settle", "head", "depth", "readback"} /\ d.job \in DOMAIN jobs /\ jobs[d.job].status = "pending"
      /\ Job(p) = jobs[d.job]
  BY <1>3 DEF Resend, ReadReceipt, HeadBlock, CheckDepth, Readback, At, DaemonOK, Job
<1>5. CASE End(p) /\ UNCHANGED jobs
  BY <1>1, <1>2, <1>5, EndStep
<1>6. CASE Mark(p, "failed") /\ End(p)
  BY <1>1, <1>3, <1>4, <1>6, MarkStep
<1>7. CASE ReadReceipt(p)
  <2>1. PICK r : r = Receipt(Job(p).tx)
    OBVIOUS
  <2>2. PICK e : e = [d EXCEPT !.pc = "head", !.block = r] /\ Go(p, e)
    BY <1>3, <1>7, <2>1 DEF ReadReceipt
  <2>3. e = [pc |-> "head", build |-> d.build, root |-> d.root, nonce |-> d.nonce, job |-> d.job, block |-> r, head |-> d.head]
    BY <1>3, <2>2 DEF DaemonOK
  <2>4. jobs[d.job].tx \in r.block.txs
    BY <1>4, <1>7, <2>1, ReceiptHolds DEF ReadReceipt
  <2>5. DaemonOK(e, jobs, CurrentRoot) /\ BlockDeep(e, jobs, chain, peak)
    BY <1>4, <2>3, <2>4 DEF DaemonOK, BlockDeep
  <2>6. UNCHANGED jobs
    BY <1>7 DEF ReadReceipt
  <2> QED BY <1>1, <2>2, <2>5, <2>6, GoStep
<1>8. CASE CheckDepth(p) /\ Deep(p, Depth) /\ daemon[p].block.block.ok /\ UNCHANGED jobs
           /\ Go(p, [daemon[p] EXCEPT !.pc = "readback"])
  <2>2. PICK e : e = [d EXCEPT !.pc = "readback"] /\ Go(p, e)
    BY <1>3, <1>8
  <2>3. e = [pc |-> "readback", build |-> d.build, root |-> d.root, nonce |-> d.nonce, job |-> d.job, block |-> d.block,
             head |-> d.head]
    BY <1>3, <2>2 DEF DaemonOK
  <2>4. d.pc = "depth" /\ d.block.block.ok
    BY <1>3, <1>8 DEF CheckDepth, At
  <2>5. Seen("deep") = 0 => InPlace(d.block, chain, peak)
    <3>1. peak \in Nat /\ (DOMAIN chain = 1 .. Len(chain)) /\ Len(chain) \in Nat /\ Depth \in Nat
      BY SeqFacts, StatePublisherAssumption DEF RecordInv, ChainOK
    <3>2. d.block.height \in DOMAIN chain /\ chain[d.block.height] = d.block.block
          /\ d.head - d.block.height >= Depth
      BY <1>3, <1>8 DEF Deep, Canonical, Answered
    <3>3. ASSUME Seen("deep") = 0 PROVE peak - d.block.height >= Depth
      <4>1. d.head \in Nat /\ d.head <= peak
        BY <1>3, <2>4, <3>3 DEF BlockDeep
      <4> QED BY <3>1, <3>2, <4>1
    <3> QED BY <3>2, <3>3 DEF InPlace
  <2>6. DaemonOK(e, jobs, CurrentRoot)
    BY <1>3, <1>4, <2>3, <2>4 DEF DaemonOK
  <2>7. Seen("deep") = 0 => BlockDeep(e, jobs, chain, peak)
    BY <2>3, <2>4, <2>5 DEF BlockDeep
  <2> QED BY <1>1, <1>8, <2>2, <2>6, <2>7, GoStep
<1>10. CASE HeadBlock(p)
  <2>1. PICK n \in Nat : n = Len(chain) /\ n <= peak
    BY SeqFacts DEF RecordInv, ChainOK
  <2>2. PICK e : e = [d EXCEPT !.pc = "depth", !.head = n] /\ Go(p, e)
    BY <1>3, <1>10, <2>1 DEF HeadBlock
  <2>3. e = [pc |-> "depth", build |-> d.build, root |-> d.root, nonce |-> d.nonce, job |-> d.job, block |-> d.block,
             head |-> n]
    BY <1>3, <2>2 DEF DaemonOK
  <2>4. d.pc = "head"
    BY <1>3, <1>10 DEF HeadBlock, At
  <2>5. DaemonOK(e, jobs, CurrentRoot)
    BY <1>3, <1>4, <2>3, <2>4 DEF DaemonOK
  <2>6. BlockDeep(e, jobs, chain, peak)
    BY <2>1, <2>3 DEF BlockDeep
  <2>7. UNCHANGED jobs
    BY <1>10 DEF HeadBlock
  <2> QED BY <1>1, <2>2, <2>5, <2>6, <2>7, GoStep
<1>9. CASE Readback(p)
  <2>1. PICK st : Mark(p, st) /\ End(p)
    BY <1>9 DEF Readback
  <2>2. ASSUME Seen("deep") = 0
        PROVE  \E h \in DOMAIN chain : Job(p).tx \in chain[h].txs /\ chain[h].ok /\ peak - h >= Depth
    <3>1. d.pc = "readback"
      BY <1>3, <1>9 DEF Readback, At
    <3>2. InPlace(d.block, chain, peak) /\ d.block.block.ok /\ jobs[d.job].tx \in d.block.block.txs
      BY <1>3, <2>2, <3>1 DEF BlockDeep, DaemonOK
    <3> QED BY <1>4, <3>2 DEF InPlace
  <2> QED BY <1>1, <1>3, <1>4, <2>1, <2>2, MarkStep
<1> QED BY <1>5, <1>6, <1>7, <1>8, <1>9, <1>10 DEF Resend, CheckDepth

-----------------------------------------------------------------------------
(* Steps of the accounts.                                                  *)

LEMMA SignableNumbered ==
  ASSUME Numbered, NEW a \in Accounts, NEW s \in Signable(a)
  PROVE  s.revision \in Nat
<1>1. PICK n, prev : s \in SignedOn(a, n, prev) /\ n \in Nat
  <2>1. CASE s \in SignedOn(a, 1, None)
    BY <2>1
  <2>2. CASE \E r \in revisions : s \in SignedOn(a, r.revision + 1, r)
    <3>1. PICK r \in revisions : s \in SignedOn(a, r.revision + 1, r)
      BY <2>2
    <3>2. r.revision + 1 \in Nat
      BY DEF Numbered
    <3> QED BY <3>1, <3>2
  <2> QED BY <2>1, <2>2 DEF Signable
<1>2. PICK dl \in Deadlines, x \in Contents : s = State(a, n, prev, dl, x[1], x[2])
  BY <1>1 DEF SignedOn
<1> QED BY <1>1, <1>2 DEF State

\* Either no head's state changes, or one account's moves on to a later revision.
LEMMA RevisionStep ==
  ASSUME ChoicesInv, Numbered, StateNext
  PROVE  /\ Numbered'
         /\ \/ \A a \in Accounts : heads'[a].id = heads[a].id /\ (HasHead(a)' <=> HasHead(a))
            \/ \E a \in Accounts :
                 /\ \A b \in Accounts \ {a} : heads'[b] = heads[b]
                 /\ HasHead(a)' /\ heads'[a].id.revision \in Nat /\ heads'[a].id.revision > 0
                 /\ HasHead(a) => heads'[a].id.revision > heads[a].id.revision
<1>1. CASE UNCHANGED <<heads, revisions>>
  BY <1>1 DEF Numbered, HasHead
<1>2. ASSUME NEW d \in Devices, NEW s \in Signable(OwnerOf[d]), PutUserState(d, s)
      PROVE  /\ Numbered'
             /\ \E a \in Accounts :
                 /\ \A b \in Accounts \ {a} : heads'[b] = heads[b]
                 /\ HasHead(a)' /\ heads'[a].id.revision \in Nat /\ heads'[a].id.revision > 0
                 /\ HasHead(a) => heads'[a].id.revision > heads[a].id.revision
  <2>1. PICK a \in Accounts : a = OwnerOf[d]
    BY UserStateAssumption
  <2>2. s.revision \in Nat /\ s.revision > 0 /\ s.account = a
    BY <1>2, <2>1, SignableNumbered, SignableWritten DEF PutUserState, Validate, Written
  <2>3. PICK g \in Nat : g = heads[a].generation /\ g = view[d].generation
    BY <1>2, <2>1, <2>2 DEF ChoicesInv, TablesType, HeadsType, HeadOf, PutUserState, Admissible
  <2>4. heads' = [heads EXCEPT ![a] = [id |-> s, generation |-> g + 1, legacy |-> FALSE]]
    BY <1>2, <2>1, <2>3 DEF PutUserState
  <2>5. /\ heads'[a].id = s /\ heads'[a].generation = g + 1 /\ \A b \in Accounts \ {a} : heads'[b] = heads[b]
    <3>1. DOMAIN heads = Accounts
      BY DEF ChoicesInv, TablesType, HeadsType
    <3> QED BY <2>4, <3>1
  <2>6. ASSUME HasHead(a) PROVE s.revision > heads[a].id.revision
    <3>1. s.revision = heads[a].id.revision + 1
      BY <1>2, <2>1, <2>2, <2>6 DEF PutUserState, Admissible, Successor
    <3>2. heads[a].id.revision \in Nat
      BY <2>6 DEF Numbered
    <3> QED BY <3>1, <3>2
  <2>7. revisions' = revisions \cup {s}
    BY <1>2 DEF PutUserState, SaveStates
  <2>8. Numbered'
    BY <2>2, <2>5, <2>7 DEF Numbered, HasHead
  <2>9. HasHead(a)'
    BY <2>5 DEF HasHead
  <2> QED BY <2>2, <2>5, <2>6, <2>8, <2>9
<1>3. ASSUME NEW a \in Accounts, MarkLegacy(a), UNCHANGED revisions
      PROVE  Numbered' /\ \A b \in Accounts : heads'[b].id = heads[b].id /\ (HasHead(b)' <=> HasHead(b))
  <2>1. /\ HasHead(a)' <=> HasHead(a)
        /\ \A b \in Accounts \ {a} : heads'[b] = heads[b]
        /\ \A b \in Accounts : heads'[b].id = heads[b].id
    BY <1>3, MarkedHead DEF ChoicesInv, TablesType
  <2>2. \A b \in Accounts : HasHead(b)' <=> HasHead(b)
    BY <2>1 DEF HasHead
  <2> QED BY <1>3, <2>1, <2>2 DEF Numbered
<1>4. ASSUME NEW s \in AllSignable, NEW r \in AllSignable, RestoreHistory({s, r})
      PROVE  Numbered' /\ UNCHANGED heads
  <2>1. s.revision \in Nat /\ r.revision \in Nat
    BY SignableNumbered DEF AllSignable
  <2>2. revisions' \subseteq revisions \cup {s, r} /\ heads' = heads
    BY <1>4 DEF RestoreHistory, ImportState, ImportCheckpoint, SaveStates
  <2> QED BY <2>1, <2>2 DEF Numbered, HasHead
<1>5. CASE \E s, r \in AllSignable : RestoreHistory({s, r})
  BY <1>4, <1>5 DEF HasHead
<1>6. CASE \E a, signer \in Accounts, c \in Chains, dl \in Deadlines, split \in {x[1] : x \in Contents} :
             ReplaceVerdicts(a, c, signer, dl, split)
  <2>1. PICK a \in Accounts : MarkLegacy(a) /\ UNCHANGED revisions
    BY <1>6 DEF ReplaceVerdicts
  <2> QED BY <1>3, <2>1
<1>7. CASE \E a, signer \in Accounts, dl \in Deadlines, items \in {x[2] : x \in Contents} :
             PutAssetCommit(a, signer, dl, items)
  <2>1. PICK a \in Accounts : MarkLegacy(a) /\ UNCHANGED revisions
    BY <1>7 DEF PutAssetCommit
  <2> QED BY <1>3, <2>1
<1>8. CASE \E d \in Devices : \E s \in Signable(OwnerOf[d]) : PutUserState(d, s)
  BY <1>2, <1>8
<1>9. \/ \E d \in Devices : \E s \in Signable(OwnerOf[d]) : PutUserState(d, s)
      \/ \E s, r \in AllSignable : RestoreHistory({s, r})
      \/ \E a, signer \in Accounts, c \in Chains, dl \in Deadlines, split \in {x[1] : x \in Contents} :
           ReplaceVerdicts(a, c, signer, dl, split)
      \/ \E a, signer \in Accounts, dl \in Deadlines, items \in {x[2] : x \in Contents} :
           PutAssetCommit(a, signer, dl, items)
      \/ UNCHANGED <<heads, revisions>>
  BY DEF StateNext, ReadHead, ReadVerdicts, ReadAssets, Recheck, PostCheckpoint, Tick, RecordDemand, tableVars
<1> QED BY <1>1, <1>5, <1>6, <1>7, <1>8, <1>9

\* In terms of the cut of all heads.
LEMMA CutStep ==
  ASSUME ChoicesInv, Numbered, StateNext
  PROVE  /\ Numbered' /\ Rooted(CurrentRoot)' /\ Rooted(CurrentRoot)
         /\ \A a \in Accounts : RevisionsOf(CurrentRoot)[a] <= RevisionsOf(CurrentRoot)'[a]
         /\ \/ RevisionsOf(CurrentRoot)' = RevisionsOf(CurrentRoot)
            \/ \E a \in Accounts :
                 /\ RevisionsOf(CurrentRoot)'[a] > RevisionsOf(CurrentRoot)[a]
                 /\ \A b \in Accounts \ {a} : RevisionsOf(CurrentRoot)'[b] = RevisionsOf(CurrentRoot)[b]
<1>1. Numbered'
  BY RevisionStep
<1>2. /\ Rooted(CurrentRoot)
      /\ \A a \in Accounts : RevisionsOf(CurrentRoot)[a] = IF HasHead(a) THEN heads[a].id.revision ELSE 0
  BY CurrentRooted DEF CutOfHeads
<1>3. /\ Rooted(CurrentRoot)'
      /\ \A a \in Accounts : RevisionsOf(CurrentRoot)'[a] = IF HasHead(a)' THEN heads'[a].id.revision ELSE 0
  <2>1. Numbered' => CutOfHeads'
    BY CurrentRooted, PTL
  <2> QED BY <1>1, <2>1 DEF CutOfHeads
<1>4. PICK r, q : r = RevisionsOf(CurrentRoot) /\ q = RevisionsOf(CurrentRoot)'
  OBVIOUS
<1>5. r \in [Accounts -> Nat] /\ q \in [Accounts -> Nat]
  BY <1>1, <1>2, <1>3, <1>4 DEF Rooted
<1>6. \A a \in Accounts : /\ r[a] = IF HasHead(a) THEN heads[a].id.revision ELSE 0
                          /\ q[a] = IF HasHead(a)' THEN heads'[a].id.revision ELSE 0
  BY <1>1, <1>2, <1>3, <1>4
<1>7. CASE \A a \in Accounts : heads'[a].id = heads[a].id /\ (HasHead(a)' <=> HasHead(a))
  <2>1. \A a \in Accounts : q[a] = r[a]
    BY <1>6, <1>7
  <2>2. q = r
    BY <1>5, <2>1
  <2> QED BY <1>1, <1>2, <1>3, <1>4, <1>5, <2>1, <2>2
<1>8. ASSUME NEW a \in Accounts, \A b \in Accounts \ {a} : heads'[b] = heads[b],
             HasHead(a)', heads'[a].id.revision \in Nat, heads'[a].id.revision > 0,
             HasHead(a) => heads'[a].id.revision > heads[a].id.revision
      PROVE  q[a] > r[a] /\ \A b \in Accounts \ {a} : q[b] = r[b]
  <2>1. q[a] > r[a]
    BY <1>6, <1>8
  <2>2. \A b \in Accounts \ {a} : HasHead(b)' <=> HasHead(b)
    BY <1>8 DEF HasHead
  <2>3. \A b \in Accounts \ {a} : q[b] = r[b]
    BY <1>6, <1>8, <2>2
  <2> QED BY <2>1, <2>3
<1>9. CASE \E a \in Accounts : q[a] > r[a] /\ \A b \in Accounts \ {a} : q[b] = r[b]
  <2>1. \A b \in Accounts : r[b] <= q[b]
    BY <1>5, <1>9
  <2> QED BY <1>1, <1>2, <1>3, <1>4, <1>9, <2>1
<1> QED BY <1>7, <1>8, <1>9, RevisionStep

\* What an account's step uses up.
LEMMA AccountsDisturb ==
  ASSUME StateNext
  PROVE  \/ UNCHANGED trouble \/ Disturb("states") \/ Disturb("imports") \/ Disturb("legacy")
         \/ Disturb("votes") \/ Disturb("time")
<1>1. ASSUME NEW d \in Devices, ReadHead(d) \/ ReadVerdicts(d) \/ ReadAssets(d) \/ Recheck(d)
      PROVE  UNCHANGED trouble
  BY <1>1 DEF ReadHead, ReadVerdicts, ReadAssets, Recheck
<1>2. ASSUME NEW d \in Devices, NEW s \in Signable(OwnerOf[d]), PutUserState(d, s) PROVE Disturb("states")
  BY <1>2 DEF PutUserState
<1>3. ASSUME NEW s \in AllSignable, NEW r \in AllSignable, RestoreHistory({s, r}) PROVE Disturb("imports")
  BY <1>3 DEF RestoreHistory
<1>4. ASSUME NEW a \in Accounts, NEW signer \in Accounts, NEW c \in Chains, NEW dl \in Deadlines,
             NEW split \in {x[1] : x \in Contents}, ReplaceVerdicts(a, c, signer, dl, split)
      PROVE  Disturb("legacy")
  BY <1>4 DEF ReplaceVerdicts
<1>5. ASSUME NEW a \in Accounts, NEW signer \in Accounts, NEW dl \in Deadlines,
             NEW items \in {x[2] : x \in Contents}, PutAssetCommit(a, signer, dl, items)
      PROVE  Disturb("legacy")
  BY <1>5 DEF PutAssetCommit
<1>6. ASSUME NEW a \in Accounts, NEW c \in Chains, NEW ts \in SUBSET Tokens, RecordDemand(a, c, ts)
      PROVE  Disturb("votes")
  BY <1>6 DEF RecordDemand
<1>7. ASSUME PostCheckpoint PROVE UNCHANGED trouble
  BY <1>7 DEF PostCheckpoint
<1>8. ASSUME Tick PROVE Disturb("time")
  BY <1>8 DEF Tick
<1> QED BY <1>1, <1>2, <1>3, <1>4, <1>5, <1>6, <1>7, <1>8 DEF StateNext

\* The accounts move on under the publisher.
LEMMA AccountsStep ==
  ASSUME ChoicesInv, RecordInv, StateNext, UNCHANGED <<pubVars, nodeVars>>
  PROVE  RecordInv'
<1>1. UNCHANGED <<jobs, daemon, locked, chain, peak>>
  BY DEF pubVars, nodeVars
<1>2. TroubleOK' /\ Seen("deep")' = Seen("deep")
  <2>1. {"states", "imports", "legacy", "votes", "time"} \subseteq Disturbance /\ TroubleOK
    BY DEF Disturbance, RecordInv
  <2>2. \/ UNCHANGED trouble \/ Disturb("states") \/ Disturb("imports") \/ Disturb("legacy")
        \/ Disturb("votes") \/ Disturb("time")
    BY AccountsDisturb
  <2>3. CASE UNCHANGED trouble
    BY <2>1, <2>3 DEF TroubleOK, Seen
  <2> QED BY <2>1, <2>2, <2>3, DisturbStep
<1>3. /\ Numbered' /\ Rooted(CurrentRoot)' /\ Rooted(CurrentRoot)
      /\ \A a \in Accounts : RevisionsOf(CurrentRoot)[a] <= RevisionsOf(CurrentRoot)'[a]
  BY CutStep DEF RecordInv
<1>4. PICK c, c2 : c = CurrentRoot /\ c2 = CurrentRoot'
  OBVIOUS
<1>5. Rooted(c) /\ Rooted(c2) /\ \A a \in Accounts : RevisionsOf(c)[a] <= RevisionsOf(c2)[a]
  BY <1>3, <1>4
<1>6. ASSUME NEW r, Rooted(r), Upto(r, c) PROVE Upto(r, c2)
  BY <1>5, <1>6 DEF Rooted, Upto
<1>7. JobsOK(jobs, c2)
  BY <1>4, <1>6 DEF RecordInv, JobsOK
<1>8. \A p \in Daemons : DaemonOK(daemon[p], jobs, c2)
  BY <1>4, <1>6 DEF RecordInv, DaemonOK
<1>9. JobsOK(jobs, CurrentRoot)' /\ \A p \in Daemons : DaemonOK(daemon[p], jobs, CurrentRoot)'
  BY <1>1, <1>4, <1>7, <1>8
<1>10. OneTick' /\ ChainOK(chain, peak)' /\ DeepOK'
  BY <1>1, <1>2 DEF RecordInv, OneTick, ChainOK, DeepOK
<1> QED BY <1>2, <1>3, <1>9, <1>10 DEF RecordInv

LEMMA RecordStep == ChoicesInv /\ RecordInv /\ [Next]_allVars => RecordInv'
<1> SUFFICES ASSUME ChoicesInv, RecordInv, [Next]_allVars PROVE RecordInv'
  OBVIOUS
<1>1. CASE StateNext /\ UNCHANGED <<pubVars, nodeVars>>
  BY <1>1, AccountsStep
<1>2. ASSUME NEW p \in Daemons, NEW build \in BOOLEAN, StartTick(p, build) PROVE RecordInv'
  BY <1>2, StartStep
<1>3. ASSUME NEW p \in Daemons, TickStep(p) PROVE RecordInv'
  BY <1>3, RecheckSteps, BuildSteps, SaveStep, SettleSteps DEF TickStep
<1>4. ASSUME NEW p \in Daemons, AbortTick(p) PROVE RecordInv'
  <2>1. End(p) /\ Disturb("aborts") /\ UNCHANGED <<heads, revisions, chain, peak, jobs>> /\ daemon[p].pc # "idle"
    BY <1>4 DEF AbortTick, nodeVars, stateVars, At
  <2>2. "aborts" \in Disturbance
    BY DEF Disturbance
  <2>3. TroubleOK' /\ Seen("deep")' = Seen("deep")
    BY <2>1, <2>2, DisturbStep DEF RecordInv
  <2> QED BY <2>1, <2>3, EndStep
<1>5. CASE \/ MineEmpty
           \/ \E tx \in pool, ok \in BOOLEAN : MineTx(tx, ok)
           \/ \E n \in 1 .. Len(chain) : Reorg(n)
           \/ \E tx \in pool : DropTx(tx)
           \/ ForeignTx
  BY <1>5, ChainSteps
<1>6. CASE UNCHANGED allVars
  <2>1. UNCHANGED <<heads, revisions, pubVars, trouble, chain, peak>>
    BY <1>6 DEF allVars, nodeVars, stateVars
  <2>2. ChainOK(chain, peak)' /\ TroubleOK' /\ Seen("deep")' = Seen("deep") /\ Keeps(chain, peak, chain', peak')
    BY <2>1 DEF RecordInv, ChainOK, TroubleOK, Seen, Keeps
  <2> QED BY <2>1, <2>2, NodeStep
<1> QED BY <1>1, <1>2, <1>3, <1>4, <1>5, <1>6 DEF Next

LEMMA RecordInitially == Init => RecordInv
<1> SUFFICES ASSUME Init PROVE RecordInv
  OBVIOUS
<1>1. /\ jobs = <<>> /\ chain = <<>> /\ peak = 0 /\ daemon = [p \in Daemons |-> Idle] /\ revisions = {}
      /\ heads = [a \in Accounts |-> NoHead]
  BY DEF Init, StateInit
<1>2. TroubleOK
  <2>1. PICK s \in Scenarios : trouble = [allowed |-> s, seen |-> [k \in Disturbance |-> 0]]
    BY DEF Init, StateInit
  <2>2. s \in [Disturbance -> Nat] /\ "deep" \in Disturbance
    BY UserStateAssumption DEF Disturbance
  <2>3. [k \in Disturbance |-> 0] \in [Disturbance -> Nat] /\ [k \in Disturbance |-> 0]["deep"] = 0
    BY <2>2
  <2> QED BY <2>1, <2>2, <2>3 DEF TroubleOK, Seen
<1>3. Numbered
  BY <1>1 DEF Numbered, HasHead, NoHead
<1>4. OneTick
  <2>1. Idle.pc = "idle"
    BY DEF Idle, Doing
  <2> QED BY <1>1, <2>1 DEF OneTick
<1>5. IsSeq(<<>>) /\ DOMAIN <<>> = {} /\ Len(<<>>) = 0
  BY DEF IsSeq
<1>6. JobsOK(jobs, CurrentRoot) /\ ChainOK(chain, peak) /\ ConfirmedDeep(jobs, chain, peak)
  BY <1>1, <1>5 DEF JobsOK, ChainOK, ConfirmedDeep
<1>7. \A p \in Daemons : DaemonOK(daemon[p], jobs, CurrentRoot) /\ BlockDeep(daemon[p], jobs, chain, peak)
  BY <1>1, IdleOK
<1> QED BY <1>2, <1>3, <1>4, <1>6, <1>7 DEF RecordInv, DeepOK

LEMMA RecordInvariant == FairSpec => []RecordInv
BY RecordInitially, ChoicesInvariant, RecordStep, PTL DEF FairSpec

\* ConfirmedStays for every depth, any number of daemons and any number of reorgs that stay
\* within the depth, however they fall between the reads of settle.
THEOREM ConfirmedIsFinal == FairSpec => []ConfirmedStays
<1>1. RecordInv => ConfirmedStays
  <2> SUFFICES ASSUME RecordInv, NEW j \in DOMAIN jobs, jobs[j].status = "confirmed", Seen("deep") = 0
               PROVE  Mined(jobs[j].tx) /\ Receipt(jobs[j].tx).block.ok
    BY DEF ConfirmedStays
  <2>1. PICK h \in DOMAIN chain : jobs[j].tx \in chain[h].txs /\ chain[h].ok
    BY DEF RecordInv, DeepOK, ConfirmedDeep
  <2> QED BY <2>1, ReceiptIs DEF RecordInv
<1> QED BY <1>1, RecordInvariant, PTL

-----------------------------------------------------------------------------
(* The publisher implements StateRecord.                                   *)

\* What is allowed to happen is fixed at the start.
LEMMA AllowedStays ==
  ASSUME TroubleOK, [Next]_allVars
  PROVE  trouble'.allowed = trouble.allowed
<1>1. CASE UNCHANGED trouble
  BY <1>1
<1>2. CASE \E kind \in Disturbance : Disturb(kind)
  BY <1>2, DisturbStep
<1>3. {"time", "states", "legacy", "votes", "imports", "aborts", "dropped", "reverts", "reorgs", "deep", "foreign"}
        \subseteq Disturbance
  BY DEF Disturbance
<1>4. CASE StateNext
  BY <1>1, <1>2, <1>3, <1>4, AccountsDisturb
<1>5. ASSUME NEW p \in Daemons, TickStep(p) PROVE UNCHANGED trouble
  BY <1>5 DEF TickStep, RecheckReceipt, RecheckHeader, BuildForRecord, ReadRecord, SignTx, SaveJob,
              Resend, ReadReceipt, HeadBlock, CheckDepth, Readback
<1>6. ASSUME NEW n \in 1 .. Len(chain), Reorg(n) PROVE \E kind \in Disturbance : Disturb(kind)
  <2>1. Disturb("reorgs") \/ Disturb("deep")
    BY <1>6 DEF Reorg
  <2> QED BY <1>3, <2>1
<1>7. ASSUME NEW tx \in pool, NEW ok \in BOOLEAN, MineTx(tx, ok)
      PROVE  UNCHANGED trouble \/ \E kind \in Disturbance : Disturb(kind)
  BY <1>3, <1>7 DEF MineTx
<1> QED
  BY <1>1, <1>2, <1>3, <1>4, <1>5, <1>6, <1>7 DEF Next, allVars, StartTick, AbortTick, MineEmpty, DropTx, ForeignTx

\* Jobs are kept, and the confirmed ones stay confirmed.
Kept(js, js2) ==
  \A j \in DOMAIN js :
    j \in DOMAIN js2 /\ js2[j].tx = js[j].tx /\ (js[j].status = "confirmed" => js2[j].status = "confirmed")

LEMMA MarkKeeps ==
  ASSUME RecordInv, NEW p \in Daemons, daemon[p].job \in DOMAIN jobs, NEW st, Mark(p, st),
         jobs[daemon[p].job].status = "confirmed" => st = "confirmed"
  PROVE  Kept(jobs, jobs')
<1>1. PICK j \in DOMAIN jobs : j = daemon[p].job
  OBVIOUS
<1>2. /\ DOMAIN jobs' = DOMAIN jobs /\ jobs'[j].status = st
      /\ \A k \in DOMAIN jobs : jobs'[k].tx = jobs[k].tx
      /\ \A k \in DOMAIN jobs \ {j} : jobs'[k] = jobs[k]
  BY <1>1, Marked DEF RecordInv
<1> QED BY <1>1, <1>2 DEF Kept

LEMMA TickKeeps ==
  ASSUME RecordInv, NEW p \in Daemons, TickStep(p), Seen("deep") = 0
  PROVE  Kept(jobs, jobs')
<1>1. CASE UNCHANGED jobs
  BY <1>1 DEF Kept
<1>2. PICK d : d = daemon[p] /\ DaemonOK(d, jobs, CurrentRoot) /\ BlockDeep(d, jobs, chain, peak)
  BY DEF RecordInv, DeepOK
<1>3. CASE RecheckReceipt(p) /\ ~Mined(Job(p).tx) /\ Mark(p, "pending")
  <2>1. d.pc = "recheck" /\ d.job \in DOMAIN jobs
    BY <1>2, <1>3 DEF RecheckReceipt, At, DaemonOK
  <2>2. jobs[d.job].status # "confirmed"
    BY <1>2, <1>3, <2>1 DEF RecordInv, DeepOK, ConfirmedDeep, Mined, Job
  <2> QED BY <1>2, <1>3, <2>1, <2>2, MarkKeeps
<1>4. CASE RecheckHeader(p) /\ ~Canonical(p) /\ Answered(p) /\ Mark(p, "pending")
  <2>1. d.pc = "header" /\ d.job \in DOMAIN jobs
    BY <1>2, <1>4 DEF RecheckHeader, At, DaemonOK
  <2>2. jobs[d.job].status # "confirmed"
    BY <1>2, <1>4, <2>1 DEF BlockDeep, InPlace, Canonical, Answered
  <2> QED BY <1>2, <1>4, <2>1, <2>2, MarkKeeps
<1>5. CASE SaveJob(p)
  <2>1. CASE \E x : jobs' = Append(jobs, x)
    <3>1. PICK x : jobs' = Append(jobs, x)
      BY <2>1
    <3>2. IsSeq(jobs)
      BY DEF RecordInv, JobsOK
    <3>3. /\ Len(jobs) \in Nat /\ DOMAIN jobs = 1 .. Len(jobs)
          /\ IsSeq(jobs') /\ Len(jobs') = Len(jobs) + 1 /\ \A j \in 1 .. Len(jobs) : jobs'[j] = jobs[j]
      BY ONLY <3>1, <3>2, SeqFacts
    <3>4. DOMAIN jobs' = 1 .. Len(jobs) + 1
      BY <3>3, SeqFacts
    <3> QED BY <3>3, <3>4 DEF Kept
  <2> QED BY <1>1, <1>5, <2>1 DEF SaveJob
<1>6. CASE (CheckDepth(p) \/ Readback(p)) /\ \E st : Mark(p, st)
  <2>1. d.pc \in {"depth", "readback"} /\ d.job \in DOMAIN jobs /\ jobs[d.job].status = "pending"
    BY <1>2, <1>6 DEF CheckDepth, Readback, At, DaemonOK
  <2> QED BY <1>2, <1>6, <2>1, MarkKeeps
<1>7. \/ UNCHANGED jobs \/ SaveJob(p)
      \/ RecheckReceipt(p) /\ ~Mined(Job(p).tx) /\ Mark(p, "pending")
      \/ RecheckHeader(p) /\ ~Canonical(p) /\ Answered(p) /\ Mark(p, "pending")
      \/ (CheckDepth(p) \/ Readback(p)) /\ \E st : Mark(p, st)
  BY DEF TickStep, RecheckReceipt, RecheckHeader, BuildForRecord, ReadRecord, SignTx,
              Resend, ReadReceipt, HeadBlock, CheckDepth, Readback
<1> QED BY <1>1, <1>3, <1>4, <1>5, <1>6, <1>7

\* The confirmed record of jobs.
ConfirmedJobs(js) == {j \in DOMAIN js : js[j].status = "confirmed"}
ConfirmedOf(js) ==
  IF ConfirmedJobs(js) = {} THEN [a \in Accounts |-> 0] ELSE RevisionsOf(js[Max(ConfirmedJobs(js))].tx.root)

LEMMA ConfirmedMoves ==
  ASSUME NEW js, NEW js2, NEW cut, JobsOK(js, cut), JobsOK(js2, cut), Rooted(cut), Kept(js, js2)
  PROVE  /\ ConfirmedOf(js2) \in [Accounts -> Nat]
         /\ \A a \in Accounts : /\ ConfirmedOf(js)[a] <= ConfirmedOf(js2)[a]
                                /\ ConfirmedOf(js2)[a] <= RevisionsOf(cut)[a]
<1>1. \A q : JobsOK(q, cut) /\ ConfirmedJobs(q) # {} =>
        /\ Max(ConfirmedJobs(q)) \in ConfirmedJobs(q)
        /\ \A m \in ConfirmedJobs(q) : m <= Max(ConfirmedJobs(q))
  <2> SUFFICES ASSUME NEW q, JobsOK(q, cut), ConfirmedJobs(q) # {}
               PROVE  /\ Max(ConfirmedJobs(q)) \in ConfirmedJobs(q)
                      /\ \A m \in ConfirmedJobs(q) : m <= Max(ConfirmedJobs(q))
    OBVIOUS
  <2>1. Len(q) \in Nat /\ ConfirmedJobs(q) \subseteq 1 .. Len(q)
    BY SeqFacts DEF JobsOK, ConfirmedJobs
  <2> QED BY <2>1, LastOf
<1>2. CASE ConfirmedJobs(js2) = {}
  <2>1. ConfirmedJobs(js) = {}
    BY <1>2 DEF Kept, ConfirmedJobs
  <2> QED BY <1>2, <2>1 DEF ConfirmedOf, Rooted
<1>3. CASE ConfirmedJobs(js2) # {}
  <2>1. PICK k \in DOMAIN js2 : k = Max(ConfirmedJobs(js2)) /\ \A m \in ConfirmedJobs(js2) : m <= k
    BY <1>1, <1>3 DEF ConfirmedJobs
  <2>2. ConfirmedOf(js2) = RevisionsOf(js2[k].tx.root)
    BY <1>3, <2>1 DEF ConfirmedOf
  <2>3. Rooted(js2[k].tx.root) /\ Upto(js2[k].tx.root, cut)
    BY DEF JobsOK
  <2>4. ASSUME NEW a \in Accounts PROVE ConfirmedOf(js)[a] <= ConfirmedOf(js2)[a]
    <3>1. CASE ConfirmedJobs(js) = {}
      BY <2>2, <2>3, <3>1 DEF ConfirmedOf, Rooted
    <3>2. CASE ConfirmedJobs(js) # {}
      <4>1. PICK j \in DOMAIN js : j = Max(ConfirmedJobs(js)) /\ j \in ConfirmedJobs(js)
        BY <1>1, <3>2 DEF ConfirmedJobs
      <4>2. j \in DOMAIN js2 /\ j \in ConfirmedJobs(js2) /\ js2[j].tx = js[j].tx
        BY <4>1 DEF Kept, ConfirmedJobs
      <4>3. Upto(js2[j].tx.root, js2[k].tx.root)
        BY <2>1, <4>2 DEF JobsOK
      <4>4. ConfirmedOf(js) = RevisionsOf(js[j].tx.root)
        BY <3>2, <4>1 DEF ConfirmedOf
      <4> QED BY <2>2, <4>2, <4>3, <4>4 DEF Upto
    <3> QED BY <3>1, <3>2
  <2> QED BY <2>2, <2>3, <2>4 DEF Rooted, Upto
<1> QED BY <1>2, <1>3

LEMMA ConfirmedIs ==
  ConfirmedRevisions = IF trouble.allowed["deep"] > 0 THEN [a \in Accounts |-> 0] ELSE ConfirmedOf(jobs)
BY DEF ConfirmedRevisions, ConfirmedOf, ConfirmedJobs

\* Every step is one of StateRecord's, or changes nothing that it sees.
LEMMA AbstractStep ==
  ChoicesInv /\ RecordInv /\ RecordInv' /\ [Next]_allVars
    => [Abstract!Next]_<<RevisionsOf(CurrentRoot), ConfirmedRevisions>>
<1> SUFFICES ASSUME ChoicesInv, RecordInv, RecordInv', [Next]_allVars
             PROVE  [Abstract!Next]_<<RevisionsOf(CurrentRoot), ConfirmedRevisions>>
  OBVIOUS
<1>1. trouble'.allowed = trouble.allowed
  BY AllowedStays DEF RecordInv
<1>2. ConfirmedRevisions' = IF trouble.allowed["deep"] > 0 THEN [a \in Accounts |-> 0] ELSE ConfirmedOf(jobs')
  <2>1. (ConfirmedRevisions = IF trouble.allowed["deep"] > 0 THEN [a \in Accounts |-> 0] ELSE ConfirmedOf(jobs))'
    BY ConfirmedIs, PTL
  <2> QED BY <1>1, <2>1
<1>3. CASE UNCHANGED jobs
  <2>1. ConfirmedRevisions' = ConfirmedRevisions
    BY <1>2, <1>3, ConfirmedIs
  <2>2. CASE UNCHANGED heads
    <3>1. CurrentRoot' = CurrentRoot
      BY <2>2 DEF CurrentRoot, HasHead
    <3>2. RevisionsOf(CurrentRoot)' = RevisionsOf(CurrentRoot)
      BY <3>1 DEF RevisionsOf
    <3> QED BY <2>1, <3>2
  <2>3. CASE StateNext
    <3>1. /\ RevisionsOf(CurrentRoot)' \in [Accounts -> Nat]
          /\ \/ RevisionsOf(CurrentRoot)' = RevisionsOf(CurrentRoot)
             \/ \E a \in Accounts :
                  /\ RevisionsOf(CurrentRoot)'[a] > RevisionsOf(CurrentRoot)[a]
                  /\ \A b \in Accounts \ {a} : RevisionsOf(CurrentRoot)'[b] = RevisionsOf(CurrentRoot)[b]
      BY <2>3, CutStep DEF RecordInv, Rooted
    <3> QED BY <2>1, <3>1 DEF Abstract!Next, Abstract!Accept
  <2>5. StateNext \/ UNCHANGED heads
    BY DEF Next, allVars, stateVars, StartTick, AbortTick, MineEmpty, MineTx, Reorg, DropTx, ForeignTx,
           TickStep, RecheckReceipt, RecheckHeader, BuildForRecord, ReadRecord, SignTx, SaveJob,
           Resend, ReadReceipt, HeadBlock, CheckDepth, Readback
  <2> QED BY <2>2, <2>3, <2>5
<1>4. CASE \E p \in Daemons : TickStep(p)
  <2>1. PICK p \in Daemons : TickStep(p)
    BY <1>4
  <2>2. UNCHANGED <<heads, trouble>>
    BY <2>1 DEF TickStep, RecheckReceipt, RecheckHeader, BuildForRecord, ReadRecord, SignTx, SaveJob,
                Resend, ReadReceipt, HeadBlock, CheckDepth, Readback, stateVars
  <2>3. CurrentRoot' = CurrentRoot /\ RevisionsOf(CurrentRoot)' = RevisionsOf(CurrentRoot)
    BY <2>2 DEF CurrentRoot, HasHead, RevisionsOf
  <2>4. CASE trouble.allowed["deep"] > 0
    <3>1. ConfirmedRevisions' = ConfirmedRevisions
      BY <1>2, <2>4, ConfirmedIs
    <3> QED BY <2>3, <3>1
  <2>5. CASE ~(trouble.allowed["deep"] > 0)
    <3>1. Seen("deep") = 0
      BY <2>5 DEF RecordInv, TroubleOK, Seen, Disturbance
    <3>2. Kept(jobs, jobs')
      BY <2>1, <3>1, TickKeeps
    <3>3. JobsOK(jobs, CurrentRoot) /\ JobsOK(jobs', CurrentRoot) /\ Rooted(CurrentRoot)
      BY <2>3, CurrentRooted DEF RecordInv, CutOfHeads
    <3>4. /\ ConfirmedOf(jobs') \in [Accounts -> Nat]
          /\ \A a \in Accounts : /\ ConfirmedOf(jobs)[a] <= ConfirmedOf(jobs')[a]
                                 /\ ConfirmedOf(jobs')[a] <= RevisionsOf(CurrentRoot)[a]
      BY <3>2, <3>3, ConfirmedMoves
    <3>5. ConfirmedRevisions = ConfirmedOf(jobs) /\ ConfirmedRevisions' = ConfirmedOf(jobs')
      BY <1>2, <2>5, ConfirmedIs
    <3>6. Abstract!Confirm
      BY <2>3, <3>4, <3>5 DEF Abstract!Confirm
    <3> QED BY <3>6 DEF Abstract!Next
  <2> QED BY <2>4, <2>5
<1>5. UNCHANGED jobs \/ \E p \in Daemons : TickStep(p)
  BY DEF Next, allVars, pubVars, StartTick, AbortTick, MineEmpty, MineTx, Reorg, DropTx, ForeignTx
<1> QED BY <1>3, <1>4, <1>5

LEMMA AbstractInitially == Init => Abstract!Init
<1> SUFFICES ASSUME Init PROVE Abstract!Init
  OBVIOUS
<1>1. jobs = <<>> /\ heads = [a \in Accounts |-> NoHead]
  BY DEF Init, StateInit
<1>2. RevisionsOf(CurrentRoot) = [a \in Accounts |-> 0]
  <2>1. \A a \in Accounts : ~HasHead(a)
    BY <1>1 DEF HasHead, NoHead
  <2>2. DOMAIN CurrentRoot = {}
    BY <2>1 DEF CurrentRoot
  <2> QED BY <2>2 DEF RevisionsOf
<1>3. ConfirmedRevisions = [a \in Accounts |-> 0]
  <2>1. ConfirmedJobs(jobs) = {}
    BY <1>1 DEF ConfirmedJobs
  <2>2. ConfirmedOf(jobs) = [a \in Accounts |-> 0]
    BY <2>1 DEF ConfirmedOf
  <2> QED BY <2>2, ConfirmedIs
<1> QED BY <1>2, <1>3 DEF Abstract!Init

\* Daemons that share a database, their jobs, transactions, blocks and reorgs implement
\* StateRecord: what the ENS record is confirmed to be is a cut of accepted states, and
\* never an older one than before.
THEOREM PublisherImplementsRecord == FairSpec => PublishesCuts
BY AbstractInitially, AbstractStep, ChoicesInvariant, RecordInvariant, PTL
DEF FairSpec, PublishesCuts, Abstract!Spec
=============================================================================
