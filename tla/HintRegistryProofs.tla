------------------------- MODULE HintRegistryProofs -------------------------
(***************************************************************************)
(* Theorems about HintRegistry, for every set of users, assets and chains, *)
(* every price and both adjudication modes.                                *)
(***************************************************************************)
EXTENDS HintRegistry, FiniteSetTheorems, WellFoundedInduction, TLAPS

-----------------------------------------------------------------------------
(* Sums over finite sets, as the library's SumFunction computes them.      *)

\* Among subsets of a finite set there is a smallest one: the induction used below.
LEMMA SmallestSubset ==
  ASSUME NEW S, IsFiniteSet(S), NEW B, B \subseteq SUBSET S, B # {}
  PROVE  \E s \in B : \A t \in B : t \subseteq s => t = s
<1>1. IsWellFoundedOn(StrictSubsetOrdering(S), FiniteSubsetsOf(S))
  BY FS_StrictSubsetOrderingWellFounded
<1>2. B \subseteq FiniteSubsetsOf(S)
  BY FS_Subset DEF FiniteSubsetsOf
<1>3. PICK s \in B : \A t \in B : ~(<<t, s>> \in StrictSubsetOrdering(S))
  BY <1>1, <1>2, WFMin
<1> QED BY <1>3 DEF StrictSubsetOrdering

\* The element the library's fold takes next.
Pick(s) == CHOOSE x \in s : TRUE

\* g is a table of the partial sums of f over the subsets of S, in the fold's order.
Totals(f, S, g) ==
  g = [s \in SUBSET S |-> IF s = {} THEN 0 ELSE f[Pick(s)] + g[s \ {Pick(s)}]]

\* The library's sum is the last entry of its chosen table.
LEMMA SumIsTotal ==
  ASSUME NEW S, NEW f
  PROVE  SumFunctionOnSet(f, S) = (CHOOSE g : Totals(f, S, g))[S]
  BY DEF SumFunctionOnSet, FoldFunctionOnSet, MapThenFoldSet, Totals, Pick

\* It takes a member.
LEMMA PickIn == \A s : s # {} => Pick(s) \in s
  BY DEF Pick

\* Such a table exists: by induction on the size of the subsets it is right about.
LEMMA TotalsExist ==
  ASSUME NEW S, IsFiniteSet(S), NEW f \in [S -> Int]
  PROVE  \E g \in [SUBSET S -> Int] : Totals(f, S, g)
<1> DEFINE Value(g, s) == IF s = {} THEN 0 ELSE f[Pick(s)] + g[s \ {Pick(s)}]
           UpTo(n, g) == \A s \in SUBSET S : Cardinality(s) <= n => g[s] = Value(g, s)
           Bad == {n \in Nat : ~\E g \in [SUBSET S -> Int] : UpTo(n, g)}
<1>1. ASSUME NEW s \in SUBSET S, s # {}
      PROVE  /\ Pick(s) \in s /\ s \ {Pick(s)} \in SUBSET S
             /\ Cardinality(s) \in Nat /\ Cardinality(s \ {Pick(s)}) = Cardinality(s) - 1
  <2>1. IsFiniteSet(s)
    BY FS_Subset
  <2>2. Pick(s) \in s
    BY <1>1, PickIn
  <2> QED BY <2>1, <2>2, FS_CardinalityType, FS_RemoveElement
<1>2. ASSUME NEW g \in [SUBSET S -> Int]
      PROVE  [s \in SUBSET S |-> Value(g, s)] \in [SUBSET S -> Int]
  <2> SUFFICES ASSUME NEW s \in SUBSET S PROVE Value(g, s) \in Int
    OBVIOUS
  <2>1. CASE s = {}
    BY <2>1
  <2>2. CASE s # {}
    <3>1. f[Pick(s)] \in Int /\ g[s \ {Pick(s)}] \in Int
      BY <1>1, <2>2
    <3> QED BY <2>2, <3>1
  <2> QED BY <2>1, <2>2
<1>3. 0 \notin Bad
  <2> DEFINE g == [s \in SUBSET S |-> 0]
  <2>1. \A s \in SUBSET S : Cardinality(s) <= 0 => s = {}
    <3> SUFFICES ASSUME NEW s \in SUBSET S, s # {} PROVE ~(Cardinality(s) <= 0)
      OBVIOUS
    <3>1. Cardinality(s \ {Pick(s)}) \in Nat
      BY FS_Subset, FS_CardinalityType
    <3> QED BY <1>1, <3>1
  <2>2. g \in [SUBSET S -> Int] /\ UpTo(0, g)
    BY <2>1
  <2> QED BY <2>2
<1>4. ASSUME NEW n \in Nat, n \notin Bad PROVE n + 1 \notin Bad
  <2>1. PICK g \in [SUBSET S -> Int] : UpTo(n, g)
    BY <1>4
  <2> DEFINE h == [s \in SUBSET S |-> Value(g, s)]
  <2>2. h \in [SUBSET S -> Int]
    BY <1>2
  <2>3. UpTo(n + 1, h)
    <3> SUFFICES ASSUME NEW s \in SUBSET S, Cardinality(s) <= n + 1, s # {}
                 PROVE  h[s] = Value(h, s)
      OBVIOUS
    <3> DEFINE t == s \ {Pick(s)}
    <3>1. t \in SUBSET S /\ Cardinality(t) <= n
      BY <1>1
    <3>2. g[t] = Value(g, t)
      BY <2>1, <3>1
    <3>3. h[t] = Value(g, t)
      BY <3>1
    <3> QED BY <3>2, <3>3
  <2> QED BY <2>2, <2>3
<1>5. Bad = {}
  <2> SUFFICES ASSUME Bad # {} PROVE FALSE
    OBVIOUS
  <2> HIDE DEF Bad
  <2>1. Bad \subseteq Nat
    BY DEF Bad
  <2>2. PICK n \in Bad : \A m \in Bad : ~(<<m, n>> \in OpToRel(<, Nat))
    BY <2>1, NatLessThanWellFounded, WFMin
  <2>3. n \in Nat /\ \A m \in Bad : ~(m < n)
    BY <2>1, <2>2 DEF OpToRel
  <2>4. n # 0
    BY <1>3
  <2>5. n - 1 \in Nat /\ n - 1 \notin Bad /\ n = (n - 1) + 1
    BY <2>3, <2>4
  <2> QED BY <1>4, <2>2, <2>5
<1>6. Cardinality(S) \in Nat
  BY FS_CardinalityType
<1>7. PICK g \in [SUBSET S -> Int] : UpTo(Cardinality(S), g)
  BY <1>5, <1>6
<1>8. \A s \in SUBSET S : g[s] = Value(g, s)
  BY <1>7, FS_Subset
<1>9. g = [s \in SUBSET S |-> Value(g, s)]
  BY <1>8
<1> QED BY <1>9 DEF Totals

\* The order of summation does not matter.
Adds(f, S, g) ==
  /\ g \in [SUBSET S -> Int] /\ g[{}] = 0
  /\ \A s \in SUBSET S : \A x \in s : g[s] = f[x] + g[s \ {x}]

\* Every such table adds, by induction on the subsets.
LEMMA TotalsAdd ==
  ASSUME NEW S, IsFiniteSet(S), NEW f \in [S -> Int],
         NEW g, Totals(f, S, g)
  PROVE  Adds(f, S, g)
<1> DEFINE Bad == {s \in SUBSET S : \E x \in s : g[s] # f[x] + g[s \ {x}]}
<1>1. \A s \in SUBSET S : g[s] = IF s = {} THEN 0 ELSE f[Pick(s)] + g[s \ {Pick(s)}]
  BY DEF Totals
<1> DEFINE Odd == {s \in SUBSET S : g[s] \notin Int}
<1>3. Odd = {}
  <2> SUFFICES ASSUME Odd # {} PROVE FALSE
    OBVIOUS
  <2>1. PICK s \in Odd : \A t \in Odd : t \subseteq s => t = s
    <3>1. Odd \subseteq SUBSET S
      OBVIOUS
    <3> HIDE DEF Odd
    <3> QED BY <3>1, SmallestSubset
  <2>2. s # {}
    <3>1. g[{}] = 0
      BY <1>1
    <3>2. g[s] \notin Int
      OBVIOUS
    <3> QED BY <3>1, <3>2
  <2>3. PICK y \in s : g[s] = f[y] + g[s \ {y}]
    BY <1>1, <2>2, PickIn
  <2>4. s \ {y} \in SUBSET S /\ s \ {y} \notin Odd /\ f[y] \in Int
    BY <2>1
  <2> QED BY <2>3, <2>4
<1>4. g \in [SUBSET S -> Int]
  BY <1>3 DEF Totals
<1>2. Bad = {}
  <2> SUFFICES ASSUME Bad # {} PROVE FALSE
    OBVIOUS
  <2>1. PICK s \in Bad : \A t \in Bad : t \subseteq s => t = s
    <3>1. Bad \subseteq SUBSET S
      OBVIOUS
    <3> HIDE DEF Bad
    <3> QED BY <3>1, SmallestSubset
  <2>2. PICK x \in s : g[s] # f[x] + g[s \ {x}]
    BY <2>1
  <2>3. PICK y \in s : g[s] = f[y] + g[s \ {y}]
    BY <1>1, <2>2, PickIn
  <2>4. x # y
    BY <2>2, <2>3
  <2>5. s \ {x} \in SUBSET S /\ s \ {y} \in SUBSET S /\ s \ {x} \notin Bad /\ s \ {y} \notin Bad
    BY <2>1
  <2>6. g[s \ {x}] = f[y] + g[(s \ {x}) \ {y}] /\ g[s \ {y}] = f[x] + g[(s \ {y}) \ {x}]
    BY <2>4, <2>5
  <2>7. (s \ {x}) \ {y} = (s \ {y}) \ {x} /\ (s \ {x}) \ {y} \in SUBSET S
    OBVIOUS
  <2>8. f[x] \in Int /\ f[y] \in Int /\ g[(s \ {x}) \ {y}] \in Int
    BY <1>4, <2>7
  <2>9. PICK a \in Int, b \in Int, c \in Int : a = f[x] /\ b = f[y] /\ c = g[(s \ {x}) \ {y}]
    BY <2>8
  <2>10. g[s] = b + (a + c) /\ g[s] # a + (b + c)
    BY <2>2, <2>3, <2>6, <2>7, <2>9
  <2> QED BY <2>10
<1> QED BY <1>1, <1>2, <1>4 DEF Adds

\* Two tables agree on a set over which their functions agree.
LEMMA TotalsAgree ==
  ASSUME NEW S, NEW T, NEW f \in [S -> Int], NEW h \in [T -> Int],
         NEW g, NEW k, Adds(f, S, g), Adds(h, T, k),
         NEW A, IsFiniteSet(A), A \subseteq S, A \subseteq T, \A x \in A : f[x] = h[x]
  PROVE  g[A] = k[A]
<1> DEFINE Bad == {s \in SUBSET A : g[s] # k[s]}
<1>1. Bad = {}
  <2> SUFFICES ASSUME Bad # {} PROVE FALSE
    OBVIOUS
  <2>1. PICK s \in Bad : \A t \in Bad : t \subseteq s => t = s
    <3>1. Bad \subseteq SUBSET A
      OBVIOUS
    <3> HIDE DEF Bad
    <3> QED BY <3>1, SmallestSubset
  <2>2. s # {}
    BY <2>1 DEF Adds
  <2>3. PICK x \in s : x \in A
    BY <2>2
  <2>4. g[s \ {x}] = k[s \ {x}]
    BY <2>1, <2>3
  <2>5. g[s] = f[x] + g[s \ {x}] /\ k[s] = h[x] + k[s \ {x}]
    BY <2>3 DEF Adds
  <2> QED BY <2>1, <2>3, <2>4, <2>5
<1> QED BY <1>1

\* A sum over a finite domain is the last entry of such a table.
LEMMA SumTable ==
  ASSUME NEW S, IsFiniteSet(S), NEW f \in [S -> Int]
  PROVE  \E g : Adds(f, S, g) /\ SumFunction(f) = g[S]
<1>1. PICK g : g = CHOOSE h : Totals(f, S, h)
  OBVIOUS
<1>2. \E h : Totals(f, S, h)
  BY TotalsExist
<1>3. Totals(f, S, g)
  BY <1>1, <1>2
<1>4. Adds(f, S, g)
  BY <1>3, TotalsAdd
<1>5. SumFunction(f) = g[S]
  BY <1>1, SumIsTotal DEF SumFunction
<1> QED BY <1>4, <1>5

\* A sum of integers is an integer.
LEMMA SumType ==
  ASSUME NEW S, IsFiniteSet(S), NEW f \in [S -> Int]
  PROVE  SumFunction(f) \in Int
<1>1. PICK g : Adds(f, S, g) /\ SumFunction(f) = g[S]
  BY SumTable
<1> QED BY <1>1 DEF Adds

\* Changing one summand changes the sum by the difference.
LEMMA SumChange ==
  ASSUME NEW S, IsFiniteSet(S), NEW f \in [S -> Int], NEW h \in [S -> Int], NEW x \in S,
         \A y \in S \ {x} : h[y] = f[y]
  PROVE  SumFunction(h) = SumFunction(f) + h[x] - f[x]
<1>1. PICK g : Adds(f, S, g) /\ SumFunction(f) = g[S]
  BY SumTable
<1>2. PICK k : Adds(h, S, k) /\ SumFunction(h) = k[S]
  BY SumTable
<1>3. g[S] = f[x] + g[S \ {x}] /\ g[S \ {x}] \in Int
  BY <1>1 DEF Adds
<1>4. k[S] = h[x] + k[S \ {x}]
  BY <1>2 DEF Adds
<1>5. IsFiniteSet(S \ {x})
  BY FS_RemoveElement
<1>6. g[S \ {x}] = k[S \ {x}]
  BY <1>1, <1>2, <1>5, TotalsAgree
<1>7. f[x] \in Int /\ h[x] \in Int
  OBVIOUS
<1>8. PICK a \in Int, b \in Int, c \in Int : a = f[x] /\ b = h[x] /\ c = g[S \ {x}]
  BY <1>3, <1>7
<1>9. SumFunction(f) = a + c /\ SumFunction(h) = b + c
  BY <1>1, <1>2, <1>3, <1>4, <1>6, <1>8
<1> QED BY <1>8, <1>9

\* A new summand is added.
LEMMA SumGrows ==
  ASSUME NEW T, NEW x \in T, NEW S, S = T \ {x}, IsFiniteSet(S),
         NEW f \in [S -> Int], NEW h \in [T -> Int], \A y \in S : h[y] = f[y]
  PROVE  SumFunction(h) = SumFunction(f) + h[x]
<1>1. PICK g : Adds(f, S, g) /\ SumFunction(f) = g[S]
  BY SumTable
<1>2. IsFiniteSet(T)
  <2>1. T = S \cup {x}
    OBVIOUS
  <2> QED BY <2>1, FS_AddElement
<1>3. PICK k : Adds(h, T, k) /\ SumFunction(h) = k[T]
  BY <1>2, SumTable
<1>4. T \ {x} = S /\ x \in T
  OBVIOUS
<1>5. k[T] = h[x] + k[S]
  BY <1>3, <1>4 DEF Adds
<1>6. g[S] = k[S] /\ g[S] \in Int
  <2>1. g[S] = k[S]
    BY <1>1, <1>3, TotalsAgree
  <2> QED BY <1>1, <2>1 DEF Adds
<1>7. h[x] \in Int
  OBVIOUS
<1>8. PICK a \in Int, c \in Int : a = h[x] /\ c = g[S]
  BY <1>6, <1>7
<1>9. SumFunction(f) = c /\ SumFunction(h) = a + c
  BY <1>1, <1>3, <1>5, <1>6, <1>8
<1> QED BY <1>8, <1>9

\* A sum of zeros is zero.
LEMMA SumZero ==
  ASSUME NEW S, IsFiniteSet(S), NEW f \in [S -> Int], \A x \in S : f[x] = 0
  PROVE  SumFunction(f) = 0
<1>1. PICK g : Adds(f, S, g) /\ SumFunction(f) = g[S]
  BY SumTable
<1> DEFINE Bad == {s \in SUBSET S : g[s] # 0}
<1>2. Bad = {}
  <2> SUFFICES ASSUME Bad # {} PROVE FALSE
    OBVIOUS
  <2>1. PICK s \in Bad : \A t \in Bad : t \subseteq s => t = s
    <3>1. Bad \subseteq SUBSET S
      OBVIOUS
    <3> HIDE DEF Bad
    <3> QED BY <3>1, SmallestSubset
  <2>2. PICK x \in s : TRUE
    BY <1>1, <2>1 DEF Adds
  <2>3. g[s] = 0 + g[s \ {x}] /\ g[s \ {x}] = 0
    BY <1>1, <2>1, <2>2 DEF Adds
  <2> QED BY <2>3
<1> QED BY <1>1, <1>2

-----------------------------------------------------------------------------
USE RegistryAssumption

-----------------------------------------------------------------------------
(* Facts about the operators.                                              *)

\* Products of naturals are monotone naturals: prices times block counts.
LEMMA ProductFacts ==
  \A a, b, c \in Nat : /\ a * c \in Nat
                       /\ c * a = a * c
                       /\ a <= b => a * c <= b * c
                       /\ (a + b) * c = a * c + b * c
  OBVIOUS

\* A leaf's own range as a set: the blocks of the leaf outside the paid hull are
\* counted by Fresh.
LEMMA FreshCounts ==
  ASSUME NEW f \in Funding, NEW from \in Nat, NEW to \in Nat, from <= to,
         NEW S, S \subseteq f.paidFrom .. f.paidTo, f.paidTo = 0 => S = {}
  PROVE  /\ Fresh(f, from, to) \in Nat
         /\ Fresh(f, from, to) <= Cardinality((from .. to) \ S)
<1> DEFINE lo == IF from < f.paidFrom THEN f.paidFrom ELSE from
           hi == IF to > f.paidTo THEN f.paidTo ELSE to
           leaf == from .. to
           hull == IF f.paidTo = 0 THEN {} ELSE f.paidFrom .. f.paidTo
           overlap == IF f.paidTo # 0 /\ lo <= hi THEN hi - lo + 1 ELSE 0
<1>1. f.paidFrom \in Nat /\ f.paidTo \in Nat
  BY DEF Funding
<1>2. IsFiniteSet(leaf) /\ Cardinality(leaf) = to - from + 1
  BY FS_Interval
<1>3. leaf \cap hull = IF f.paidTo # 0 /\ lo <= hi THEN lo .. hi ELSE {}
  BY <1>1
<1>4. Cardinality(leaf \cap hull) = overlap
  <2>1. CASE f.paidTo # 0 /\ lo <= hi
    <3>1. lo \in Int /\ hi \in Int /\ lo <= hi
      BY <1>1, <2>1
    <3>2. Cardinality(lo .. hi) = hi - lo + 1
      <4> HIDE DEF lo, hi
      <4> QED BY <3>1, FS_Interval
    <3> QED BY <1>3, <2>1, <3>2
  <2>2. CASE ~(f.paidTo # 0 /\ lo <= hi)
    <3>1. leaf \cap hull = {}
      BY <1>3, <2>2
    <3>2. overlap = 0
      BY <2>2
    <3> HIDE DEF leaf, hull, overlap
    <3> QED BY <3>1, <3>2, FS_EmptySet
  <2> QED BY <2>1, <2>2
<1>5. Cardinality(leaf \ hull) = Cardinality(leaf) - Cardinality(leaf \cap hull)
  BY <1>2, FS_Difference
<1>6. Fresh(f, from, to) = Cardinality(leaf \ hull)
  BY <1>1, <1>2, <1>4, <1>5 DEF Fresh
<1>7. IsFiniteSet(leaf \ S) /\ IsFiniteSet(leaf \ hull)
  BY <1>2, FS_Difference
<1>8. leaf \ hull \subseteq leaf \ S
  OBVIOUS
<1>9. Cardinality(leaf \ hull) <= Cardinality(leaf \ S)
  BY <1>7, <1>8, FS_Subset
<1> QED
  BY <1>6, <1>7, <1>9, FS_CardinalityType

\* Paying a leaf adds its unpaid blocks, and only those, to the count of paid blocks.
LEMMA PaidGrows ==
  ASSUME NEW S, IsFiniteSet(S), NEW from \in Nat, NEW to \in Nat
  PROVE  /\ IsFiniteSet(S \cup (from .. to))
         /\ Cardinality(S \cup (from .. to)) = Cardinality(S) + Cardinality((from .. to) \ S)
         /\ Cardinality((from .. to) \ S) \in Nat
<1> DEFINE new == (from .. to) \ S
<1>1. IsFiniteSet(from .. to)
  BY FS_Interval
<1>2. IsFiniteSet(new)
  BY <1>1, FS_Difference
<1>3. S \cap new = {} /\ S \cup new = S \cup (from .. to)
  OBVIOUS
<1>4. Cardinality(S \cup new) = Cardinality(S) + Cardinality(new) - Cardinality(S \cap new)
  BY <1>2, FS_Union
<1>5. Cardinality(S) \in Nat /\ Cardinality(new) \in Nat
  BY <1>2, FS_CardinalityType
<1>6. IsFiniteSet(S \cup new)
  BY <1>2, FS_Union
<1>7. Cardinality(S \cap new) = 0
  BY <1>3, FS_EmptySet
<1>8. Cardinality(S \cup new) = Cardinality(S) + Cardinality(new)
  BY <1>4, <1>5, <1>7
<1> QED
  BY <1>3, <1>5, <1>6, <1>8

-----------------------------------------------------------------------------
(* Type correctness.                                                       *)

\* A decision keeps the epochs and the pointers in their types.
LEMMA ResolveType ==
  ASSUME TypeOK, NEW i \in DOMAIN epochs, NEW upheld \in BOOLEAN, Resolve(i, upheld)
  PROVE  /\ epochs' \in Seq(Epoch) /\ Len(epochs') = Len(epochs)
         /\ latestFinalized' \in [Chains -> Nat]
         /\ ether' \in Int
<1>1. epochs[i] \in Epoch /\ i \in 1 .. Len(epochs)
  BY DEF TypeOK
<1>2. epochs' \in Seq(Epoch) /\ Len(epochs') = Len(epochs)
  <2>1. epochs' = [epochs EXCEPT ![i] = [epochs[i] EXCEPT !.bond = 0,
                      !.status = IF upheld THEN "Finalized" ELSE "Rejected"]]
    BY <1>1 DEF Resolve, TypeOK, Epoch
  <2>2. [epochs[i] EXCEPT !.bond = 0, !.status = IF upheld THEN "Finalized" ELSE "Rejected"] \in Epoch
    BY <1>1 DEF Epoch, Status
  <2> QED BY <1>1, <2>1, <2>2 DEF TypeOK
<1>3. latestFinalized' \in [Chains -> Nat]
  <2>1. epochs[i].chain \in Chains /\ i \in Nat
    BY <1>1 DEF Epoch
  <2>2. NewestOf(latestFinalized[epochs[i].chain], i) \in Nat
    BY <2>1 DEF TypeOK, NewestOf
  <2>3. latestFinalized' = IF upheld
           THEN [latestFinalized EXCEPT ![epochs[i].chain]
                   = NewestOf(latestFinalized[epochs[i].chain], i)]
           ELSE latestFinalized
    BY DEF Resolve
  <2> QED BY <2>1, <2>2, <2>3 DEF TypeOK
<1>4. ether' \in Int
  <2>1. Pot(i) \in Nat
    BY <1>1 DEF Pot, Epoch
  <2> QED BY <2>1 DEF Resolve, TypeOK
<1> QED BY <1>2, <1>3, <1>4

\* Replacing one epoch by another keeps the sequence and its length.
LEMMA EpochReplaced ==
  ASSUME NEW s \in Seq(Epoch), NEW i \in DOMAIN s, NEW e \in Epoch
  PROVE  [s EXCEPT ![i] = e] \in Seq(Epoch) /\ Len([s EXCEPT ![i] = e]) = Len(s)
  OBVIOUS

\* A reward is a natural number the balance covers.
LEMMA RewardType ==
  ASSUME NEW f \in Funding, NEW from \in Nat, NEW to \in Nat, from <= to,
         NEW S, S \subseteq f.paidFrom .. f.paidTo, f.paidTo = 0 => S = {}
  PROVE  Reward(f, from, to) \in Nat /\ Reward(f, from, to) <= f.balance
<1>1. Fresh(f, from, to) \in Nat
  BY FreshCounts
<1>2. Fresh(f, from, to) * rewardPerBlock \in Nat
  BY <1>1, ProductFacts
<1>3. f.balance \in Nat
  BY DEF Funding
<1> QED BY <1>2, <1>3 DEF Reward

\* Registering writes one row and at most one list entry.
LEMMA RegisterType ==
  ASSUME TypeOK, NEW u \in Users, NEW k \in Keys, Register(u, k)
  PROVE  assets' \in [Keys -> AssetRow] /\ assetKeys' \in Seq(Keys)
  BY DEF TypeOK, Register, Listed, AssetRow

\* Funding adds to one balance and its lifetime counter, and to nothing else.
LEMMA FundType ==
  ASSUME TypeOK, NEW k \in Keys, NEW amount \in Nat, Fund(k, amount)
  PROVE  /\ funding' \in [Keys -> Funding]
         /\ funding'[k].balance = funding[k].balance + amount
         /\ funding'[k].vouched = funding[k].vouched + amount
         /\ funding'[k].paidFrom = funding[k].paidFrom
         /\ funding'[k].paidTo = funding[k].paidTo
         /\ \A j \in Keys \ {k} : funding'[j] = funding[j]
<1>1. PICK f \in Funding : f = funding[k]
  BY DEF TypeOK
<1>2. PICK b \in Nat, v \in Nat : b = f.balance + amount /\ v = f.vouched + amount
  BY DEF Funding
<1>3. funding' = [funding EXCEPT ![k] = [f EXCEPT !.balance = b, !.vouched = v]]
  BY <1>1, <1>2 DEF Fund, TypeOK, Funding
<1>4. PICK g : g = [f EXCEPT !.balance = b, !.vouched = v]
  OBVIOUS
<1>5. g \in Funding /\ g.balance = b /\ g.vouched = v
      /\ g.paidFrom = f.paidFrom /\ g.paidTo = f.paidTo
  BY <1>4 DEF Funding
<1>6. funding' \in [Keys -> Funding] /\ funding'[k] = g
      /\ \A j \in Keys \ {k} : funding'[j] = funding[j]
  BY <1>3, <1>4, <1>5 DEF TypeOK
<1> QED BY <1>1, <1>2, <1>5, <1>6

\* The funding row after a paid claim, field by field.
LEMMA PaidRow ==
  ASSUME NEW f \in Funding, NEW from \in Nat, NEW to \in Nat,
         NEW reward \in Nat, reward <= f.balance
  PROVE  LET row == [balance |-> f.balance - reward,
                     paidFrom |-> IF f.paidTo = 0 \/ from < f.paidFrom THEN from ELSE f.paidFrom,
                     paidTo |-> IF f.paidTo = 0 \/ to > f.paidTo THEN to ELSE f.paidTo,
                     vouched |-> f.vouched]
         IN  /\ [Extend(f, from, to) EXCEPT !.balance = @ - reward] = row
             /\ row \in Funding
<1>1. f.balance \in Nat /\ f.paidFrom \in Nat /\ f.paidTo \in Nat /\ f.vouched \in Nat
  BY DEF Funding
<1>2. PICK lo \in Nat : lo = IF f.paidTo = 0 \/ from < f.paidFrom THEN from ELSE f.paidFrom
  BY <1>1
<1>3. PICK hi \in Nat : hi = IF f.paidTo = 0 \/ to > f.paidTo THEN to ELSE f.paidTo
  BY <1>1
<1>4. Extend(f, from, to) = [f EXCEPT !.paidFrom = lo, !.paidTo = hi]
  BY <1>2, <1>3 DEF Extend
<1>5. Extend(f, from, to) = [balance |-> f.balance, paidFrom |-> lo, paidTo |-> hi, vouched |-> f.vouched]
  BY <1>4 DEF Funding
<1>6. [Extend(f, from, to) EXCEPT !.balance = @ - reward]
        = [balance |-> f.balance - reward, paidFrom |-> lo, paidTo |-> hi, vouched |-> f.vouched]
  BY <1>5
<1> QED BY <1>1, <1>2, <1>3, <1>6 DEF Funding

\* A claim moves one funding row, its reward and the blocks it names.
LEMMA ClaimEffect ==
  ASSUME TypeOK, NEW i \in DOMAIN epochs, NEW l \in epochs[i].coverage, ClaimCoverage(i, l)
  PROVE  LET f == funding[l.key]
             reward == Reward(f, l.from, l.to)
             lo == IF f.paidTo = 0 \/ l.from < f.paidFrom THEN l.from ELSE f.paidFrom
             hi == IF f.paidTo = 0 \/ l.to > f.paidTo THEN l.to ELSE f.paidTo
         IN  /\ l \in Leaf /\ l.from <= l.to /\ l.to # 0
             /\ reward \in Nat /\ reward <= f.balance
             /\ funding' = [funding EXCEPT ![l.key] =
                  [balance |-> f.balance - reward, paidFrom |-> lo, paidTo |-> hi,
                   vouched |-> f.vouched]]
             /\ funding' \in [Keys -> Funding]
<1> DEFINE f == funding[l.key]
           reward == Reward(f, l.from, l.to)
<1>1. l \in Leaf
  <2>1. epochs[i] \in Epoch
    BY DEF TypeOK
  <2> QED BY <2>1 DEF Epoch
<1>2. l.key \in Keys /\ l.from \in Nat /\ l.to \in Nat
  BY <1>1 DEF Leaf
<1>3. f \in Funding
  BY <1>2 DEF TypeOK
<1>4. l.from <= l.to /\ l.to # 0
  BY <1>2 DEF ClaimCoverage
<1>5. reward \in Nat /\ reward <= f.balance
  BY <1>2, <1>3, <1>4, RewardType
<1>6. funding' = [funding EXCEPT ![l.key] =
                       [Extend(f, l.from, l.to) EXCEPT !.balance = @ - reward]]
  BY DEF ClaimCoverage
<1> DEFINE row == [balance |-> f.balance - reward,
          paidFrom |-> IF f.paidTo = 0 \/ l.from < f.paidFrom THEN l.from ELSE f.paidFrom,
          paidTo |-> IF f.paidTo = 0 \/ l.to > f.paidTo THEN l.to ELSE f.paidTo,
          vouched |-> f.vouched]
<1>7. [Extend(f, l.from, l.to) EXCEPT !.balance = @ - reward] = row /\ row \in Funding
  <2> HIDE DEF f, reward
  <2> QED BY <1>2, <1>3, <1>5, PaidRow
<1>8. funding' = [funding EXCEPT ![l.key] = row]
  BY <1>6, <1>7
<1>9. funding' \in [Keys -> Funding]
  <2> HIDE DEF row
  <2> QED BY <1>2, <1>7, <1>8 DEF TypeOK
<1> QED BY <1>1, <1>4, <1>5, <1>8, <1>9

\* Every step of the registry keeps its state in its type.
LEMMA TypeStep == TypeOK /\ [Next]_vars => TypeOK'
<1> SUFFICES ASSUME TypeOK, [Next]_vars PROVE TypeOK'
  OBVIOUS
<1> USE DEF assetVars, moneyVars, epochVars
<1>1. ASSUME NEW k \in Keys, NEW u \in Users, RegisterAsset(u, k) PROVE TypeOK'
  BY <1>1, RegisterType DEF RegisterAsset, TypeOK
<1>2. ASSUME NEW k \in Keys, NEW u \in Users, RevokeAsset(u, k) PROVE TypeOK'
  <2>1. PICK a \in AssetRow : a = assets[k]
    BY DEF TypeOK
  <2>2. assets' = [assets EXCEPT ![k] = [a EXCEPT !.active = FALSE, !.bond = 0]]
    BY <1>2, <2>1 DEF RevokeAsset, TypeOK, AssetRow
  <2>3. [a EXCEPT !.active = FALSE, !.bond = 0] \in AssetRow
    BY DEF AssetRow
  <2>4. assets' \in [Keys -> AssetRow]
    BY <2>2, <2>3 DEF TypeOK
  <2>5. ether' \in Int
    BY <1>2, <2>1 DEF RevokeAsset, TypeOK, AssetRow
  <2> QED BY <1>2, <2>4, <2>5 DEF RevokeAsset, TypeOK
<1>3. ASSUME NEW k \in Keys, NEW u \in Users, NEW v \in Amounts, RequestIndexing(u, k, v)
      PROVE  TypeOK'
  <2>1. v \in Nat
    OBVIOUS
  <2>2. CASE assets[k].active
    <3>1. Fund(k, v) /\ UNCHANGED assetVars
      BY <1>3, <2>2 DEF RequestIndexing
    <3>2. funding' \in [Keys -> Funding]
      BY <2>1, <3>1, FundType
    <3> QED BY <1>3, <2>1, <3>1, <3>2 DEF RequestIndexing, TypeOK
  <2>3. CASE ~assets[k].active
    <3>1. v - assetBond \in Nat
      BY <1>3, <2>1, <2>3 DEF RequestIndexing
    <3>2. Fund(k, v - assetBond) /\ Register(u, k)
      BY <1>3, <2>3 DEF RequestIndexing
    <3>3. funding' \in [Keys -> Funding]
      BY <3>1, <3>2, FundType
    <3>4. assets' \in [Keys -> AssetRow] /\ assetKeys' \in Seq(Keys)
      BY <3>2, RegisterType
    <3> QED BY <1>3, <2>1, <3>3, <3>4 DEF RequestIndexing, TypeOK
  <2> QED BY <2>2, <2>3
<1>4. ASSUME NEW k \in Keys, NEW v \in Amounts, FundAsset(k, v) PROVE TypeOK'
  <2>1. v \in Nat /\ Fund(k, v)
    BY <1>4 DEF FundAsset
  <2>2. funding' \in [Keys -> Funding]
    BY <2>1, FundType
  <2> QED BY <1>4, <2>1, <2>2 DEF FundAsset, TypeOK
<1>5. ASSUME NEW u \in Users, NEW c \in Chains, NEW r \in EpochRanges, NEW cov \in Coverages,
             PublishIndex(u, c, r, cov)
      PROVE  TypeOK'
  <2> DEFINE e == [chain |-> c, from |-> r[1], to |-> r[2], coverage |-> cov,
                   publisher |-> u, challenger |-> NoOne, bond |-> publisherBond,
                   publishedAt |-> now, deadline |-> (now + challengeWindow) % U64,
                   status |-> "Proposed"]
             a == [disputed |-> FALSE, voteCast |-> FALSE, voteTruthful |-> FALSE,
                   settled |-> FALSE, truthful |-> FALSE]
  <2>1. (now + challengeWindow) % U64 \in Nat
    BY DEF TypeOK
  <2>2. r[1] \in Nat /\ r[2] \in Nat /\ cov \in SUBSET Leaf
    OBVIOUS
  <2>3. e \in Epoch
    BY <2>1, <2>2 DEF Epoch, Status, TypeOK
  <2>4. a \in Assertion
    BY DEF Assertion
  <2>5. epochs' = Append(epochs, e)
    BY <1>5 DEF PublishIndex
  <2>6. OracleMode => assertions' = Append(assertions, a) /\ ether' = ether
    BY <1>5 DEF PublishIndex
  <2>7. ~OracleMode => assertions' = assertions /\ ether' = ether + publisherBond
    BY <1>5 DEF PublishIndex
  <2>8. epochs' \in Seq(Epoch) /\ Len(epochs') = Len(epochs) + 1
    <3> HIDE DEF e
    <3> QED BY <2>3, <2>5 DEF TypeOK
  <2>9. assertions' \in Seq(Assertion)
        /\ Len(assertions') = (IF OracleMode THEN Len(epochs') ELSE 0) /\ ether' \in Int
    <3> HIDE DEF a, e
    <3>1. CASE OracleMode
      <4>1. assertions \in Seq(Assertion) /\ Len(assertions) = Len(epochs)
        BY <3>1 DEF TypeOK
      <4>2. assertions' = Append(assertions, a) /\ ether' = ether
        BY <2>6, <3>1
      <4>3. assertions' \in Seq(Assertion) /\ Len(assertions') = Len(assertions) + 1
        BY <2>4, <4>1, <4>2
      <4> QED BY <2>8, <3>1, <4>1, <4>2, <4>3 DEF TypeOK
    <3>2. CASE ~OracleMode
      BY <2>7, <2>8, <3>2 DEF TypeOK
    <3> QED BY <3>1, <3>2
  <2> QED BY <1>5, <2>8, <2>9 DEF PublishIndex, TypeOK
<1>6. ASSUME NEW i \in DOMAIN epochs, NEW u \in Users, ChallengeIndex(u, i) PROVE TypeOK'
  <2>1. PICK e \in Epoch : e = epochs[i]
    BY DEF TypeOK
  <2>2. CASE OracleMode
    <3>1. PICK a \in Assertion : a = assertions[i]
      BY <2>2 DEF TypeOK
    <3>2. epochs' = [epochs EXCEPT ![i] = [e EXCEPT !.challenger = u, !.status = "Challenged"]]
      BY <1>6, <2>1, <2>2 DEF ChallengeIndex, TypeOK, Epoch
    <3>3. [e EXCEPT !.challenger = u, !.status = "Challenged"] \in Epoch
      BY DEF Epoch, Status
    <3>4. epochs' \in Seq(Epoch) /\ Len(epochs') = Len(epochs)
      BY <3>2, <3>3 DEF TypeOK
    <3>5. assertions' = [assertions EXCEPT ![i] = [a EXCEPT !.disputed = TRUE]]
      BY <1>6, <2>2, <3>1 DEF ChallengeIndex, TypeOK, Assertion
    <3>6. [a EXCEPT !.disputed = TRUE] \in Assertion
      BY DEF Assertion
    <3>7. assertions' \in Seq(Assertion) /\ Len(assertions') = Len(assertions)
      BY <2>2, <3>5, <3>6 DEF TypeOK
    <3> QED BY <1>6, <2>2, <3>4, <3>7 DEF ChallengeIndex, TypeOK
  <2>3. CASE ~OracleMode
    <3>1. epochs' = [epochs EXCEPT ![i] = [e EXCEPT !.challenger = u, !.status = "Challenged",
                                                    !.bond = e.bond + e.bond]]
      BY <1>6, <2>1, <2>3 DEF ChallengeIndex, TypeOK, Epoch
    <3>2. e.bond \in Nat
      BY DEF Epoch
    <3>3. [e EXCEPT !.challenger = u, !.status = "Challenged", !.bond = e.bond + e.bond] \in Epoch
      <4>1. PICK b \in Nat : b = e.bond + e.bond
        BY <3>2
      <4>2. [e EXCEPT !.challenger = u, !.status = "Challenged", !.bond = b] \in Epoch
        BY DEF Epoch, Status
      <4> QED BY <4>1, <4>2
    <3>4. epochs' \in Seq(Epoch) /\ Len(epochs') = Len(epochs)
      BY <3>1, <3>3 DEF TypeOK
    <3>5. ether' = ether + e.bond /\ assertions' = assertions
      BY <1>6, <2>1, <2>3 DEF ChallengeIndex
    <3>6. ether' \in Int
      BY <3>2, <3>5 DEF TypeOK
    <3> QED BY <1>6, <2>3, <3>4, <3>5, <3>6 DEF ChallengeIndex, TypeOK
  <2> QED BY <2>2, <2>3
<1>7. ASSUME NEW i \in DOMAIN epochs, NEW upheld \in BOOLEAN, ResolveChallenge(i, upheld)
      PROVE  TypeOK'
  BY <1>7, ResolveType DEF ResolveChallenge, TypeOK
<1>8. ASSUME NEW i \in DOMAIN epochs, SettleAt(i), OracleMode
      PROVE  assertions' \in Seq(Assertion) /\ Len(assertions') = Len(assertions)
  <2>1. PICK a \in Assertion : a = assertions[i]
    BY <1>8 DEF TypeOK
  <2>2. Outcome(i) \in BOOLEAN
    BY <2>1 DEF Outcome, Assertion
  <2>3. assertions' = [assertions EXCEPT ![i] = [a EXCEPT !.settled = TRUE, !.truthful = Outcome(i)]]
    BY <1>8, <2>1 DEF SettleAt, TypeOK, Assertion
  <2>4. PICK o \in BOOLEAN : o = Outcome(i)
    BY <2>2
  <2>5. [a EXCEPT !.settled = TRUE, !.truthful = o] \in Assertion
    BY DEF Assertion
  <2> QED BY <1>8, <2>3, <2>4, <2>5 DEF TypeOK
<1>9. ASSUME NEW i \in DOMAIN epochs, OracleMode PROVE Outcome(i) \in BOOLEAN
  <2>1. PICK a \in Assertion : a = assertions[i]
    BY <1>9 DEF TypeOK
  <2> QED BY <2>1 DEF Outcome, Assertion
<1>10. ASSUME NEW i \in DOMAIN epochs, FinalizeIndex(i) PROVE TypeOK'
  BY <1>8, <1>9, <1>10, ResolveType DEF FinalizeIndex, TypeOK
<1>11. ASSUME NEW i \in DOMAIN epochs, NEW l \in epochs[i].coverage, ClaimCoverage(i, l)
       PROVE  TypeOK'
  <2>1. /\ l.key \in Keys /\ Reward(funding[l.key], l.from, l.to) \in Nat
        /\ l.from \in Nat /\ l.to \in Nat
        /\ funding' \in [Keys -> Funding]
    BY <1>11, ClaimEffect DEF Leaf
  <2>2. Blocks(l) \subseteq Nat
    BY <2>1 DEF Blocks
  <2>3. paidBlocks' \in [Keys -> SUBSET Nat]
    BY <1>11, <2>1, <2>2 DEF ClaimCoverage, TypeOK
  <2>4. earned' \in [Keys -> Nat] /\ ether' \in Int
    <3>1. PICK r \in Nat : r = Reward(funding[l.key], l.from, l.to)
      BY <2>1
    <3>2. earned' = [earned EXCEPT ![l.key] = @ + r] /\ ether' = ether - r
      BY <1>11, <3>1 DEF ClaimCoverage
    <3> QED BY <2>1, <3>1, <3>2 DEF TypeOK
  <2> QED BY <1>11, <2>1, <2>3, <2>4 DEF ClaimCoverage, TypeOK
<1>12. ASSUME NEW i \in DOMAIN assertions, NEW b \in BOOLEAN, OracleDispute(i, b) PROVE TypeOK'
  <2>1. i \in DOMAIN epochs
    BY <1>12 DEF OracleDispute, TypeOK
  <2>2. PICK a \in Assertion : a = assertions[i]
    BY DEF TypeOK
  <2>3. assertions' = [assertions EXCEPT ![i] = [a EXCEPT !.disputed = TRUE]]
    BY <1>12, <2>2 DEF OracleDispute, TypeOK, Assertion
  <2>4. [a EXCEPT !.disputed = TRUE] \in Assertion
    BY DEF Assertion
  <2>5. assertions' \in Seq(Assertion) /\ Len(assertions') = Len(assertions)
    BY <2>3, <2>4 DEF TypeOK
  <2>6. PICK e \in Epoch : e = epochs[i]
    BY <2>1 DEF TypeOK
  <2>7. [e EXCEPT !.status = "Challenged"] \in Epoch
    BY DEF Epoch, Status
  <2>8. epochs' = [epochs EXCEPT ![i] = [e EXCEPT !.status = "Challenged"]] \/ epochs' = epochs
    BY <1>12, <2>1, <2>6 DEF OracleDispute, TypeOK, Epoch
  <2>9. epochs' \in Seq(Epoch) /\ Len(epochs') = Len(epochs)
    <3>1. CASE epochs' = epochs
      BY <3>1 DEF TypeOK
    <3>2. CASE epochs' = [epochs EXCEPT ![i] = [e EXCEPT !.status = "Challenged"]]
      <4>1. PICK g \in Epoch : g = [e EXCEPT !.status = "Challenged"]
        BY <2>7
      <4>2. epochs' = [epochs EXCEPT ![i] = g] /\ epochs \in Seq(Epoch)
        BY <3>2, <4>1 DEF TypeOK
      <4> QED BY <2>1, <4>2, EpochReplaced
    <3> QED BY <2>8, <3>1, <3>2
  <2> QED BY <1>12, <2>5, <2>9 DEF OracleDispute, TypeOK
<1>13. ASSUME NEW i \in DOMAIN assertions, NEW b \in BOOLEAN, OracleVote(i, b) PROVE TypeOK'
  <2>1. PICK a \in Assertion : a = assertions[i]
    BY DEF TypeOK
  <2>2. assertions' = [assertions EXCEPT ![i] = [a EXCEPT !.voteCast = TRUE, !.voteTruthful = b]]
    BY <1>13, <2>1 DEF OracleVote, TypeOK, Assertion
  <2>3. [a EXCEPT !.voteCast = TRUE, !.voteTruthful = b] \in Assertion
    BY DEF Assertion
  <2>4. assertions' \in Seq(Assertion) /\ Len(assertions') = Len(assertions)
    BY <2>2, <2>3 DEF TypeOK
  <2> QED BY <1>13, <2>4 DEF OracleVote, TypeOK
<1>14. ASSUME NEW i \in DOMAIN assertions, NEW b \in BOOLEAN, OracleSettle(i, b) PROVE TypeOK'
  <2>1. i \in DOMAIN epochs /\ OracleMode
    BY <1>14 DEF OracleSettle, TypeOK
  <2>2. assertions' \in Seq(Assertion) /\ Len(assertions') = Len(assertions)
    BY <1>8, <1>14, <2>1 DEF OracleSettle
  <2>3. CASE b /\ Undecided(i)
    BY <1>9, <1>14, <2>1, <2>2, <2>3, ResolveType DEF OracleSettle, TypeOK
  <2>4. CASE ~(b /\ Undecided(i))
    BY <1>14, <2>2, <2>4 DEF OracleSettle, TypeOK
  <2> QED BY <2>3, <2>4
<1>15. ASSUME Tick PROVE TypeOK'
  BY <1>15 DEF Tick, TypeOK
<1>16. ASSUME UNCHANGED vars PROVE TypeOK'
  BY <1>16 DEF vars, TypeOK
<1> QED
  BY <1>1, <1>2, <1>3, <1>4, <1>5, <1>6, <1>7, <1>10, <1>11, <1>12, <1>13, <1>14, <1>15, <1>16
     DEF Next, AssetNext, EpochNext, OracleNext

\* The registry's state stays in its type, whatever is called in whatever order.
THEOREM TypeCorrect == Spec => []TypeOK
<1>1. Init => TypeOK
  BY DEF Init, TypeOK, AssetRow, Funding
<1> QED BY <1>1, TypeStep, PTL DEF Spec

-----------------------------------------------------------------------------
(* Coverage rewards.  NoBlockPaidTwice is not inductive: what Fresh        *)
(* subtracts is the stored hull, so the invariant also says that the hull  *)
(* contains every block paid for.                                          *)

RewardInv ==
  /\ TypeOK
  /\ \A k \in Keys : IsFiniteSet(paidBlocks[k])
  /\ PaidInsideHull
  /\ NoBlockPaidTwice
  /\ FundingConserved

\* A step that leaves the money alone keeps the invariant.
LEMMA RewardFrame ==
  ASSUME RewardInv, TypeOK', UNCHANGED moneyVars
  PROVE  RewardInv'
  BY DEF RewardInv, PaidInsideHull, NoBlockPaidTwice, FundingConserved, moneyVars

\* Funding an asset keeps the invariant: the new wei are vouched and unspent.
LEMMA RewardFund ==
  ASSUME RewardInv, TypeOK', NEW k \in Keys, NEW amount \in Nat, Fund(k, amount),
         UNCHANGED <<earned, paidBlocks>>
  PROVE  RewardInv'
<1>1. /\ funding'[k].balance = funding[k].balance + amount
      /\ funding'[k].vouched = funding[k].vouched + amount
      /\ funding'[k].paidFrom = funding[k].paidFrom
      /\ funding'[k].paidTo = funding[k].paidTo
      /\ \A j \in Keys \ {k} : funding'[j] = funding[j]
  BY FundType DEF RewardInv
<1>2. funding[k] \in Funding /\ earned[k] \in Nat
  BY DEF RewardInv, TypeOK
<1>3. PaidInsideHull'
  BY <1>1 DEF RewardInv, PaidInsideHull
<1>4. NoBlockPaidTwice' /\ \A j \in Keys : IsFiniteSet(paidBlocks'[j])
  BY DEF RewardInv, NoBlockPaidTwice
<1>5. FundingConserved'
  <2>1. funding'[k].vouched = funding'[k].balance + earned'[k]
    BY <1>1, <1>2 DEF RewardInv, FundingConserved, Funding
  <2> QED BY <1>1, <2>1 DEF RewardInv, FundingConserved
<1> QED BY <1>3, <1>4, <1>5 DEF RewardInv

\* A claim keeps the invariant: it pays for blocks outside the hull only, and the hull
\* grows to the leaf.
LEMMA RewardClaim ==
  ASSUME RewardInv, TypeOK', NEW i \in DOMAIN epochs, NEW l \in epochs[i].coverage,
         ClaimCoverage(i, l)
  PROVE  RewardInv'
<1> DEFINE k == l.key
           S == paidBlocks[k]
<1>1. TypeOK
  BY DEF RewardInv
<1>2. l \in Leaf /\ l.from <= l.to /\ l.to # 0
  BY <1>1, ClaimEffect
<1>3. k \in Keys /\ l.from \in Nat /\ l.to \in Nat
  BY <1>2 DEF Leaf
<1>4. PICK f \in Funding : f = funding[k]
  BY <1>1, <1>3 DEF TypeOK
<1>5. PICK r \in Nat : r = Reward(f, l.from, l.to) /\ r <= f.balance
  BY <1>1, <1>4, ClaimEffect
<1>6. PICK g : g = [balance |-> f.balance - r,
                    paidFrom |-> IF f.paidTo = 0 \/ l.from < f.paidFrom THEN l.from ELSE f.paidFrom,
                    paidTo |-> IF f.paidTo = 0 \/ l.to > f.paidTo THEN l.to ELSE f.paidTo,
                    vouched |-> f.vouched]
  OBVIOUS
<1>7. funding' = [funding EXCEPT ![k] = g]
  BY <1>1, <1>4, <1>5, <1>6, ClaimEffect
<1>8. funding'[k] = g /\ \A j \in Keys \ {k} : funding'[j] = funding[j]
  BY <1>1, <1>3, <1>7 DEF TypeOK
<1>9. /\ earned'[k] = earned[k] + r /\ earned[k] \in Nat
      /\ \A j \in Keys \ {k} : earned'[j] = earned[j]
  <2>1. earned' = [earned EXCEPT ![k] = @ + r]
    BY <1>4, <1>5 DEF ClaimCoverage
  <2> QED BY <1>1, <1>3, <2>1 DEF TypeOK
<1>10. /\ paidBlocks'[k] = S \cup (l.from .. l.to)
       /\ \A j \in Keys \ {k} : paidBlocks'[j] = paidBlocks[j]
  <2>1. paidBlocks' = [paidBlocks EXCEPT ![k] = @ \cup (l.from .. l.to)]
    BY DEF ClaimCoverage, Blocks
  <2> QED BY <1>1, <1>3, <2>1 DEF TypeOK
<1>11. f.balance \in Nat /\ f.paidFrom \in Nat /\ f.paidTo \in Nat /\ f.vouched \in Nat
  BY DEF Funding
<1>12. S \subseteq f.paidFrom .. f.paidTo /\ (f.paidTo = 0 => S = {}) /\ IsFiniteSet(S)
  <2>1. S \subseteq f.paidFrom .. f.paidTo /\ (f.paidTo = 0 => S = {})
    <3>1. /\ S \subseteq funding[k].paidFrom .. funding[k].paidTo
          /\ funding[k].paidTo = 0 => S = {}
      <4>1. PaidInsideHull
        BY DEF RewardInv
      <4> QED BY <1>3, <4>1 DEF PaidInsideHull
    <3> QED BY <1>4, <3>1
  <2>2. IsFiniteSet(S)
    BY <1>3 DEF RewardInv
  <2> QED BY <2>1, <2>2
<1>13. PaidInsideHull'
  <2>1. S \cup (l.from .. l.to) \subseteq g.paidFrom .. g.paidTo
    BY <1>2, <1>3, <1>6, <1>11, <1>12
  <2>2. g.paidTo # 0
    BY <1>2, <1>3, <1>6, <1>11
  <2> QED BY <1>8, <1>10, <2>1, <2>2 DEF RewardInv, PaidInsideHull
<1>14. NoBlockPaidTwice' /\ \A j \in Keys : IsFiniteSet(paidBlocks'[j])
  <2> DEFINE n == Cardinality(S)
             m == Cardinality((l.from .. l.to) \ S)
             fresh == Fresh(f, l.from, l.to)
  <2>1. fresh \in Nat /\ fresh <= m
    BY <1>2, <1>3, <1>12, FreshCounts
  <2>2. /\ IsFiniteSet(paidBlocks'[k]) /\ m \in Nat
        /\ Cardinality(paidBlocks'[k]) = n + m
    <3>1. PICK T : T = S
      OBVIOUS
    <3>2. /\ IsFiniteSet(T \cup (l.from .. l.to))
          /\ Cardinality(T \cup (l.from .. l.to)) = Cardinality(T) + Cardinality((l.from .. l.to) \ T)
          /\ Cardinality((l.from .. l.to) \ T) \in Nat
      BY <1>3, <1>12, <3>1, PaidGrows
    <3> QED BY <1>10, <3>1, <3>2
  <2>3. n \in Nat
    BY <1>12, FS_CardinalityType
  <2>4. r <= fresh * rewardPerBlock
    <3>1. fresh * rewardPerBlock \in Nat
      BY <2>1, ProductFacts
    <3>2. r = IF fresh * rewardPerBlock > f.balance THEN f.balance ELSE fresh * rewardPerBlock
      BY <1>5 DEF Reward
    <3> HIDE DEF fresh
    <3>3. PICK x \in Nat : x = fresh * rewardPerBlock
      BY <3>1
    <3> QED BY <1>11, <3>2, <3>3
  <2>5. earned[k] <= rewardPerBlock * n
    BY <1>3 DEF RewardInv, NoBlockPaidTwice
  <2> HIDE DEF n, m, fresh
  <2>6. fresh * rewardPerBlock <= m * rewardPerBlock
    BY <2>1, <2>2, ProductFacts
  <2>7. rewardPerBlock * n = n * rewardPerBlock
        /\ rewardPerBlock * (n + m) = n * rewardPerBlock + m * rewardPerBlock
    <3>1. n + m \in Nat
      BY <2>2, <2>3
    <3>2. rewardPerBlock * (n + m) = (n + m) * rewardPerBlock
      BY <3>1, ProductFacts
    <3> QED BY <2>2, <2>3, <3>2, ProductFacts
  <2>8. /\ fresh * rewardPerBlock \in Nat /\ m * rewardPerBlock \in Nat
        /\ n * rewardPerBlock \in Nat
    BY <2>1, <2>2, <2>3, ProductFacts
  <2>9. PICK x \in Nat, y \in Nat, z \in Nat :
          x = fresh * rewardPerBlock /\ y = m * rewardPerBlock /\ z = n * rewardPerBlock
    BY <2>8
  <2>10. earned[k] + r <= rewardPerBlock * (n + m)
    <3>1. r <= x /\ x <= y /\ earned[k] <= z /\ rewardPerBlock * (n + m) = z + y
      BY <2>4, <2>5, <2>6, <2>7, <2>9
    <3>2. earned[k] + r <= z + y
      BY <1>9, <3>1
    <3> QED BY <3>1, <3>2
  <2> QED BY <1>9, <1>10, <2>2, <2>10 DEF RewardInv, NoBlockPaidTwice
<1>15. FundingConserved'
  <2>1. f.vouched = f.balance + earned[k]
    BY <1>3, <1>4 DEF RewardInv, FundingConserved
  <2>2. g.vouched = g.balance + earned'[k]
    BY <1>6, <1>9, <1>11, <2>1
  <2> QED BY <1>8, <1>9, <2>2 DEF RewardInv, FundingConserved
<1> QED BY <1>13, <1>14, <1>15 DEF RewardInv

\* RewardInv is inductive.
LEMMA RewardStep == RewardInv /\ [Next]_vars => RewardInv'
<1> SUFFICES ASSUME RewardInv, [Next]_vars PROVE RewardInv'
  OBVIOUS
<1>1. TypeOK /\ TypeOK'
  BY TypeStep DEF RewardInv
<1>2. ASSUME NEW k \in Keys, NEW u \in Users, NEW v \in Amounts, RequestIndexing(u, k, v)
      PROVE  RewardInv'
  <2>1. PICK amount \in Nat : Fund(k, amount)
    BY <1>2 DEF RequestIndexing
  <2> QED BY <1>1, <1>2, <2>1, RewardFund DEF RequestIndexing
<1>3. ASSUME NEW k \in Keys, NEW v \in Amounts, FundAsset(k, v) PROVE RewardInv'
  BY <1>1, <1>3, RewardFund DEF FundAsset
<1>4. ASSUME NEW i \in DOMAIN epochs, NEW l \in epochs[i].coverage, ClaimCoverage(i, l)
      PROVE  RewardInv'
  BY <1>1, <1>4, RewardClaim
<1>5. ASSUME \/ \E k \in Keys, u \in Users : RegisterAsset(u, k) \/ RevokeAsset(u, k)
             \/ \E u \in Users, c \in Chains, r \in EpochRanges, cov \in Coverages :
                  PublishIndex(u, c, r, cov)
             \/ \E i \in DOMAIN epochs :
                  \/ \E u \in Users : ChallengeIndex(u, i)
                  \/ \E upheld \in BOOLEAN : ResolveChallenge(i, upheld)
                  \/ FinalizeIndex(i)
             \/ OracleNext
             \/ Tick
             \/ UNCHANGED vars
      PROVE  UNCHANGED moneyVars
  BY <1>5 DEF RegisterAsset, RevokeAsset, PublishIndex, ChallengeIndex, ResolveChallenge,
       FinalizeIndex, OracleNext, OracleDispute, OracleVote, OracleSettle, Tick, vars, moneyVars
<1> QED
  BY <1>1, <1>2, <1>3, <1>4, <1>5, RewardFrame DEF Next, AssetNext, EpochNext

\* The reward invariant always holds.
LEMMA RewardInvariant == Spec => []RewardInv
<1>1. Init => RewardInv
  <2> SUFFICES ASSUME Init PROVE RewardInv
    OBVIOUS
  <2>1. TypeOK
    BY DEF Init, TypeOK, AssetRow, Funding
  <2>2. \A k \in Keys : paidBlocks[k] = {} /\ earned[k] = 0
    BY DEF Init
  <2>3. NoBlockPaidTwice /\ \A k \in Keys : IsFiniteSet(paidBlocks[k])
    <3>1. Cardinality({}) = 0 /\ IsFiniteSet({})
      BY FS_EmptySet
    <3>2. rewardPerBlock * 0 = 0
      OBVIOUS
    <3>3. ASSUME NEW k \in Keys
          PROVE  earned[k] <= rewardPerBlock * Cardinality(paidBlocks[k]) /\ IsFiniteSet(paidBlocks[k])
      <4>1. Cardinality(paidBlocks[k]) = 0 /\ IsFiniteSet(paidBlocks[k]) /\ earned[k] = 0
        BY <2>2, <3>1
      <4> QED BY <3>2, <4>1
    <3> QED BY <3>3 DEF NoBlockPaidTwice
  <2>4. PaidInsideHull /\ FundingConserved
    BY DEF Init, PaidInsideHull, FundingConserved
  <2> QED BY <2>1, <2>3, <2>4 DEF RewardInv
<1> QED BY <1>1, RewardStep, PTL DEF Spec

\* For every price, asset and sequence of epochs and claims, an asset never pays more
\* than the fixed price of the distinct blocks its paid leaves name.
THEOREM BlocksPaidOnce == Spec => []NoBlockPaidTwice
<1>1. RewardInv => NoBlockPaidTwice
  BY DEF RewardInv
<1> QED BY <1>1, RewardInvariant, PTL

\* The stored hull always contains what was paid for.
THEOREM HullContainsPaid == Spec => []PaidInsideHull
<1>1. RewardInv => PaidInsideHull
  BY DEF RewardInv
<1> QED BY <1>1, RewardInvariant, PTL

\* Every wei vouched for an asset is in its balance or was paid to a publisher.
THEOREM FundingIsConserved == Spec => []FundingConserved
<1>1. RewardInv => FundingConserved
  BY DEF RewardInv
<1> QED BY <1>1, RewardInvariant, PTL

-----------------------------------------------------------------------------
(* The latest finalized epoch of a chain.                                  *)

LatestInv == TypeOK /\ LatestFinalizedIsNewest

\* What a decision does to the epochs, field by field.
LEMMA ResolveEffect ==
  ASSUME TypeOK, NEW i \in DOMAIN epochs, NEW upheld \in BOOLEAN, Resolve(i, upheld)
  PROVE  /\ DOMAIN epochs' = DOMAIN epochs
         /\ \A j \in DOMAIN epochs \ {i} : epochs'[j] = epochs[j]
         /\ epochs'[i].chain = epochs[i].chain
         /\ epochs'[i].status = (IF upheld THEN "Finalized" ELSE "Rejected")
<1>1. PICK e \in Epoch : e = epochs[i]
  BY DEF TypeOK
<1>2. PICK s \in Status : s = IF upheld THEN "Finalized" ELSE "Rejected"
  BY DEF Status
<1>3. epochs' = [epochs EXCEPT ![i] = [e EXCEPT !.bond = 0, !.status = s]]
  BY <1>1, <1>2 DEF Resolve, TypeOK, Epoch
<1>4. PICK g : g = [e EXCEPT !.bond = 0, !.status = s]
  OBVIOUS
<1>5. g.chain = e.chain /\ g.status = s
  BY <1>4 DEF Epoch
<1>6. epochs' = [epochs EXCEPT ![i] = g]
  BY <1>3, <1>4
<1> QED BY <1>1, <1>2, <1>5, <1>6 DEF TypeOK

\* A decision on an undecided epoch moves the pointer of its chain forward or not at all.
LEMMA LatestResolve ==
  ASSUME LatestInv, NEW i \in DOMAIN epochs, NEW upheld \in BOOLEAN, Undecided(i),
         Resolve(i, upheld)
  PROVE  LatestFinalizedIsNewest'
<1>1. TypeOK
  BY DEF LatestInv
<1>2. PICK e \in Epoch : e = epochs[i]
  BY <1>1 DEF TypeOK
<1>3. e.chain \in Chains /\ e.status # "Finalized"
  BY <1>2 DEF Epoch, Undecided
<1>4. /\ DOMAIN epochs' = DOMAIN epochs
      /\ \A j \in DOMAIN epochs \ {i} : epochs'[j] = epochs[j]
      /\ epochs'[i].chain = e.chain
      /\ epochs'[i].status = (IF upheld THEN "Finalized" ELSE "Rejected")
  BY <1>1, <1>2, ResolveEffect
<1>5. latestFinalized' = IF upheld
         THEN [latestFinalized EXCEPT ![e.chain] = NewestOf(latestFinalized[e.chain], i)]
         ELSE latestFinalized
  BY <1>2 DEF Resolve
<1>6. i \in Nat /\ i # 0 /\ latestFinalized \in [Chains -> Nat]
  BY <1>1 DEF TypeOK
<1>7. ASSUME NEW c \in Chains
      PROVE  /\ \A j \in DOMAIN epochs : FinalizedOn(j, c) => j <= latestFinalized[c]
             /\ latestFinalized[c] # 0 =>
                  latestFinalized[c] \in DOMAIN epochs /\ FinalizedOn(latestFinalized[c], c)
  BY DEF LatestInv, LatestFinalizedIsNewest
<1>8. SUFFICES ASSUME NEW c \in Chains
      PROVE  /\ \A j \in DOMAIN epochs : FinalizedOn(j, c)' => j <= latestFinalized'[c]
             /\ latestFinalized'[c] # 0 =>
                  latestFinalized'[c] \in DOMAIN epochs
                  /\ epochs'[latestFinalized'[c]].chain = c
                  /\ epochs'[latestFinalized'[c]].status = "Finalized"
  BY <1>4 DEF LatestFinalizedIsNewest, FinalizedOn
<1>9. CASE upheld /\ c = e.chain
  <2>1. latestFinalized'[c] = NewestOf(latestFinalized[c], i)
    BY <1>5, <1>6, <1>9
  <2>2. \A j \in DOMAIN epochs : FinalizedOn(j, c)' => j <= latestFinalized'[c]
    <3> SUFFICES ASSUME NEW j \in DOMAIN epochs, FinalizedOn(j, c)' PROVE j <= latestFinalized'[c]
      OBVIOUS
    <3>1. j \in Nat
      BY <1>1 DEF TypeOK
    <3>2. CASE j = i
      BY <1>6, <2>1, <3>2 DEF NewestOf
    <3>3. CASE j # i
      <4>1. j <= latestFinalized[c]
        BY <1>4, <1>7, <3>3 DEF FinalizedOn
      <4> QED BY <1>6, <2>1, <3>1, <4>1 DEF NewestOf
    <3> QED BY <3>2, <3>3
  <2>3. latestFinalized'[c] = i \/ (latestFinalized'[c] = latestFinalized[c] /\ latestFinalized[c] # 0)
    <3>1. latestFinalized[c] \in Nat
      BY <1>6
    <3> QED BY <1>6, <2>1, <3>1 DEF NewestOf
  <2>4. epochs'[i].chain = c /\ epochs'[i].status = "Finalized"
    BY <1>4, <1>9
  <2> QED BY <1>4, <1>7, <2>2, <2>3, <2>4 DEF FinalizedOn
<1>10. CASE ~(upheld /\ c = e.chain)
  <2>1. latestFinalized'[c] = latestFinalized[c]
    BY <1>3, <1>5, <1>6, <1>10
  <2>2. ~FinalizedOn(i, c)'
    BY <1>4, <1>10 DEF FinalizedOn
  <2>3. latestFinalized[c] # i \/ latestFinalized[c] = 0
    BY <1>2, <1>3, <1>7 DEF FinalizedOn
  <2> QED BY <1>4, <1>6, <1>7, <2>1, <2>2, <2>3 DEF FinalizedOn
<1> QED BY <1>9, <1>10

\* A step that finalizes nothing and unfinalizes nothing keeps the pointers right.
LEMMA LatestFrame ==
  ASSUME LatestInv, UNCHANGED latestFinalized,
         DOMAIN epochs \subseteq DOMAIN epochs',
         \A j \in DOMAIN epochs :
           /\ epochs'[j].chain = epochs[j].chain
           /\ epochs'[j].status = "Finalized" <=> epochs[j].status = "Finalized",
         \A j \in DOMAIN epochs' \ DOMAIN epochs : epochs'[j].status # "Finalized"
  PROVE  LatestFinalizedIsNewest'
  BY DEF LatestInv, LatestFinalizedIsNewest, FinalizedOn

\* LatestInv is inductive.
LEMMA LatestStep == LatestInv /\ [Next]_vars => LatestInv'
<1> SUFFICES ASSUME LatestInv, [Next]_vars PROVE LatestFinalizedIsNewest'
  BY TypeStep DEF LatestInv
<1>1. TypeOK /\ TypeOK'
  BY TypeStep DEF LatestInv
<1>2. ASSUME UNCHANGED <<epochs, latestFinalized>> PROVE LatestFinalizedIsNewest'
  BY <1>2 DEF LatestInv, LatestFinalizedIsNewest, FinalizedOn
<1>3. ASSUME NEW u \in Users, NEW c \in Chains, NEW r \in EpochRanges, NEW cov \in Coverages,
             PublishIndex(u, c, r, cov)
      PROVE  LatestFinalizedIsNewest'
  <2>1. PICK e \in Epoch : epochs' = Append(epochs, e) /\ e.status = "Proposed"
    <3> DEFINE new == [chain |-> c, from |-> r[1], to |-> r[2], coverage |-> cov,
                       publisher |-> u, challenger |-> NoOne, bond |-> publisherBond,
                       publishedAt |-> now, deadline |-> (now + challengeWindow) % U64,
                       status |-> "Proposed"]
    <3>1. r[1] \in Nat /\ r[2] \in Nat /\ (now + challengeWindow) % U64 \in Nat
      BY <1>1 DEF TypeOK
    <3>2. new \in Epoch
      BY <1>1, <3>1 DEF Epoch, Status, TypeOK
    <3>3. epochs' = Append(epochs, new)
      BY <1>3 DEF PublishIndex
    <3> QED BY <3>2, <3>3
  <2>2. /\ DOMAIN epochs \subseteq DOMAIN epochs'
        /\ \A j \in DOMAIN epochs : epochs'[j] = epochs[j]
        /\ \A j \in DOMAIN epochs' \ DOMAIN epochs : epochs'[j] = e
    <3>1. epochs \in Seq(Epoch) /\ Len(epochs) \in Nat /\ DOMAIN epochs = 1 .. Len(epochs)
      BY <1>1 DEF TypeOK
    <3>2. Len(epochs') = Len(epochs) + 1 /\ DOMAIN epochs' = 1 .. (Len(epochs) + 1)
      BY <2>1, <3>1
    <3>3. /\ \A j \in 1 .. Len(epochs) : epochs'[j] = epochs[j]
          /\ epochs'[Len(epochs) + 1] = e
      BY <2>1, <3>1
    <3>4. \A j \in DOMAIN epochs' \ DOMAIN epochs : j = Len(epochs) + 1
      BY <3>1, <3>2
    <3> QED BY <3>1, <3>2, <3>3, <3>4
  <2>3. UNCHANGED latestFinalized
    BY <1>3 DEF PublishIndex
  <2> QED BY <2>1, <2>2, <2>3, LatestFrame
<1>4. ASSUME NEW i \in DOMAIN epochs, NEW u \in Users, ChallengeIndex(u, i)
      PROVE  LatestFinalizedIsNewest'
  <2>1. PICK e \in Epoch : e = epochs[i]
    BY <1>1 DEF TypeOK
  <2>2. e.status = "Proposed"
    BY <1>4, <2>1 DEF ChallengeIndex
  <2>3. PICK b \in Nat : epochs' = [epochs EXCEPT ![i] =
            [e EXCEPT !.challenger = u, !.status = "Challenged", !.bond = b]]
    <3>1. e.bond \in Nat /\ e.bond + e.bond \in Nat
      BY DEF Epoch
    <3>2. CASE OracleMode
      <4>1. epochs' = [epochs EXCEPT ![i] = [e EXCEPT !.challenger = u, !.status = "Challenged"]]
        BY <1>1, <1>4, <2>1, <3>2 DEF ChallengeIndex, TypeOK, Epoch
      <4>2. [e EXCEPT !.challenger = u, !.status = "Challenged"]
              = [e EXCEPT !.challenger = u, !.status = "Challenged", !.bond = e.bond]
        BY DEF Epoch
      <4> QED BY <3>1, <4>1, <4>2
    <3>3. CASE ~OracleMode
      <4>1. epochs' = [epochs EXCEPT ![i] = [e EXCEPT !.challenger = u, !.status = "Challenged",
                                                      !.bond = e.bond + e.bond]]
        BY <1>1, <1>4, <2>1, <3>3 DEF ChallengeIndex, TypeOK, Epoch
      <4> QED BY <3>1, <4>1
    <3> QED BY <3>2, <3>3
  <2>4. PICK g : g = [e EXCEPT !.challenger = u, !.status = "Challenged", !.bond = b]
    OBVIOUS
  <2>5. g.chain = e.chain /\ g.status = "Challenged"
    BY <2>4 DEF Epoch
  <2>6. epochs' = [epochs EXCEPT ![i] = g]
    BY <2>3, <2>4
  <2>7. DOMAIN epochs' = DOMAIN epochs /\ epochs'[i] = g
        /\ \A j \in DOMAIN epochs \ {i} : epochs'[j] = epochs[j]
    BY <1>1, <2>6 DEF TypeOK
  <2>8. UNCHANGED latestFinalized
    BY <1>4 DEF ChallengeIndex
  <2> QED BY <2>1, <2>2, <2>5, <2>7, <2>8, LatestFrame
<1>5. ASSUME NEW i \in DOMAIN epochs, NEW upheld \in BOOLEAN, ResolveChallenge(i, upheld)
      PROVE  LatestFinalizedIsNewest'
  BY <1>5, LatestResolve DEF ResolveChallenge, Undecided
<1>6. ASSUME NEW i \in DOMAIN epochs, OracleMode PROVE Outcome(i) \in BOOLEAN
  <2>1. PICK a \in Assertion : a = assertions[i]
    BY <1>1, <1>6 DEF TypeOK
  <2> QED BY <2>1 DEF Outcome, Assertion
<1>7. ASSUME NEW i \in DOMAIN epochs, FinalizeIndex(i) PROVE LatestFinalizedIsNewest'
  <2>1. CASE OracleMode
    BY <1>6, <1>7, <2>1, LatestResolve DEF FinalizeIndex
  <2>2. CASE ~OracleMode
    BY <1>7, <2>2, LatestResolve DEF FinalizeIndex, Undecided
  <2> QED BY <2>1, <2>2
<1>8. ASSUME NEW i \in DOMAIN assertions, NEW b \in BOOLEAN, OracleDispute(i, b)
      PROVE  LatestFinalizedIsNewest'
  <2>1. CASE epochs' = epochs
    BY <1>2, <1>8, <2>1 DEF OracleDispute
  <2>2. CASE epochs' # epochs
    <3>1. i \in DOMAIN epochs
      BY <1>1, <1>8 DEF OracleDispute, TypeOK
    <3>2. PICK e \in Epoch : e = epochs[i]
      BY <1>1, <3>1 DEF TypeOK
    <3>3. e.status = "Proposed" /\ epochs' = [epochs EXCEPT ![i] = [e EXCEPT !.status = "Challenged"]]
      BY <1>1, <1>8, <2>2, <3>1, <3>2 DEF OracleDispute, TypeOK, Epoch
    <3>4. PICK g : g = [e EXCEPT !.status = "Challenged"]
      OBVIOUS
    <3>5. g.chain = e.chain /\ g.status = "Challenged"
      BY <3>4 DEF Epoch
    <3>6. DOMAIN epochs' = DOMAIN epochs /\ epochs'[i] = g
          /\ \A j \in DOMAIN epochs \ {i} : epochs'[j] = epochs[j]
      BY <1>1, <3>1, <3>3, <3>4 DEF TypeOK
    <3>7. UNCHANGED latestFinalized
      BY <1>8 DEF OracleDispute
    <3> QED BY <3>2, <3>3, <3>5, <3>6, <3>7, LatestFrame
  <2> QED BY <2>1, <2>2
<1>9. ASSUME NEW i \in DOMAIN assertions, NEW b \in BOOLEAN, OracleSettle(i, b)
      PROVE  LatestFinalizedIsNewest'
  <2>1. i \in DOMAIN epochs /\ OracleMode
    BY <1>1, <1>9 DEF OracleSettle, TypeOK
  <2>2. CASE b /\ Undecided(i)
    BY <1>6, <1>9, <2>1, <2>2, LatestResolve DEF OracleSettle
  <2>3. CASE ~(b /\ Undecided(i))
    BY <1>2, <1>9, <2>3 DEF OracleSettle
  <2> QED BY <2>2, <2>3
<1>10. ASSUME \/ AssetNext \/ Tick \/ UNCHANGED vars
              \/ \E i \in DOMAIN epochs : \E l \in epochs[i].coverage : ClaimCoverage(i, l)
              \/ \E i \in DOMAIN assertions, b \in BOOLEAN : OracleVote(i, b)
       PROVE  UNCHANGED <<epochs, latestFinalized>>
  BY <1>10 DEF AssetNext, RegisterAsset, RevokeAsset, RequestIndexing, FundAsset, Tick, vars,
       ClaimCoverage, OracleVote, epochVars
<1> QED
  BY <1>2, <1>3, <1>4, <1>5, <1>7, <1>8, <1>9, <1>10 DEF Next, EpochNext, OracleNext

\* However late and in whatever order epochs resolve, by the arbiter, by the deadline or
\* by the oracle, the pointer consumers read names the newest finalized epoch.
THEOREM LatestIsNewest == Spec => []LatestFinalizedIsNewest
<1>1. Init => LatestInv
  BY DEF Init, LatestInv, TypeOK, AssetRow, Funding, LatestFinalizedIsNewest
<1>2. LatestInv => LatestFinalizedIsNewest
  BY DEF LatestInv
<1> QED BY <1>1, <1>2, LatestStep, PTL DEF Spec

-----------------------------------------------------------------------------
(* The life of an epoch.  Every step leaves an epoch alone, disputes it or *)
(* decides it; the properties below all follow from that.                  *)

\* Only the epoch written changes.
LEMMA EpochWritten ==
  ASSUME TypeOK, NEW i \in DOMAIN epochs, NEW g, epochs' = [epochs EXCEPT ![i] = g]
  PROVE  /\ DOMAIN epochs' = DOMAIN epochs
         /\ epochs'[i] = g
         /\ \A j \in DOMAIN epochs \ {i} : epochs'[j] = epochs[j]
  BY DEF TypeOK

\* The fields a decision and a dispute leave alone.
SameCommitment(e, g) ==
  g.chain = e.chain /\ g.publishedAt = e.publishedAt /\ g.deadline = e.deadline

\* What a decision writes: the pot is gone and the verdict stands.
LEMMA DecisionWrites ==
  ASSUME TypeOK, NEW i \in DOMAIN epochs, NEW upheld \in BOOLEAN, Resolve(i, upheld)
  PROVE  \E g \in Epoch : /\ epochs' = [epochs EXCEPT ![i] = g]
                          /\ SameCommitment(epochs[i], g) /\ g.bond = 0
                          /\ g.status = IF upheld THEN "Finalized" ELSE "Rejected"
<1>1. PICK e \in Epoch : e = epochs[i]
  BY DEF TypeOK
<1>2. PICK s \in Status : s = IF upheld THEN "Finalized" ELSE "Rejected"
  BY DEF Status
<1>3. epochs' = [epochs EXCEPT ![i] = [e EXCEPT !.bond = 0, !.status = s]]
  BY <1>1, <1>2 DEF Resolve, TypeOK, Epoch
<1>4. PICK g : g = [e EXCEPT !.bond = 0, !.status = s]
  OBVIOUS
<1>5. g \in Epoch /\ g.chain = e.chain /\ g.status = s /\ g.bond = 0
      /\ g.publishedAt = e.publishedAt /\ g.deadline = e.deadline
  BY <1>4 DEF Epoch
<1> QED BY <1>1, <1>2, <1>3, <1>4, <1>5 DEF SameCommitment

\* What a challenge writes: in local mode the bond is matched.
LEMMA ChallengeWrites ==
  ASSUME TypeOK, NEW i \in DOMAIN epochs, NEW u \in Users, ChallengeIndex(u, i)
  PROVE  \E g \in Epoch : /\ epochs' = [epochs EXCEPT ![i] = g]
                          /\ SameCommitment(epochs[i], g) /\ g.status = "Challenged"
                          /\ g.bond = IF OracleMode THEN epochs[i].bond
                                      ELSE epochs[i].bond + epochs[i].bond
<1>1. PICK e \in Epoch : e = epochs[i]
  BY DEF TypeOK
<1>2. PICK b \in Nat : b = IF OracleMode THEN e.bond ELSE e.bond + e.bond
  BY DEF Epoch
<1>3. epochs' = [epochs EXCEPT ![i] =
                   [e EXCEPT !.challenger = u, !.status = "Challenged", !.bond = b]]
  <2>1. CASE OracleMode
    <3>1. epochs' = [epochs EXCEPT ![i] = [e EXCEPT !.challenger = u, !.status = "Challenged"]]
      BY <1>1, <2>1 DEF ChallengeIndex, TypeOK, Epoch
    <3>2. [e EXCEPT !.challenger = u, !.status = "Challenged"]
            = [e EXCEPT !.challenger = u, !.status = "Challenged", !.bond = b]
      BY <1>2, <2>1 DEF Epoch
    <3> QED BY <3>1, <3>2
  <2>2. CASE ~OracleMode
    BY <1>1, <1>2, <2>2 DEF ChallengeIndex, TypeOK, Epoch
  <2> QED BY <2>1, <2>2
<1>4. PICK g : g = [e EXCEPT !.challenger = u, !.status = "Challenged", !.bond = b]
  OBVIOUS
<1>5. g \in Epoch /\ g.chain = e.chain /\ g.status = "Challenged" /\ g.bond = b
      /\ g.publishedAt = e.publishedAt /\ g.deadline = e.deadline
  BY <1>4 DEF Epoch, Status
<1> QED BY <1>1, <1>2, <1>3, <1>4, <1>5 DEF SameCommitment

\* What a dispute behind the registry's back writes: nothing, or the status.
LEMMA DisputeWrites ==
  ASSUME TypeOK, NEW i \in DOMAIN assertions, NEW b \in BOOLEAN, OracleDispute(i, b)
  PROVE  \/ epochs' = epochs
         \/ \E g \in Epoch : /\ epochs' = [epochs EXCEPT ![i] = g]
                             /\ SameCommitment(epochs[i], g) /\ g.bond = epochs[i].bond
                             /\ epochs[i].status = "Proposed" /\ g.status = "Challenged"
<1> SUFFICES ASSUME epochs' # epochs
             PROVE  \E g \in Epoch : /\ epochs' = [epochs EXCEPT ![i] = g]
                                     /\ SameCommitment(epochs[i], g) /\ g.bond = epochs[i].bond
                                     /\ epochs[i].status = "Proposed" /\ g.status = "Challenged"
  OBVIOUS
<1>1. i \in DOMAIN epochs
  BY DEF OracleDispute, TypeOK
<1>2. PICK e \in Epoch : e = epochs[i]
  BY <1>1 DEF TypeOK
<1>3. e.status = "Proposed" /\ epochs' = [epochs EXCEPT ![i] = [e EXCEPT !.status = "Challenged"]]
  BY <1>1, <1>2 DEF OracleDispute, TypeOK, Epoch
<1>4. PICK g : g = [e EXCEPT !.status = "Challenged"]
  OBVIOUS
<1>5. g \in Epoch /\ g.chain = e.chain /\ g.status = "Challenged" /\ g.bond = e.bond
      /\ g.publishedAt = e.publishedAt /\ g.deadline = e.deadline
  BY <1>4 DEF Epoch, Status
<1> QED BY <1>2, <1>3, <1>4, <1>5 DEF SameCommitment

\* What a publication writes: a proposed epoch at the end.
LEMMA PublicationWrites ==
  ASSUME TypeOK, NEW u \in Users, NEW c \in Chains, NEW r \in EpochRanges, NEW cov \in Coverages,
         PublishIndex(u, c, r, cov)
  PROVE  \E e \in Epoch :
           /\ epochs' = Append(epochs, e) /\ e.status = "Proposed"
           /\ e.publishedAt = now /\ e.deadline = (now + challengeWindow) % U64
           /\ e.bond = publisherBond
<1> DEFINE e == [chain |-> c, from |-> r[1], to |-> r[2], coverage |-> cov,
                 publisher |-> u, challenger |-> NoOne, bond |-> publisherBond,
                 publishedAt |-> now, deadline |-> (now + challengeWindow) % U64,
                 status |-> "Proposed"]
<1>1. r[1] \in Nat /\ r[2] \in Nat /\ (now + challengeWindow) % U64 \in Nat
  BY DEF TypeOK
<1>2. e \in Epoch
  BY <1>1 DEF Epoch, Status, TypeOK
<1>3. epochs' = Append(epochs, e)
  BY DEF PublishIndex
<1> QED BY <1>2, <1>3

\* An epoch appended leaves the others where they were.
LEMMA EpochAppended ==
  ASSUME TypeOK, NEW e, epochs' = Append(epochs, e)
  PROVE  /\ DOMAIN epochs' = DOMAIN epochs \cup {Len(epochs) + 1}
         /\ Len(epochs) + 1 \notin DOMAIN epochs
         /\ \A j \in DOMAIN epochs : epochs'[j] = epochs[j]
         /\ epochs'[Len(epochs) + 1] = e
<1>1. epochs \in Seq(Epoch) /\ Len(epochs) \in Nat /\ DOMAIN epochs = 1 .. Len(epochs)
  BY DEF TypeOK
<1>2. Len(epochs') = Len(epochs) + 1 /\ DOMAIN epochs' = 1 .. (Len(epochs) + 1)
  BY <1>1
<1>3. /\ \A j \in 1 .. Len(epochs) : epochs'[j] = epochs[j]
      /\ epochs'[Len(epochs) + 1] = e
  BY <1>1
<1> QED BY <1>1, <1>2, <1>3

\* The oracle's answer is an answer.
LEMMA OutcomeType ==
  ASSUME TypeOK, OracleMode, NEW i \in DOMAIN epochs
  PROVE  Outcome(i) \in BOOLEAN
<1>1. PICK a \in Assertion : a = assertions[i]
  BY DEF TypeOK
<1> QED BY <1>1 DEF Outcome, Assertion

\* Disputed: a proposed epoch becomes a challenged one.
Disputes(i) ==
  /\ epochs[i].status = "Proposed" /\ epochs'[i].status = "Challenged"
  /\ SameCommitment(epochs[i], epochs'[i])

\* Decided: by the deadline or the arbiter in local mode, by the settled answer in oracle
\* mode.
Decides(i) ==
  /\ Undecided(i) /\ SameCommitment(epochs[i], epochs'[i]) /\ epochs'[i].bond = 0
  /\ IF OracleMode
       THEN /\ Settleable(i) /\ SettleAt(i)
            /\ epochs'[i].status = IF Outcome(i) THEN "Finalized" ELSE "Rejected"
       ELSE \/ /\ epochs[i].status = "Proposed" /\ WindowClosed(i)
               /\ epochs'[i].status = "Finalized"
            \/ /\ epochs[i].status = "Challenged"
               /\ epochs'[i].status \in {"Finalized", "Rejected"}

\* An epoch changes only by being disputed or decided, and only one changes in a step.
LEMMA EpochStep ==
  ASSUME TypeOK, [Next]_vars
  PROVE  /\ DOMAIN epochs \subseteq DOMAIN epochs'
         /\ \A j \in DOMAIN epochs : epochs'[j] = epochs[j] \/ Disputes(j) \/ Decides(j)
<1>1. ASSUME epochs' = epochs
      PROVE  /\ DOMAIN epochs \subseteq DOMAIN epochs'
             /\ \A j \in DOMAIN epochs : epochs'[j] = epochs[j]
  BY <1>1
<1>2. ASSUME NEW i \in DOMAIN epochs, NEW g \in Epoch, epochs' = [epochs EXCEPT ![i] = g],
             Disputes(i) \/ Decides(i)
      PROVE  /\ DOMAIN epochs \subseteq DOMAIN epochs'
             /\ \A j \in DOMAIN epochs : epochs'[j] = epochs[j] \/ Disputes(j) \/ Decides(j)
  BY <1>2, EpochWritten
<1>3. ASSUME NEW u \in Users, NEW c \in Chains, NEW r \in EpochRanges, NEW cov \in Coverages,
             PublishIndex(u, c, r, cov)
      PROVE  /\ DOMAIN epochs \subseteq DOMAIN epochs'
             /\ \A j \in DOMAIN epochs : epochs'[j] = epochs[j]
  BY <1>3, PublicationWrites, EpochAppended
<1>4. ASSUME NEW i \in DOMAIN epochs, NEW u \in Users, ChallengeIndex(u, i)
      PROVE  \E g \in Epoch : epochs' = [epochs EXCEPT ![i] = g] /\ Disputes(i)
  <2>1. PICK g \in Epoch : /\ epochs' = [epochs EXCEPT ![i] = g]
                           /\ SameCommitment(epochs[i], g) /\ g.status = "Challenged"
    BY <1>4, ChallengeWrites
  <2>2. epochs'[i] = g
    BY <2>1, EpochWritten
  <2>3. epochs[i].status = "Proposed"
    BY <1>4 DEF ChallengeIndex
  <2> QED BY <2>1, <2>2, <2>3 DEF Disputes
<1>5. ASSUME NEW i \in DOMAIN epochs, NEW upheld \in BOOLEAN, Resolve(i, upheld)
      PROVE  \E g \in Epoch : /\ epochs' = [epochs EXCEPT ![i] = g] /\ epochs'[i].bond = 0
                              /\ SameCommitment(epochs[i], epochs'[i])
                              /\ epochs'[i].status = IF upheld THEN "Finalized" ELSE "Rejected"
  <2>1. PICK g \in Epoch : /\ epochs' = [epochs EXCEPT ![i] = g]
                           /\ SameCommitment(epochs[i], g) /\ g.bond = 0
                           /\ g.status = IF upheld THEN "Finalized" ELSE "Rejected"
    BY <1>5, DecisionWrites
  <2>2. epochs'[i] = g
    BY <2>1, EpochWritten
  <2> QED BY <2>1, <2>2
<1>6. ASSUME NEW i \in DOMAIN epochs, NEW upheld \in BOOLEAN, ResolveChallenge(i, upheld)
      PROVE  \E g \in Epoch : epochs' = [epochs EXCEPT ![i] = g] /\ Decides(i)
  BY <1>5, <1>6 DEF ResolveChallenge, Decides, Undecided
<1>7. ASSUME NEW i \in DOMAIN epochs, FinalizeIndex(i)
      PROVE  \E g \in Epoch : epochs' = [epochs EXCEPT ![i] = g] /\ Decides(i)
  <2>1. CASE OracleMode
    <3>1. /\ Undecided(i) /\ Settleable(i) /\ SettleAt(i)
          /\ Resolve(i, Outcome(i)) /\ Outcome(i) \in BOOLEAN
      BY <1>7, <2>1, OutcomeType DEF FinalizeIndex
    <3> QED BY <1>5, <2>1, <3>1 DEF Decides
  <2>2. CASE ~OracleMode
    <3>1. epochs[i].status = "Proposed" /\ WindowClosed(i) /\ Resolve(i, TRUE)
      BY <1>7, <2>2 DEF FinalizeIndex
    <3> QED BY <1>5, <2>2, <3>1 DEF Decides, Undecided
  <2> QED BY <2>1, <2>2
<1>8. ASSUME NEW i \in DOMAIN assertions, NEW b \in BOOLEAN, OracleDispute(i, b)
      PROVE  \/ epochs' = epochs
             \/ i \in DOMAIN epochs /\ \E g \in Epoch : epochs' = [epochs EXCEPT ![i] = g] /\ Disputes(i)
  <2>1. SUFFICES ASSUME epochs' # epochs
        PROVE  i \in DOMAIN epochs /\ \E g \in Epoch : epochs' = [epochs EXCEPT ![i] = g] /\ Disputes(i)
    OBVIOUS
  <2>2. i \in DOMAIN epochs
    BY <1>8 DEF OracleDispute, TypeOK
  <2>3. PICK g \in Epoch : /\ epochs' = [epochs EXCEPT ![i] = g]
                           /\ SameCommitment(epochs[i], g)
                           /\ epochs[i].status = "Proposed" /\ g.status = "Challenged"
    BY <1>8, <2>1, DisputeWrites
  <2>4. epochs'[i] = g
    BY <2>2, <2>3, EpochWritten
  <2> QED BY <2>2, <2>3, <2>4 DEF Disputes
<1>9. ASSUME NEW i \in DOMAIN assertions, NEW b \in BOOLEAN, OracleSettle(i, b)
      PROVE  \/ epochs' = epochs
             \/ i \in DOMAIN epochs /\ \E g \in Epoch : epochs' = [epochs EXCEPT ![i] = g] /\ Decides(i)
  <2>1. i \in DOMAIN epochs /\ OracleMode /\ Settleable(i) /\ SettleAt(i)
    BY <1>9 DEF OracleSettle, TypeOK
  <2>2. CASE b /\ Undecided(i)
    <3>1. Resolve(i, Outcome(i)) /\ Outcome(i) \in BOOLEAN
      BY <1>9, <2>1, <2>2, OutcomeType DEF OracleSettle
    <3> QED BY <1>5, <2>1, <2>2, <3>1 DEF Decides
  <2>3. CASE ~(b /\ Undecided(i))
    BY <1>9, <2>3 DEF OracleSettle
  <2> QED BY <2>2, <2>3
<1>10. ASSUME \/ AssetNext \/ Tick \/ UNCHANGED vars
              \/ \E i \in DOMAIN epochs : \E l \in epochs[i].coverage : ClaimCoverage(i, l)
              \/ \E i \in DOMAIN assertions, b \in BOOLEAN : OracleVote(i, b)
       PROVE  epochs' = epochs
  BY <1>10 DEF AssetNext, RegisterAsset, RevokeAsset, RequestIndexing, FundAsset, Tick, vars,
       ClaimCoverage, OracleVote, epochVars
<1> QED
  BY <1>1, <1>2, <1>3, <1>4, <1>6, <1>7, <1>8, <1>9, <1>10 DEF Next, EpochNext, OracleNext

\* No step, of the registry's callers or of the oracle behind its back, changes a decided
\* epoch: no second pot is paid and no verdict is overturned.
THEOREM DecisionsStand == Spec => DecidedForGood
<1>1. ASSUME TypeOK, [Next]_vars
      PROVE  [\A i \in DOMAIN epochs :
                epochs[i].status \in {"Finalized", "Rejected"} => epochs'[i] = epochs[i]]_vars
  BY <1>1, EpochStep DEF Disputes, Decides, Undecided
<1> QED BY <1>1, TypeCorrect, PTL DEF Spec, DecidedForGood

-----------------------------------------------------------------------------
(* The life of an assertion, and the challenge window.                     *)

\* Disputed: in its window, once.
AssertionDisputed(i) ==
  /\ Disputable(i)
  /\ assertions'[i].disputed /\ ~assertions'[i].settled

\* Voted on: disputed and not yet settled, before and after.
AssertionVoted(i) ==
  /\ assertions[i].disputed /\ ~assertions[i].settled
  /\ assertions'[i].disputed /\ ~assertions'[i].settled

\* Settled with the oracle's answer, which no later settlement changes.
AssertionSettled(i) ==
  /\ Settleable(i)
  /\ assertions'[i].settled /\ assertions'[i].truthful = Outcome(i)
  /\ assertions'[i].disputed = assertions[i].disputed
  /\ assertions'[i].voteCast = assertions[i].voteCast
  /\ assertions'[i].voteTruthful = assertions[i].voteTruthful

\* Writing one assertion leaves the others alone.
LEMMA AssertionWritten ==
  ASSUME TypeOK, NEW i \in DOMAIN assertions, NEW g, assertions' = [assertions EXCEPT ![i] = g]
  PROVE  /\ DOMAIN assertions' = DOMAIN assertions
         /\ assertions'[i] = g
         /\ \A j \in DOMAIN assertions \ {i} : assertions'[j] = assertions[j]
  BY DEF TypeOK

\* What settling writes.
LEMMA SettlementWrites ==
  ASSUME TypeOK, OracleMode, NEW i \in DOMAIN assertions, Settleable(i), SettleAt(i)
  PROVE  /\ AssertionSettled(i)
         /\ DOMAIN assertions' = DOMAIN assertions
         /\ \A j \in DOMAIN assertions \ {i} : assertions'[j] = assertions[j]
<1>1. PICK a \in Assertion : a = assertions[i]
  BY DEF TypeOK
<1>2. i \in DOMAIN epochs
  BY DEF TypeOK
<1>3. PICK o \in BOOLEAN : o = Outcome(i)
  BY <1>2, OutcomeType
<1>4. PICK g : g = [a EXCEPT !.settled = TRUE, !.truthful = o]
  OBVIOUS
<1>5. assertions' = [assertions EXCEPT ![i] = g]
  BY <1>1, <1>3, <1>4 DEF SettleAt, TypeOK, Assertion
<1>6. g.settled = TRUE /\ g.truthful = o /\ g.disputed = a.disputed
      /\ g.voteCast = a.voteCast /\ g.voteTruthful = a.voteTruthful
  BY <1>4 DEF Assertion
<1>7. /\ DOMAIN assertions' = DOMAIN assertions /\ assertions'[i] = g
      /\ \A j \in DOMAIN assertions \ {i} : assertions'[j] = assertions[j]
  BY <1>5, AssertionWritten
<1>8. AssertionSettled(i)
  BY <1>1, <1>3, <1>6, <1>7 DEF AssertionSettled
<1> QED BY <1>7, <1>8

\* What a dispute writes, through the registry or behind its back.
LEMMA DisputeRecorded ==
  ASSUME TypeOK, NEW i \in DOMAIN assertions, Disputable(i),
         assertions' = [assertions EXCEPT ![i].disputed = TRUE]
  PROVE  /\ AssertionDisputed(i)
         /\ DOMAIN assertions' = DOMAIN assertions
         /\ \A j \in DOMAIN assertions \ {i} : assertions'[j] = assertions[j]
<1>1. PICK a \in Assertion : a = assertions[i]
  BY DEF TypeOK
<1>2. PICK g : g = [a EXCEPT !.disputed = TRUE]
  OBVIOUS
<1>3. assertions' = [assertions EXCEPT ![i] = g]
  BY <1>1, <1>2 DEF TypeOK, Assertion
<1>4. g.disputed = TRUE /\ g.settled = a.settled
  BY <1>2 DEF Assertion
<1>5. ~a.settled
  BY <1>1 DEF Disputable
<1>6. /\ DOMAIN assertions' = DOMAIN assertions /\ assertions'[i] = g
      /\ \A j \in DOMAIN assertions \ {i} : assertions'[j] = assertions[j]
  BY <1>3, AssertionWritten
<1>7. AssertionDisputed(i)
  BY <1>4, <1>5, <1>6 DEF AssertionDisputed
<1> QED BY <1>6, <1>7

\* What a vote writes.
LEMMA VoteRecorded ==
  ASSUME TypeOK, NEW i \in DOMAIN assertions, NEW b \in BOOLEAN, OracleVote(i, b)
  PROVE  /\ AssertionVoted(i)
         /\ DOMAIN assertions' = DOMAIN assertions
         /\ \A j \in DOMAIN assertions \ {i} : assertions'[j] = assertions[j]
<1>1. PICK a \in Assertion : a = assertions[i]
  BY DEF TypeOK
<1>2. PICK g : g = [a EXCEPT !.voteCast = TRUE, !.voteTruthful = b]
  OBVIOUS
<1>3. assertions' = [assertions EXCEPT ![i] = g]
  BY <1>1, <1>2 DEF OracleVote, TypeOK, Assertion
<1>4. g.disputed = a.disputed /\ g.settled = a.settled
  BY <1>2 DEF Assertion
<1>5. a.disputed /\ ~a.settled
  BY <1>1 DEF OracleVote
<1>6. /\ DOMAIN assertions' = DOMAIN assertions /\ assertions'[i] = g
      /\ \A j \in DOMAIN assertions \ {i} : assertions'[j] = assertions[j]
  BY <1>3, AssertionWritten
<1>7. AssertionVoted(i)
  BY <1>1, <1>4, <1>5, <1>6 DEF AssertionVoted
<1> QED BY <1>6, <1>7

\* A new assertion is blank.
Blank(a) == ~a.disputed /\ ~a.voteCast /\ ~a.settled

\* An assertion changes only by a dispute, a vote or a settlement; a new one is blank.
LEMMA AssertionStep ==
  ASSUME TypeOK, [Next]_vars, OracleMode
  PROVE  /\ \A j \in DOMAIN epochs :
              \/ assertions'[j] = assertions[j]
              \/ AssertionDisputed(j) \/ AssertionVoted(j) \/ AssertionSettled(j)
         /\ \A j \in DOMAIN epochs' \ DOMAIN epochs : Blank(assertions'[j])
<1> DEFINE Kept(j) == \/ assertions'[j] = assertions[j]
                      \/ AssertionDisputed(j) \/ AssertionVoted(j) \/ AssertionSettled(j)
           Goal == /\ \A j \in DOMAIN epochs : Kept(j)
                   /\ \A j \in DOMAIN epochs' \ DOMAIN epochs : Blank(assertions'[j])
<1>1. /\ DOMAIN assertions = DOMAIN epochs /\ DOMAIN assertions' = DOMAIN epochs'
      /\ assertions \in Seq(Assertion) /\ Len(assertions) = Len(epochs)
  <2>1. TypeOK'
    BY TypeStep
  <2> QED BY <2>1 DEF TypeOK
<1>2. ASSUME assertions' = assertions PROVE Goal
  BY <1>1, <1>2
<1>3. ASSUME NEW u \in Users, NEW c \in Chains, NEW r \in EpochRanges, NEW cov \in Coverages,
             PublishIndex(u, c, r, cov)
      PROVE  Goal
  <2>1. PICK a \in Assertion : assertions' = Append(assertions, a) /\ Blank(a)
    <3> DEFINE a == [disputed |-> FALSE, voteCast |-> FALSE, voteTruthful |-> FALSE,
                     settled |-> FALSE, truthful |-> FALSE]
    <3>1. a \in Assertion /\ Blank(a)
      BY DEF Assertion, Blank
    <3>2. assertions' = Append(assertions, a)
      BY <1>3 DEF PublishIndex
    <3> QED BY <3>1, <3>2
  <2>2. /\ DOMAIN assertions' = 1 .. (Len(assertions) + 1)
        /\ \A j \in 1 .. Len(assertions) : assertions'[j] = assertions[j]
        /\ assertions'[Len(assertions) + 1] = a
        /\ DOMAIN assertions = 1 .. Len(assertions) /\ Len(assertions) \in Nat
    BY <1>1, <2>1
  <2>3. \A j \in DOMAIN assertions' \ DOMAIN assertions : j = Len(assertions) + 1
    BY <2>2
  <2> QED BY <1>1, <2>1, <2>2, <2>3
<1>4. ASSUME NEW i \in DOMAIN assertions, Kept(i), DOMAIN assertions' = DOMAIN assertions,
             \A j \in DOMAIN assertions \ {i} : assertions'[j] = assertions[j]
      PROVE  Goal
  BY <1>1, <1>4
<1>5. ASSUME NEW i \in DOMAIN epochs, NEW u \in Users, ChallengeIndex(u, i) PROVE Goal
  <2>1. Disputable(i) /\ assertions' = [assertions EXCEPT ![i].disputed = TRUE]
    BY <1>5 DEF ChallengeIndex
  <2> QED BY <1>1, <1>4, <2>1, DisputeRecorded
<1>6. ASSUME NEW i \in DOMAIN assertions, NEW b \in BOOLEAN, OracleDispute(i, b) PROVE Goal
  <2>1. Disputable(i) /\ assertions' = [assertions EXCEPT ![i].disputed = TRUE]
    BY <1>6 DEF OracleDispute
  <2> QED BY <1>4, <2>1, DisputeRecorded
<1>7. ASSUME NEW i \in DOMAIN assertions, NEW b \in BOOLEAN, OracleVote(i, b) PROVE Goal
  BY <1>4, <1>7, VoteRecorded
<1>8. ASSUME NEW i \in DOMAIN assertions, NEW b \in BOOLEAN, OracleSettle(i, b) PROVE Goal
  BY <1>4, <1>8, SettlementWrites DEF OracleSettle
<1>9. ASSUME NEW i \in DOMAIN epochs, FinalizeIndex(i) PROVE Goal
  <2>1. Settleable(i) /\ SettleAt(i)
    BY <1>9 DEF FinalizeIndex
  <2> QED BY <1>1, <1>4, <2>1, SettlementWrites
<1>10. ASSUME \/ AssetNext \/ Tick \/ UNCHANGED vars
              \/ \E i \in DOMAIN epochs : \E l \in epochs[i].coverage : ClaimCoverage(i, l)
              \/ \E i \in DOMAIN epochs, upheld \in BOOLEAN : ResolveChallenge(i, upheld)
       PROVE  assertions' = assertions
  BY <1>10 DEF AssetNext, RegisterAsset, RevokeAsset, RequestIndexing, FundAsset, Tick, vars,
       ClaimCoverage, ResolveChallenge, epochVars
<1> HIDE DEF Goal, Kept
<1>11. Goal
  BY <1>2, <1>3, <1>5, <1>6, <1>7, <1>8, <1>9, <1>10 DEF Next, EpochNext, OracleNext
<1> QED BY <1>11 DEF Goal, Kept

\* The clock only moves forward, and only by Tick.
LEMMA ClockStep ==
  ASSUME TypeOK, [Next]_vars
  PROVE  now' = now \/ (now < MaxTime /\ now' = now + 1)
<1>1. CASE Tick
  BY <1>1 DEF Tick
<1>2. CASE AssetNext
  BY <1>2 DEF AssetNext, RegisterAsset, RevokeAsset, RequestIndexing, FundAsset
<1>3. CASE EpochNext
  BY <1>3 DEF EpochNext, PublishIndex, ChallengeIndex, ResolveChallenge, FinalizeIndex, ClaimCoverage
<1>4. CASE OracleNext
  BY <1>4 DEF OracleNext, OracleDispute, OracleVote, OracleSettle
<1>5. CASE UNCHANGED vars
  BY <1>5 DEF vars
<1> QED BY <1>1, <1>2, <1>3, <1>4, <1>5 DEF Next

\* Only a publication adds an epoch.
LEMMA OnlyPublished ==
  ASSUME TypeOK, [Next]_vars, DOMAIN epochs' # DOMAIN epochs
  PROVE  \E u \in Users, c \in Chains, r \in EpochRanges, cov \in Coverages :
           PublishIndex(u, c, r, cov)
<1>2. ASSUME NEW i \in DOMAIN epochs, NEW upheld \in BOOLEAN, Resolve(i, upheld) PROVE FALSE
  BY <1>2, ResolveEffect
<1>3. ASSUME NEW i \in DOMAIN epochs, NEW u \in Users, ChallengeIndex(u, i) PROVE FALSE
  BY <1>3, ChallengeWrites, EpochWritten
<1>4. ASSUME NEW i \in DOMAIN epochs, FinalizeIndex(i) PROVE FALSE
  BY <1>2, <1>4, OutcomeType DEF FinalizeIndex
<1>5. ASSUME NEW i \in DOMAIN assertions, NEW b \in BOOLEAN, OracleDispute(i, b) PROVE FALSE
  <2>1. i \in DOMAIN epochs
    BY <1>5 DEF OracleDispute, TypeOK
  <2> QED BY <1>5, <2>1, DisputeWrites, EpochWritten
<1>6. ASSUME NEW i \in DOMAIN assertions, NEW b \in BOOLEAN, OracleSettle(i, b) PROVE FALSE
  <2>1. i \in DOMAIN epochs /\ OracleMode
    BY <1>6 DEF OracleSettle, TypeOK
  <2> QED BY <1>2, <1>6, <2>1, OutcomeType DEF OracleSettle
<1>7. ASSUME NEW i \in DOMAIN epochs, NEW upheld \in BOOLEAN, ResolveChallenge(i, upheld) PROVE FALSE
  BY <1>2, <1>7 DEF ResolveChallenge
<1>8. ASSUME \/ AssetNext \/ Tick \/ UNCHANGED vars
             \/ \E i \in DOMAIN epochs : \E l \in epochs[i].coverage : ClaimCoverage(i, l)
             \/ \E i \in DOMAIN assertions, b \in BOOLEAN : OracleVote(i, b)
      PROVE  FALSE
  BY <1>8 DEF AssetNext, RegisterAsset, RevokeAsset, RequestIndexing, FundAsset, Tick, vars,
       ClaimCoverage, OracleVote, epochVars
<1> QED BY <1>3, <1>4, <1>5, <1>6, <1>7, <1>8 DEF Next, EpochNext, OracleNext

\* A new epoch is a proposed one.
LEMMA NewEpoch ==
  ASSUME TypeOK, [Next]_vars, NEW j \in DOMAIN epochs', j \notin DOMAIN epochs
  PROVE  epochs'[j].status = "Proposed"
<1>1. PICK u \in Users, c \in Chains, r \in EpochRanges, cov \in Coverages : PublishIndex(u, c, r, cov)
  BY OnlyPublished
<1>2. PICK e \in Epoch : epochs' = Append(epochs, e) /\ e.status = "Proposed"
  BY <1>1, PublicationWrites
<1> QED BY <1>2, EpochAppended

\* No stored deadline was truncated: either the oracle's checked sum refuses it, or the
\* clock stays a challenge window short of 2^64 seconds.
NoWrap == OracleMode \/ MaxTime + challengeWindow < U64

\* An undisputed settlement happened after the deadline, although the epoch may not have
\* heard of it: WindowHonoured alone is not inductive, since a skipped callback separates
\* the settlement from the decision.
WindowInv ==
  /\ TypeOK
  /\ now <= MaxTime
  /\ \A i \in DOMAIN epochs : epochs[i].deadline = epochs[i].publishedAt + challengeWindow
  /\ OracleMode => \A i \in DOMAIN epochs :
       assertions[i].settled /\ ~assertions[i].disputed => WindowClosed(i)

\* WindowInv is inductive while no deadline is truncated.
LEMMA WindowStep == NoWrap /\ WindowInv /\ [Next]_vars => WindowInv'
<1> SUFFICES ASSUME NoWrap, WindowInv, [Next]_vars PROVE WindowInv'
  OBVIOUS
<1>1. TypeOK /\ TypeOK'
  BY TypeStep DEF WindowInv
<1>2. now \in Nat /\ now' \in Nat /\ now <= now' /\ now' <= MaxTime
  BY <1>1, ClockStep DEF WindowInv, TypeOK
<1>3. ASSUME NEW j \in DOMAIN epochs PROVE SameCommitment(epochs[j], epochs'[j]) /\ j \in DOMAIN epochs'
  BY <1>1, EpochStep DEF SameCommitment, Disputes, Decides
<1>4. ASSUME NEW j \in DOMAIN epochs' \ DOMAIN epochs
      PROVE  epochs'[j].deadline = epochs'[j].publishedAt + challengeWindow
  <2>1. PICK u \in Users, c \in Chains, r \in EpochRanges, cov \in Coverages : PublishIndex(u, c, r, cov)
    BY <1>1, <1>4, OnlyPublished
  <2>2. PICK e \in Epoch : /\ epochs' = Append(epochs, e)
                           /\ e.publishedAt = now /\ e.deadline = (now + challengeWindow) % U64
    BY <1>1, <2>1, PublicationWrites
  <2>3. epochs'[j] = e
    BY <1>1, <1>4, <2>2, EpochAppended
  <2>4. now + challengeWindow < U64
    <3>1. CASE OracleMode
      BY <2>1, <3>1 DEF PublishIndex
    <3>2. CASE ~OracleMode
      BY <1>2, <3>2 DEF NoWrap, WindowInv
    <3> QED BY <3>1, <3>2
  <2>5. now + challengeWindow \in 0 .. (U64 - 1)
    BY <1>2, <2>4
  <2>6. (now + challengeWindow) % U64 = now + challengeWindow
    BY <2>5
  <2> QED BY <2>2, <2>3, <2>6
<1>5. ASSUME OracleMode, NEW j \in DOMAIN epochs', assertions'[j].settled, ~assertions'[j].disputed
      PROVE  WindowClosed(j)'
  <2>1. j \in DOMAIN epochs
    BY <1>1, <1>5, AssertionStep DEF Blank
  <2>2. PICK e \in Epoch : e = epochs[j]
    BY <1>1, <2>1 DEF TypeOK
  <2>3. epochs'[j].deadline = e.deadline /\ e.deadline \in Nat
    BY <1>3, <2>1, <2>2 DEF SameCommitment, Epoch
  <2>4. now > e.deadline
    <3>1. CASE assertions'[j] = assertions[j]
      BY <1>5, <2>1, <2>2, <3>1 DEF WindowInv, WindowClosed
    <3>2. CASE AssertionDisputed(j) \/ AssertionVoted(j)
      BY <1>5, <3>2 DEF AssertionDisputed, AssertionVoted
    <3>3. CASE AssertionSettled(j)
      BY <1>5, <2>1, <2>2, <3>3 DEF AssertionSettled, Settleable, WindowInv, WindowClosed
    <3> QED BY <1>1, <1>5, <2>1, <3>1, <3>2, <3>3, AssertionStep
  <2> QED BY <1>2, <2>3, <2>4 DEF WindowClosed
<1>6. \A j \in DOMAIN epochs' : epochs'[j].deadline = epochs'[j].publishedAt + challengeWindow
  BY <1>3, <1>4 DEF SameCommitment, WindowInv
<1> QED BY <1>1, <1>2, <1>5, <1>6 DEF WindowInv

\* A commitment nobody disputed stands open to challenge for its whole window, in both
\* modes and however the oracle's callbacks are skipped, while deadlines fit 64 bits.
THEOREM WindowsAreHonoured == NoWrap /\ Spec => WindowHonoured
<1>1. Init => WindowInv
  BY DEF Init, WindowInv, TypeOK, AssetRow, Funding
<1>2. ASSUME WindowInv, [Next]_vars
      PROVE  [\A i \in DOMAIN epochs :
               (/\ epochs[i].status = "Proposed" /\ epochs'[i].status = "Finalized"
                /\ OracleMode => ~assertions[i].disputed)
               => now > epochs[i].publishedAt + challengeWindow]_vars
  <2> SUFFICES ASSUME NEW i \in DOMAIN epochs,
                      epochs[i].status = "Proposed", epochs'[i].status = "Finalized",
                      OracleMode => ~assertions[i].disputed
               PROVE  WindowClosed(i)
    BY <1>2 DEF WindowInv, WindowClosed
  <2>1. Decides(i)
    BY <1>2, EpochStep DEF WindowInv, Disputes
  <2> QED BY <1>2, <2>1 DEF WindowInv, Decides, Settleable
<1>3. NoWrap /\ Spec => []WindowInv
  <2>1. NoWrap /\ WindowInv /\ [Next]_vars => WindowInv'
    BY WindowStep
  <2>2. ASSUME NoWrap PROVE Spec => []WindowInv
    <3>1. WindowInv /\ [Next]_vars => WindowInv'
      BY <2>1, <2>2
    <3> QED BY <1>1, <3>1, PTL DEF Spec
  <2> QED BY <2>2
<1> QED BY <1>2, <1>3, PTL DEF Spec, WindowHonoured

-----------------------------------------------------------------------------
(* The registry's books: what it holds is what it owes, its list is what   *)
(* was registered, its verdicts are the oracle's.                          *)

\* What is summed over the assets is a finite table of integers.
LEMMA OwedType ==
  ASSUME NEW a \in [Keys -> AssetRow], NEW f \in [Keys -> Funding]
  PROVE  IsFiniteSet(Keys) /\ [k \in Keys |-> a[k].bond + f[k].balance] \in [Keys -> Int]
<1>1. IsFiniteSet(Keys)
  BY KeysAssumption, FS_Product DEF Keys
<1>2. ASSUME NEW k \in Keys PROVE a[k].bond + f[k].balance \in Int
  BY DEF AssetRow, Funding
<1> QED BY <1>1, <1>2

\* What is summed over the epochs is a finite table of integers.
LEMMA StakesType ==
  ASSUME NEW s \in Seq(Epoch)
  PROVE  IsFiniteSet(DOMAIN s) /\ [i \in DOMAIN s |-> s[i].bond] \in [DOMAIN s -> Int]
<1>1. DOMAIN s = 1 .. Len(s) /\ Len(s) \in Nat
  OBVIOUS
<1>2. IsFiniteSet(DOMAIN s)
  BY <1>1, FS_Interval
<1>3. ASSUME NEW i \in DOMAIN s PROVE s[i].bond \in Int
  <2>1. s[i] \in Epoch
    OBVIOUS
  <2> QED BY <2>1 DEF Epoch
<1> QED BY <1>2, <1>3

\* A step that touches one asset moves what is owed by what it changed there.
LEMMA OwedMoves ==
  ASSUME TypeOK, TypeOK', NEW k \in Keys,
         \A j \in Keys \ {k} : /\ assets'[j].bond = assets[j].bond
                               /\ funding'[j].balance = funding[j].balance
  PROVE  SumFunction(Owed') = SumFunction(Owed)
           + (assets'[k].bond + funding'[k].balance) - (assets[k].bond + funding[k].balance)
<1>1. IsFiniteSet(Keys) /\ Owed \in [Keys -> Int]
  BY OwedType DEF TypeOK, Owed
<1>2. Owed' \in [Keys -> Int]
  BY OwedType DEF TypeOK, Owed
<1>3. \A j \in Keys \ {k} : Owed'[j] = Owed[j]
  BY DEF Owed
<1>4. Owed'[k] = assets'[k].bond + funding'[k].balance /\ Owed[k] = assets[k].bond + funding[k].balance
  BY DEF Owed
<1>5. SumFunction(Owed') = SumFunction(Owed) + Owed'[k] - Owed[k]
  BY <1>1, <1>2, <1>3, SumChange
<1> QED BY <1>4, <1>5

\* A step that writes one epoch moves what is at stake by what it changed there.
LEMMA StakesMove ==
  ASSUME TypeOK, TypeOK', NEW i \in DOMAIN epochs, NEW g, epochs' = [epochs EXCEPT ![i] = g]
  PROVE  SumFunction(Stakes') = SumFunction(Stakes) + g.bond - epochs[i].bond
<1>1. /\ DOMAIN epochs' = DOMAIN epochs /\ epochs'[i] = g
      /\ \A j \in DOMAIN epochs \ {i} : epochs'[j] = epochs[j]
  BY EpochWritten
<1>2. IsFiniteSet(DOMAIN epochs) /\ Stakes \in [DOMAIN epochs -> Int]
  BY StakesType DEF TypeOK, Stakes
<1>3. Stakes' \in [DOMAIN epochs -> Int]
  <2>1. Stakes' \in [DOMAIN epochs' -> Int]
    BY StakesType DEF TypeOK, Stakes
  <2> QED BY <1>1, <2>1
<1>4. \A j \in DOMAIN epochs \ {i} : Stakes'[j] = Stakes[j]
  BY <1>1 DEF Stakes
<1>5. Stakes'[i] = g.bond /\ Stakes[i] = epochs[i].bond
  BY <1>1 DEF Stakes
<1>6. SumFunction(Stakes') = SumFunction(Stakes) + Stakes'[i] - Stakes[i]
  BY <1>2, <1>3, <1>4, SumChange
<1> QED BY <1>5, <1>6

\* A publication adds its bond to what is at stake.
LEMMA StakesGrow ==
  ASSUME TypeOK, TypeOK', NEW e, epochs' = Append(epochs, e)
  PROVE  SumFunction(Stakes') = SumFunction(Stakes) + e.bond
<1> DEFINE n == Len(epochs) + 1
<1>1. /\ DOMAIN epochs' = DOMAIN epochs \cup {n} /\ n \notin DOMAIN epochs
      /\ \A j \in DOMAIN epochs : epochs'[j] = epochs[j]
      /\ epochs'[n] = e
  BY EpochAppended
<1>2. IsFiniteSet(DOMAIN epochs) /\ Stakes \in [DOMAIN epochs -> Int]
  BY StakesType DEF TypeOK, Stakes
<1>3. Stakes' \in [DOMAIN epochs \cup {n} -> Int]
  <2>1. Stakes' \in [DOMAIN epochs' -> Int]
    BY StakesType DEF TypeOK, Stakes
  <2> QED BY <1>1, <2>1
<1> HIDE DEF n
<1>4. (\A j \in DOMAIN epochs : Stakes'[j] = Stakes[j]) /\ Stakes'[n] = e.bond
  BY <1>1 DEF Stakes
<1>5. SumFunction(Stakes') = SumFunction(Stakes) + Stakes'[n]
  <2>1. PICK f, h, D, x, E : /\ f = Stakes /\ h = Stakes' /\ D = DOMAIN epochs
                             /\ x = n /\ E = DOMAIN epochs \cup {n}
    OBVIOUS
  <2>2. /\ IsFiniteSet(D) /\ x \notin D /\ E = D \cup {x}
        /\ f \in [D -> Int] /\ h \in [E -> Int] /\ \A y \in D : h[y] = f[y]
    BY <1>1, <1>2, <1>3, <1>4, <2>1
  <2>3. x \in E /\ D = E \ {x}
    BY <2>2
  <2>4. SumFunction(h) = SumFunction(f) + h[x]
    BY ONLY <2>2, <2>3, SumGrows
  <2> QED BY <2>1, <2>4
<1> QED BY <1>4, <1>5

\* Solvency is inductive with the fact that a revoked row holds no bond: registering
\* overwrites the row, and a bond still in it would be lost.
BooksInv ==
  /\ TypeOK
  /\ \A k \in Keys : ~assets[k].active => assets[k].bond = 0
  /\ BooksAgree

\* The sums are integers.
LEMMA SumsType ==
  ASSUME TypeOK
  PROVE  SumFunction(Owed) \in Int /\ SumFunction(Stakes) \in Int
<1>1. IsFiniteSet(Keys) /\ Owed \in [Keys -> Int]
  BY OwedType DEF TypeOK, Owed
<1>2. IsFiniteSet(DOMAIN epochs) /\ Stakes \in [DOMAIN epochs -> Int]
  BY StakesType DEF TypeOK, Stakes
<1> QED BY <1>1, <1>2, SumType

\* The contract's balance moves with what it owes.
LEMMA SolventMoves ==
  ASSUME TypeOK, Solvent, NEW owed \in Int, NEW stake \in Int,
         SumFunction(Owed') = SumFunction(Owed) + owed,
         ~OracleMode => SumFunction(Stakes') = SumFunction(Stakes) + stake,
         ether' = ether + owed + (IF OracleMode THEN 0 ELSE stake)
  PROVE  Solvent'
<1>1. PICK o \in Int, s \in Int : o = SumFunction(Owed) /\ s = SumFunction(Stakes)
  BY SumsType
<1>2. CASE OracleMode
  <2>1. ether = o + 0 /\ ether' = ether + owed + 0 /\ SumFunction(Owed') = o + owed
    BY <1>1, <1>2 DEF Solvent
  <2>2. ether' = SumFunction(Owed') + 0
    BY <2>1
  <2> QED BY <1>2, <2>2 DEF Solvent
<1>3. CASE ~OracleMode
  <2>1. ether = o + s /\ ether' = ether + owed + stake
        /\ SumFunction(Owed') = o + owed /\ SumFunction(Stakes') = s + stake
    BY <1>1, <1>3 DEF Solvent
  <2>2. ether' = SumFunction(Owed') + SumFunction(Stakes')
    BY <2>1
  <2> QED BY <1>3, <2>2 DEF Solvent
<1> QED BY <1>2, <1>3

\* A step on one asset keeps the contract solvent when the balance moves with the row.
LEMMA SolventAsset ==
  ASSUME TypeOK, TypeOK', Solvent, NEW k \in Keys, UNCHANGED epochs,
         \A j \in Keys \ {k} : /\ assets'[j].bond = assets[j].bond
                               /\ funding'[j].balance = funding[j].balance,
         ether' = ether + (assets'[k].bond + funding'[k].balance)
                        - (assets[k].bond + funding[k].balance)
  PROVE  Solvent'
<1>1. /\ assets[k].bond \in Nat /\ assets'[k].bond \in Nat
      /\ funding[k].balance \in Nat /\ funding'[k].balance \in Nat
  BY DEF TypeOK, AssetRow, Funding
<1>2. PICK d \in Int : d = (assets'[k].bond + funding'[k].balance) - (assets[k].bond + funding[k].balance)
  BY <1>1
<1>3. SumFunction(Owed) \in Int /\ SumFunction(Stakes) \in Int /\ ether \in Int
  BY SumsType DEF TypeOK
<1>4. SumFunction(Owed') = SumFunction(Owed) + d
  <2>1. SumFunction(Owed') = SumFunction(Owed)
           + (assets'[k].bond + funding'[k].balance) - (assets[k].bond + funding[k].balance)
    BY OwedMoves
  <2> QED BY <1>1, <1>2, <1>3, <2>1
<1>5. ether' = ether + d
  BY <1>1, <1>2, <1>3
<1>6. Stakes' = Stakes
  BY DEF Stakes
<1>7. SumFunction(Stakes') = SumFunction(Stakes) + 0
  BY <1>3, <1>6
<1>8. ether' = ether + d + (IF OracleMode THEN 0 ELSE 0)
  BY <1>3, <1>5
<1> QED BY <1>4, <1>7, <1>8, SolventMoves

\* A step on one epoch keeps the contract solvent when the balance moves with the bond.
LEMMA SolventEpoch ==
  ASSUME TypeOK, TypeOK', Solvent, NEW i \in DOMAIN epochs, NEW g \in Epoch,
         epochs' = [epochs EXCEPT ![i] = g], UNCHANGED <<assets, funding>>,
         ether' = ether + (IF OracleMode THEN 0 ELSE g.bond - epochs[i].bond)
  PROVE  Solvent'
<1>1. PICK e \in Epoch : e = epochs[i]
  BY DEF TypeOK
<1>2. PICK d \in Int : d = g.bond - e.bond
  BY DEF Epoch
<1>3. SumFunction(Owed) \in Int /\ SumFunction(Stakes) \in Int /\ ether \in Int
  BY SumsType DEF TypeOK
<1>4. SumFunction(Stakes') = SumFunction(Stakes) + d
  <2>1. SumFunction(Stakes') = SumFunction(Stakes) + g.bond - e.bond /\ g.bond \in Nat /\ e.bond \in Nat
    BY <1>1, StakesMove DEF Epoch
  <2> QED BY <1>2, <1>3, <2>1
<1>5. Owed' = Owed
  BY DEF Owed
<1>6. SumFunction(Owed') = SumFunction(Owed) + 0
  BY <1>3, <1>5
<1>7. ether' = ether + 0 + (IF OracleMode THEN 0 ELSE d)
  BY <1>1, <1>2, <1>3
<1> QED BY <1>4, <1>6, <1>7, SolventMoves

\* A decision pays out exactly the pot it writes off.
LEMMA SolventDecision ==
  ASSUME TypeOK, TypeOK', Solvent, NEW i \in DOMAIN epochs, NEW upheld \in BOOLEAN,
         Resolve(i, upheld), UNCHANGED <<assets, funding>>
  PROVE  Solvent'
<1>1. PICK g \in Epoch : epochs' = [epochs EXCEPT ![i] = g] /\ g.bond = 0
  BY DecisionWrites
<1>2. PICK b \in Nat : b = epochs[i].bond
  <2>1. epochs[i] \in Epoch
    BY DEF TypeOK
  <2> QED BY <2>1 DEF Epoch
<1>3. ether' = ether - (IF OracleMode THEN 0 ELSE b)
  BY <1>2 DEF Resolve, Pot
<1>4. ether' = ether + (IF OracleMode THEN 0 ELSE g.bond - epochs[i].bond)
  <2>1. ether \in Int
    BY DEF TypeOK
  <2>2. CASE OracleMode
    BY <1>3, <2>1, <2>2
  <2>3. CASE ~OracleMode
    <3>1. ether' = ether - b /\ g.bond - epochs[i].bond = 0 - b
      BY <1>1, <1>2, <1>3, <2>3
    <3>2. ether - b = ether + (0 - b)
      BY <2>1
    <3> QED BY <2>3, <3>1, <3>2
  <2> QED BY <2>2, <2>3
<1> QED BY <1>1, <1>4, SolventEpoch

\* Registering writes the row it names and no other.
LEMMA RegisterEffect ==
  ASSUME TypeOK, NEW u \in Users, NEW k \in Keys, Register(u, k)
  PROVE  /\ assets'[k].known /\ assets'[k].active /\ assets'[k].bond = assetBond
         /\ \A j \in Keys \ {k} : assets'[j] = assets[j]
         /\ assetKeys' = Listed(k)
  BY DEF TypeOK, Register

\* Revoking frees the row's bond and forgets nothing else.
LEMMA RevokeEffect ==
  ASSUME TypeOK, NEW u \in Users, NEW k \in Keys, RevokeAsset(u, k)
  PROVE  /\ assets'[k].known = assets[k].known /\ assets'[k].bond = 0
         /\ \A j \in Keys \ {k} : assets'[j] = assets[j]
<1>1. PICK a \in AssetRow : a = assets[k]
  BY DEF TypeOK
<1>2. PICK g : g = [a EXCEPT !.active = FALSE, !.bond = 0]
  OBVIOUS
<1>3. assets' = [assets EXCEPT ![k] = g]
  BY <1>1, <1>2 DEF RevokeAsset, TypeOK, AssetRow
<1>4. g.known = a.known /\ g.bond = 0
  BY <1>2 DEF AssetRow
<1> QED BY <1>1, <1>3, <1>4 DEF TypeOK

\* A registration lists a new key once and an old one not again.
LEMMA ListedOnce ==
  ASSUME TypeOK, AssetListedOnce, NEW u \in Users, NEW k \in Keys, Register(u, k)
  PROVE  AssetListedOnce'
<1>1. /\ assets'[k].known
      /\ \A j \in Keys \ {k} : assets'[j] = assets[j]
      /\ assetKeys' = Listed(k)
  BY RegisterEffect
<1>2. CASE assets[k].known
  <2>1. assetKeys' = assetKeys
    BY <1>1, <1>2 DEF Listed
  <2> QED BY <1>1, <1>2, <2>1 DEF AssetListedOnce
<1>3. CASE ~assets[k].known
  <2>1. assetKeys' = Append(assetKeys, k) /\ assetKeys \in Seq(Keys)
    BY <1>1, <1>3 DEF Listed, TypeOK
  <2>2. PICK n \in Nat : n = Len(assetKeys)
    BY <2>1
  <2>3. /\ DOMAIN assetKeys = 1 .. n /\ DOMAIN assetKeys' = 1 .. (n + 1)
        /\ \A m \in 1 .. n : assetKeys'[m] = assetKeys[m]
        /\ assetKeys'[n + 1] = k
    BY <2>1, <2>2
  <2>4. \A m \in 1 .. n : assetKeys[m] # k
    BY <1>3, <2>3 DEF AssetListedOnce
  <2>5. \A m \in 1 .. (n + 1) : m = n + 1 \/ m \in 1 .. n
    OBVIOUS
  <2>6. \A l, m \in DOMAIN assetKeys' : assetKeys'[l] = assetKeys'[m] => l = m
    BY <2>3, <2>4, <2>5 DEF AssetListedOnce
  <2>7. n + 1 \in 1 .. (n + 1) /\ 1 .. n \subseteq 1 .. (n + 1)
    OBVIOUS
  <2>8. ASSUME NEW j \in Keys
        PROVE  assets'[j].known <=> \E m \in DOMAIN assetKeys' : assetKeys'[m] = j
    <3>1. CASE j = k
      BY <1>1, <2>3, <2>7, <3>1
    <3>2. CASE j # k
      <4>1. assets[j].known <=> \E m \in 1 .. n : assetKeys[m] = j
        BY <2>3 DEF AssetListedOnce
      <4>2. (\E m \in 1 .. n : assetKeys[m] = j) <=> (\E m \in 1 .. (n + 1) : assetKeys'[m] = j)
        BY <2>3, <2>5, <2>7, <3>2
      <4> QED BY <1>1, <2>3, <3>2, <4>1, <4>2
    <3> QED BY <3>1, <3>2
  <2> QED BY <2>6, <2>8 DEF AssetListedOnce
<1> QED BY <1>2, <1>3

\* OracleDecides is inductive with the type invariant: a settled assertion never changes.
LEMMA OracleDecidesStep ==
  ASSUME TypeOK, OracleDecides, [Next]_vars
  PROVE  OracleDecides'
<1> SUFFICES ASSUME OracleMode, NEW i \in DOMAIN epochs'
             PROVE  /\ epochs'[i].status = "Finalized" => assertions'[i].settled /\ assertions'[i].truthful
                    /\ epochs'[i].status = "Rejected" => assertions'[i].settled /\ ~assertions'[i].truthful
                    /\ assertions'[i].settled /\ assertions'[i].disputed =>
                         assertions'[i].voteCast /\ assertions'[i].truthful = assertions'[i].voteTruthful
  BY DEF OracleDecides
<1>1. CASE i \notin DOMAIN epochs
  <2>1. Blank(assertions'[i])
    BY <1>1, AssertionStep
  <2>2. epochs'[i].status = "Proposed"
    BY <1>1, NewEpoch
  <2> QED BY <2>1, <2>2 DEF Blank
<1>2. CASE i \in DOMAIN epochs
  <2>1. PICK a \in Assertion : a = assertions[i]
    BY <1>2 DEF TypeOK
  <2>2. /\ epochs[i].status = "Finalized" => a.settled /\ a.truthful
        /\ epochs[i].status = "Rejected" => a.settled /\ ~a.truthful
        /\ a.settled /\ a.disputed => a.voteCast /\ a.truthful = a.voteTruthful
    BY <1>2, <2>1 DEF OracleDecides
  <2>3. /\ assertions'[i] = a \/ AssertionDisputed(i) \/ AssertionVoted(i) \/ AssertionSettled(i)
        /\ epochs'[i] = epochs[i] \/ Disputes(i) \/ Decides(i)
    BY <1>2, <2>1, AssertionStep, EpochStep
  <2>4. assertions'[i].settled /\ assertions'[i].disputed =>
          assertions'[i].voteCast /\ assertions'[i].truthful = assertions'[i].voteTruthful
    <3>1. CASE assertions'[i] = a
      BY <2>2, <3>1
    <3>2. CASE AssertionDisputed(i) \/ AssertionVoted(i)
      BY <3>2 DEF AssertionDisputed, AssertionVoted
    <3>3. CASE AssertionSettled(i)
      <4>1. CASE a.settled
        BY <2>1, <2>2, <3>3, <4>1 DEF AssertionSettled, Outcome
      <4>2. CASE ~a.settled
        BY <2>1, <3>3, <4>2 DEF AssertionSettled, Outcome, Settleable, Assertion
      <4> QED BY <4>1, <4>2
    <3> QED BY <2>3, <3>1, <3>2, <3>3
  <2>5. CASE Decides(i)
    <3>1. /\ Settleable(i) /\ SettleAt(i)
          /\ epochs'[i].status = IF Outcome(i) THEN "Finalized" ELSE "Rejected"
      BY <2>5 DEF Decides
    <3>2. AssertionSettled(i)
      <4>1. i \in DOMAIN assertions
        BY <1>2 DEF TypeOK
      <4> QED BY <3>1, <4>1, SettlementWrites
    <3> QED BY <2>4, <3>1, <3>2 DEF AssertionSettled
  <2>6. CASE Disputes(i)
    BY <2>4, <2>6 DEF Disputes
  <2>7. CASE epochs'[i] = epochs[i]
    <3>1. CASE a.settled
      <4>1. assertions'[i].settled /\ assertions'[i].truthful = a.truthful
        BY <2>1, <2>3, <3>1 DEF AssertionDisputed, AssertionVoted, AssertionSettled, Disputable, Outcome
      <4> QED BY <2>2, <2>4, <2>7, <4>1
    <3>2. CASE ~a.settled
      BY <2>2, <2>4, <2>7, <3>2
    <3> QED BY <3>1, <3>2
  <2> QED BY <2>3, <2>5, <2>6, <2>7
<1> QED BY <1>1, <1>2

\* Every step keeps the contract solvent: every wei that arrives or leaves is booked.
LEMMA SolventStep ==
  ASSUME BooksInv, [Next]_vars
  PROVE  Solvent'
<1>1. TypeOK /\ TypeOK' /\ Solvent
  BY TypeStep DEF BooksInv, BooksAgree
<1>2. ASSUME NEW k \in Keys, NEW u \in Users, RegisterAsset(u, k) PROVE Solvent'
  <2>1. Register(u, k) /\ assets[k].bond = 0 /\ ether' = ether + assetBond
        /\ UNCHANGED <<funding, epochs>>
    BY <1>2 DEF RegisterAsset, BooksInv, moneyVars, epochVars
  <2>2. assets'[k].bond = assetBond /\ \A j \in Keys \ {k} : assets'[j] = assets[j]
    BY <1>1, <2>1, RegisterEffect
  <2>3. funding[k].balance \in Nat /\ ether \in Int
    BY <1>1 DEF TypeOK, Funding
  <2>4. ether' = ether + (assets'[k].bond + funding'[k].balance) - (assets[k].bond + funding[k].balance)
    BY <2>1, <2>2, <2>3
  <2> QED BY <1>1, <2>1, <2>2, <2>4, SolventAsset
<1>3. ASSUME NEW k \in Keys, NEW u \in Users, RevokeAsset(u, k) PROVE Solvent'
  <2>1. ether' = ether - assets[k].bond /\ UNCHANGED <<funding, epochs>>
    BY <1>3 DEF RevokeAsset, moneyVars, epochVars
  <2>2. assets'[k].bond = 0 /\ \A j \in Keys \ {k} : assets'[j] = assets[j]
    BY <1>1, <1>3, RevokeEffect
  <2>3. funding[k].balance \in Nat /\ assets[k].bond \in Nat /\ ether \in Int
    BY <1>1 DEF TypeOK, Funding, AssetRow
  <2>4. ether' = ether + (assets'[k].bond + funding'[k].balance) - (assets[k].bond + funding[k].balance)
    BY <2>1, <2>2, <2>3
  <2> QED BY <1>1, <2>1, <2>2, <2>4, SolventAsset
<1>4. ASSUME NEW k \in Keys, NEW amount \in Nat, Fund(k, amount)
      PROVE  /\ funding'[k].balance = funding[k].balance + amount
             /\ \A j \in Keys \ {k} : funding'[j] = funding[j]
             /\ funding[k].balance \in Nat /\ assets[k].bond \in Nat /\ ether \in Int
  BY <1>1, <1>4, FundType DEF TypeOK, Funding, AssetRow
<1>5. ASSUME NEW k \in Keys, NEW u \in Users, NEW v \in Amounts, RequestIndexing(u, k, v)
      PROVE  Solvent'
  <2>1. v \in Nat /\ ether' = ether + v /\ UNCHANGED epochs
    BY <1>5 DEF RequestIndexing, epochVars
  <2>2. CASE assets[k].active
    <3>1. Fund(k, v) /\ UNCHANGED assets
      BY <1>5, <2>2 DEF RequestIndexing, assetVars
    <3>2. ether' = ether + (assets'[k].bond + funding'[k].balance) - (assets[k].bond + funding[k].balance)
      BY <1>4, <2>1, <3>1
    <3> QED BY <1>1, <1>4, <2>1, <3>1, <3>2, SolventAsset
  <2>3. CASE ~assets[k].active
    <3>1. v - assetBond \in Nat
      BY <1>5, <2>1, <2>3 DEF RequestIndexing
    <3>2. Fund(k, v - assetBond) /\ Register(u, k) /\ assets[k].bond = 0
      BY <1>5, <2>3 DEF RequestIndexing, BooksInv
    <3>3. assets'[k].bond = assetBond /\ \A j \in Keys \ {k} : assets'[j] = assets[j]
      BY <1>1, <3>2, RegisterEffect
    <3>4. /\ funding'[k].balance = funding[k].balance + (v - assetBond)
          /\ \A j \in Keys \ {k} : funding'[j] = funding[j]
          /\ funding[k].balance \in Nat /\ ether \in Int
      BY <1>4, <3>1, <3>2
    <3>5. ether' = ether + (assets'[k].bond + funding'[k].balance) - (assets[k].bond + funding[k].balance)
      BY <2>1, <3>2, <3>3, <3>4
    <3> QED BY <1>1, <2>1, <3>3, <3>4, <3>5, SolventAsset
  <2> QED BY <2>2, <2>3
<1>6. ASSUME NEW k \in Keys, NEW v \in Amounts, FundAsset(k, v) PROVE Solvent'
  <2>1. v \in Nat /\ ether' = ether + v /\ UNCHANGED <<epochs, assets>> /\ Fund(k, v)
    BY <1>6 DEF FundAsset, epochVars, assetVars
  <2>2. ether' = ether + (assets'[k].bond + funding'[k].balance) - (assets[k].bond + funding[k].balance)
    BY <1>4, <2>1
  <2> QED BY <1>1, <1>4, <2>1, <2>2, SolventAsset
<1>7. ASSUME NEW u \in Users, NEW c \in Chains, NEW r \in EpochRanges, NEW cov \in Coverages,
             PublishIndex(u, c, r, cov)
      PROVE  Solvent'
  <2>1. PICK e \in Epoch : epochs' = Append(epochs, e) /\ e.bond = publisherBond
    BY <1>1, <1>7, PublicationWrites
  <2>2. UNCHANGED <<assets, funding>> /\ ether' = ether + (IF OracleMode THEN 0 ELSE publisherBond)
    <3>1. ether \in Int
      BY <1>1 DEF TypeOK
    <3> QED BY <1>7, <3>1 DEF PublishIndex, assetVars, moneyVars
  <2>3. Owed' = Owed
    BY <2>2 DEF Owed
  <2>4. SumFunction(Owed) \in Int /\ ether \in Int
    BY <1>1, SumsType DEF TypeOK
  <2>5. SumFunction(Owed') = SumFunction(Owed) + 0
    BY <2>3, <2>4
  <2>6. SumFunction(Stakes') = SumFunction(Stakes) + publisherBond
    BY <1>1, <2>1, StakesGrow
  <2>7. ether' = ether + 0 + (IF OracleMode THEN 0 ELSE publisherBond)
    BY <2>2, <2>4
  <2> QED BY <1>1, <2>5, <2>6, <2>7, SolventMoves
<1>8. ASSUME NEW i \in DOMAIN epochs, NEW u \in Users, ChallengeIndex(u, i) PROVE Solvent'
  <2>1. PICK g \in Epoch : /\ epochs' = [epochs EXCEPT ![i] = g]
                           /\ g.bond = IF OracleMode THEN epochs[i].bond
                                       ELSE epochs[i].bond + epochs[i].bond
    BY <1>1, <1>8, ChallengeWrites
  <2>2. PICK b \in Nat : b = epochs[i].bond
    <3>1. epochs[i] \in Epoch
      BY <1>1 DEF TypeOK
    <3> QED BY <3>1 DEF Epoch
  <2>3. ether' = ether + (IF OracleMode THEN 0 ELSE g.bond - epochs[i].bond)
    <3>1. ether \in Int
      BY <1>1 DEF TypeOK
    <3>2. CASE OracleMode
      BY <1>8, <3>1, <3>2 DEF ChallengeIndex
    <3>3. CASE ~OracleMode
      <4>1. ether' = ether + b /\ g.bond = b + b
        BY <1>8, <2>1, <2>2, <3>3 DEF ChallengeIndex
      <4>2. g.bond - epochs[i].bond = b
        BY <2>2, <4>1
      <4> QED BY <3>3, <4>1, <4>2
    <3> QED BY <3>2, <3>3
  <2>4. UNCHANGED <<assets, funding>>
    BY <1>8 DEF ChallengeIndex, assetVars, moneyVars
  <2> QED BY <1>1, <2>1, <2>3, <2>4, SolventEpoch
<1>9. ASSUME NEW i \in DOMAIN epochs, NEW upheld \in BOOLEAN, ResolveChallenge(i, upheld)
      PROVE  Solvent'
  BY <1>1, <1>9, SolventDecision DEF ResolveChallenge, assetVars, moneyVars
<1>10. ASSUME NEW i \in DOMAIN epochs, FinalizeIndex(i) PROVE Solvent'
  <2>1. UNCHANGED <<assets, funding>>
    BY <1>10 DEF FinalizeIndex, assetVars, moneyVars
  <2>2. \E upheld \in BOOLEAN : Resolve(i, upheld)
    BY <1>1, <1>10, OutcomeType DEF FinalizeIndex
  <2> QED BY <1>1, <2>1, <2>2, SolventDecision
<1>11. ASSUME NEW i \in DOMAIN assertions, NEW b \in BOOLEAN, OracleSettle(i, b) PROVE Solvent'
  <2>1. i \in DOMAIN epochs /\ OracleMode /\ UNCHANGED <<assets, funding>>
    BY <1>1, <1>11 DEF OracleSettle, TypeOK, assetVars, moneyVars
  <2>2. CASE b /\ Undecided(i)
    BY <1>1, <1>11, <2>1, <2>2, OutcomeType, SolventDecision DEF OracleSettle
  <2>3. CASE ~(b /\ Undecided(i))
    BY <1>1, <1>11, <2>1, <2>3 DEF OracleSettle, Solvent, Owed
  <2> QED BY <2>2, <2>3
<1>12. ASSUME NEW i \in DOMAIN assertions, NEW b \in BOOLEAN, OracleDispute(i, b) \/ OracleVote(i, b)
       PROVE  Solvent'
  BY <1>1, <1>12 DEF OracleDispute, OracleVote, Solvent, Owed, assetVars, moneyVars
<1>13. ASSUME NEW i \in DOMAIN epochs, NEW l \in epochs[i].coverage, ClaimCoverage(i, l)
       PROVE  Solvent'
  <2> DEFINE k == l.key
  <2>1. k \in Keys
    BY <1>1, <1>13, ClaimEffect DEF Leaf
  <2>2. PICK f \in Funding : f = funding[k]
    BY <1>1, <2>1 DEF TypeOK
  <2>3. PICK r \in Nat : r = Reward(f, l.from, l.to) /\ r <= f.balance
    BY <1>1, <1>13, <2>2, ClaimEffect
  <2>4. PICK g : /\ funding' = [funding EXCEPT ![k] = g]
                 /\ g.balance = f.balance - r
    <3>1. PICK g : g = [balance |-> f.balance - r,
                    paidFrom |-> IF f.paidTo = 0 \/ l.from < f.paidFrom THEN l.from ELSE f.paidFrom,
                    paidTo |-> IF f.paidTo = 0 \/ l.to > f.paidTo THEN l.to ELSE f.paidTo,
                    vouched |-> f.vouched]
      OBVIOUS
    <3>2. funding' = [funding EXCEPT ![k] = g]
      BY <1>1, <1>13, <2>2, <2>3, <3>1, ClaimEffect
    <3>3. g.balance = f.balance - r
      BY <3>1
    <3> HIDE DEF k
    <3> QED BY <3>2, <3>3
  <2>5. funding'[k] = g /\ \A j \in Keys \ {k} : funding'[j] = funding[j]
    BY <1>1, <2>1, <2>4 DEF TypeOK
  <2>6. ether' = ether - r /\ UNCHANGED <<assets, epochs>>
    BY <1>13, <2>2, <2>3 DEF ClaimCoverage, assetVars, epochVars
  <2>7. f.balance \in Nat /\ assets[k].bond \in Nat /\ ether \in Int
    BY <1>1, <2>1 DEF TypeOK, Funding, AssetRow
  <2>8. ether' = ether + (assets'[k].bond + funding'[k].balance) - (assets[k].bond + funding[k].balance)
    BY <2>2, <2>4, <2>5, <2>6, <2>7
  <2> QED BY <1>1, <2>1, <2>5, <2>6, <2>8, SolventAsset
<1>14. ASSUME Tick \/ UNCHANGED vars PROVE Solvent'
  BY <1>1, <1>14 DEF Tick, vars, Solvent, Owed, Stakes, assetVars, moneyVars, epochVars
<1> QED
  BY <1>2, <1>3, <1>5, <1>6, <1>7, <1>8, <1>9, <1>10, <1>11, <1>12, <1>13, <1>14
     DEF Next, AssetNext, EpochNext, OracleNext

\* BooksInv is inductive.
LEMMA BooksStep == BooksInv /\ [Next]_vars => BooksInv'
<1> SUFFICES ASSUME BooksInv, [Next]_vars PROVE BooksInv'
  OBVIOUS
<1>1. TypeOK /\ TypeOK' /\ AssetListedOnce /\ OracleDecides
  BY TypeStep DEF BooksInv, BooksAgree
<1> DEFINE Freed == \A k \in Keys : ~assets[k].active => assets[k].bond = 0
<1>2. ASSUME UNCHANGED <<assets, assetKeys>> PROVE Freed' /\ AssetListedOnce'
  BY <1>1, <1>2 DEF BooksInv, AssetListedOnce
<1>3. ASSUME NEW k \in Keys, NEW u \in Users, Register(u, k) PROVE Freed' /\ AssetListedOnce'
  BY <1>1, <1>3, RegisterEffect, ListedOnce DEF BooksInv
<1>4. ASSUME NEW k \in Keys, NEW u \in Users, RevokeAsset(u, k) PROVE Freed' /\ AssetListedOnce'
  <2>1. /\ assets'[k].known = assets[k].known /\ assets'[k].bond = 0
        /\ \A j \in Keys \ {k} : assets'[j] = assets[j]
    BY <1>1, <1>4, RevokeEffect
  <2>2. assetKeys' = assetKeys
    BY <1>4 DEF RevokeAsset
  <2> QED BY <1>1, <2>1, <2>2 DEF BooksInv, AssetListedOnce
<1>5. Freed' /\ AssetListedOnce'
  <2>1. CASE AssetNext
    <3>1. ASSUME NEW k \in Keys, NEW u \in Users, RegisterAsset(u, k) PROVE Freed' /\ AssetListedOnce'
      BY <1>3, <3>1 DEF RegisterAsset
    <3>2. ASSUME NEW k \in Keys, NEW u \in Users, NEW v \in Amounts, RequestIndexing(u, k, v)
          PROVE  Freed' /\ AssetListedOnce'
      BY <1>2, <1>3, <3>2 DEF RequestIndexing, assetVars
    <3>3. ASSUME NEW k \in Keys, NEW v \in Amounts, FundAsset(k, v) PROVE Freed' /\ AssetListedOnce'
      BY <1>2, <3>3 DEF FundAsset, assetVars
    <3> HIDE DEF Freed
    <3> QED BY <1>4, <2>1, <3>1, <3>2, <3>3 DEF AssetNext
  <2>2. CASE EpochNext \/ OracleNext \/ Tick \/ UNCHANGED vars
    BY <1>2, <2>2 DEF EpochNext, OracleNext, Tick, vars, assetVars, PublishIndex, ChallengeIndex,
         ResolveChallenge, FinalizeIndex, ClaimCoverage, OracleDispute, OracleVote, OracleSettle
  <2> QED BY <2>1, <2>2 DEF Next
<1>6. OracleDecides'
  BY <1>1, OracleDecidesStep
<1>7. Solvent'
  BY SolventStep
<1> QED BY <1>1, <1>5, <1>6, <1>7 DEF BooksInv, BooksAgree

\* Whatever is registered, funded, revoked, published, challenged, decided or claimed, and
\* whatever the oracle does behind the registry's back: the contract can pay all it owes,
\* lists every asset once and repeats the oracle's verdicts.
THEOREM BooksAlwaysAgree == Spec => []BooksAgree
<1>1. Init => BooksInv
  <2> SUFFICES ASSUME Init PROVE BooksInv
    OBVIOUS
  <2>1. TypeOK
    BY DEF Init, TypeOK, AssetRow, Funding
  <2>2. AssetListedOnce /\ OracleDecides /\ \A k \in Keys : assets[k].bond = 0
    BY DEF Init, AssetListedOnce, OracleDecides
  <2>3. \A k \in Keys : Owed[k] = 0
    BY DEF Init, Owed
  <2>4. SumFunction(Owed) = 0
    <3>1. IsFiniteSet(Keys) /\ Owed \in [Keys -> Int]
      BY <2>1, OwedType DEF TypeOK, Owed
    <3> QED BY <2>3, <3>1, SumZero
  <2>5. SumFunction(Stakes) = 0
    <3>1. IsFiniteSet(DOMAIN epochs) /\ Stakes \in [DOMAIN epochs -> Int]
      BY <2>1, StakesType DEF TypeOK, Stakes
    <3>2. DOMAIN epochs = {}
      BY DEF Init
    <3> QED BY <3>1, <3>2, SumZero
  <2>6. Solvent
    BY <2>4, <2>5 DEF Init, Solvent
  <2> QED BY <2>1, <2>2, <2>6 DEF BooksInv, BooksAgree
<1>2. BooksInv => BooksAgree
  BY DEF BooksInv
<1> QED BY <1>1, <1>2, BooksStep, PTL DEF Spec

\* The contract's balance is always exactly its obligations, in both modes.
THEOREM AlwaysSolvent == Spec => []Solvent
<1>1. BooksAgree => Solvent
  BY DEF BooksAgree
<1> QED BY <1>1, BooksAlwaysAgree, PTL
=============================================================================
