------------------------------- MODULE Merkle -------------------------------
(***************************************************************************)
(* The commitment trees of internal/merkle.  A hash is the value it was    *)
(* taken over: two hashes are equal exactly when their inputs are.  An     *)
(* asset list is hashed sorted and without repeats, so its digest is the   *)
(* set; a pair of nodes is hashed in ascending order, so its digest is the *)
(* unordered pair.                                                         *)
(***************************************************************************)
EXTENDS Naturals, Sequences, FiniteSets, SequencesExt

\* Root of no leaves: the zero hash, which no leaf and no pair produces.
ZeroHash == [zero |-> TRUE]

\* AssetsHash: sorted, unique addresses.
AssetsHash(assets) == assets

LeafHash(account, assetsHash) == [account |-> account, assets |-> assetsHash]

CoverageLeaf(asset, from, to) == [asset |-> asset, from |-> from, to |-> to]

\* hashPair
HashPair(a, b) == [pair |-> {a, b}]

\* One level up: an odd node is promoted unchanged.
NextLevel(level) ==
  [i \in 1 .. ((Len(level) + 1) \div 2) |->
     IF 2 * i > Len(level) THEN level[2 * i - 1]
     ELSE HashPair(level[2 * i - 1], level[2 * i])]

\* Build: every level from the leaves, level 0, up to a single node.
Build(leaves) ==
  LET up[d \in 0 .. Len(leaves)] == IF d = 0 THEN leaves ELSE NextLevel(up[d - 1])
      top == CHOOSE d \in 0 .. Len(leaves) :
               /\ Len(up[d]) <= 1
               /\ \A e \in 0 .. d - 1 : Len(up[e]) > 1
  IN  [d \in 0 .. top |-> up[d]]

Height(tree) == Cardinality(DOMAIN tree) - 1

Root(leaves) == IF leaves = <<>> THEN ZeroHash
                ELSE LET tree == Build(leaves) IN tree[Height(tree)][1]

\* idx ^ 1
Sibling(i) == IF i % 2 = 0 THEN i + 1 ELSE i - 1

\* Proof: the sibling path of the leaf at index i, counted from 0; a promoted node
\* has no sibling at its level.
Proof(tree, i) ==
  LET at[d \in 0 .. Height(tree)] == IF d = 0 THEN i ELSE at[d - 1] \div 2
      sibling(d) == Sibling(at[d])
  IN  FlattenSeq([d \in 1 .. Height(tree) |->
        IF sibling(d - 1) < Len(tree[d - 1]) THEN <<tree[d - 1][sibling(d - 1) + 1]>> ELSE <<>>])

\* Verify, and _verify of HintRegistry.sol.
Verify(root, leaf, proof) == FoldLeft(HashPair, leaf, proof) = root

\* A tree of n leaves: the path Proof returns leads from each leaf to the root, and no
\* other leaf verifies with it.
PathsVerify(n) ==
  LET leaves == [i \in 1 .. n |-> [leaf |-> i]]
      tree == Build(leaves)
  IN  \A i, j \in 1 .. n :
        Verify(Root(leaves), leaves[j], Proof(tree, i - 1)) <=> i = j

\* Every shape of tree up to this many leaves.
SmallTreesProve == \A n \in 1 .. 9 : PathsVerify(n)

=============================================================================
