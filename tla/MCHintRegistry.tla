--------------------------- MODULE MCHintRegistry ---------------------------
(* Small instances of HintRegistry for TLC. *)
EXTENDS HintRegistry

LeafOf(c, t, a, b) == [key |-> <<c, t>>, from |-> a, to |-> b]

\* One asset, four blocks: leaves that replay, overlap, skip and span each other.
MCOneAssetRanges    == {<<1, 4>>}
MCOneAssetCoverages ==
  LET L(a, b) == LeafOf(1, "t", a, b)
  IN  {{L(1, 1), L(3, 3)}, {L(2, 4)}, {L(1, 4)}}

\* A single leaf: bonds, pots and rewards from one balance.
MCShortRanges    == {<<1, 2>>}
MCShortCoverages == {{LeafOf(1, "t", 1, 2)}}
=============================================================================
