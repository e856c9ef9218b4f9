--------------------------- MODULE MCFollower ---------------------------
EXTENDS CommonPrefix

CONSTANTS n1, n2, n3

\* The chain that one leader's blocks in the given slots make on top of `base'.
On(base, n, slots) == base \o [i \in 1 .. Len(slots) |-> [slot |-> slots[i], proof |-> n]]

Closure(tips) == UNION { Prefixes(b) : b \in tips }

\* K = 2, windows of six slots, epochs of four: the chains cross epochs at different
\* heights, part from each other both deeper and shallower than K, one of them goes back
\* in slots, and n3 leads blocks although genesis does not hold it.
BlocksDef ==
  LET a == On(On(Genesis, n1, << 2, 6 >>), n3, << 8, 14 >>)
      b == On(On(SubSeq(a, 1, 1), n2, << 4 >>), n3, << 8, 10 >>)
      c == On(SubSeq(a, 1, 2), n1, << 4, 12 >>)
      d == On(Genesis, n2, << 4 >>)
      x == On(SubSeq(a, 1, 2), Misbound, << 8 >>)
  IN  Closure({a, b, c, d, x})

NoteDef == {n1, n2, n3}
GenesisNotesDef == {n1, n2}

RateDef == [num |-> 4, den |-> 5]
ExpectedDef == [num |-> 7, den |-> 10]
==========================================================================
