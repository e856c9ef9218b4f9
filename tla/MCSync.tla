----------------------------- MODULE MCSync -----------------------------
EXTENDS Sync

CONSTANTS n1, n2, n3, peer1, peer2

On(base, n, slots) == base \o [i \in 1 .. Len(slots) |-> [slot |-> slots[i], proof |-> n]]
Closure(tips) == UNION { Prefixes(b) : b \in tips }

\* The peer that was made from the given block and has received others in the given order.
GrownFrom(base, blocks) ==
  LET start == [tip |-> base, forks |-> << >>, stored |-> {base}, root |-> base,
                state |-> "BOOTSTRAPPING"]
      grown[i \in 0 .. Len(blocks)] ==
        IF i = 0 THEN start ELSE received(grown[i-1], blocks[i])
  IN  grown[Len(blocks)]

Grown(blocks) == GrownFrom(Genesis, blocks)

Chain(base, b) == [i \in 1 .. Len(b) - Len(base) |-> SubSeq(b, 1, Len(base) + i)]

\* A peer that holds in addition blocks no Follower would accept, below its tip's notice.
With(peer, blocks) == [peer EXCEPT !.stored = @ \cup blocks]

\* a is the best chain; b parts from it after its first block; x, on b, is led by a
\* note nobody holds, and y is a fork that ends in the slot of a's first block.
a == On(Genesis, n1, << 1, 2, 3, 5 >>)
b == On(SubSeq(a, 1, 1), n2, << 2, 4 >>)
x == On(SubSeq(b, 1, 2), n3, << 3, 5 >>)
y == On(Genesis, n2, << 1 >>)

SyncBlocks == Closure({a, b, x, y})
At1 == SubSeq(a, 1, 1)

PeersDef == {peer1, peer2}
Starts ==
  { << Grown(Chain(Genesis, SubSeq(a, 1, 3))), Grown(Chain(Genesis, SubSeq(a, 1, 2)) \o Chain(At1, b) \o << y >>) >>,
    << Grown(Chain(Genesis, SubSeq(a, 1, 2)) \o Chain(At1, b)),
       With(Grown(Chain(Genesis, SubSeq(a, 1, 3)) \o << SubSeq(b, 1, 2) >>),
            Closure({x}) \ Closure({b})) >>,
    << GrownFrom(SubSeq(a, 1, 2), << SubSeq(a, 1, 3) >>), Grown(Chain(Genesis, b)) >> }
PeerStartsDef == { [p \in PeersDef |-> IF p = peer1 THEN s[1] ELSE s[2]] : s \in Starts }
ArrivingDef == {a}
CheckpointsDef == {SubSeq(a, 1, 2), x}

NoteDef == {n1, n2, n3}
GenesisNotesDef == {n1, n2}
RateDef == [num |-> 4, den |-> 5]
ExpectedDef == [num |-> 7, den |-> 10]
==========================================================================
