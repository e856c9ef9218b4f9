----------------------------- MODULE MCCarnot -----------------------------
EXTENDS Carnot, TLC

CONSTANTS n1, n2, n3, n4, n5

\* FlatOverlay: everybody is in the root committee, and votes without votes.
FourNodes == {n1, n2, n3, n4}
NoChilds == [n \in Nodes |-> {}]
NoThreshold == [n \in Nodes |-> 0]
OneLeader == [v \in 1 .. MaxView + 1 |-> n1]

\* The overlay of test_unhappy_path: n1 over n2 and n3, n2 over n4 and n5.
FiveNodes == {n1, n2, n3, n4, n5}
TreeRoot == {n1}
TreeChildOfRoot == {n2, n3}
TreeChilds == [n \in Nodes |-> IF n = n1 THEN {n2, n3} ELSE IF n = n2 THEN {n4, n5} ELSE {}]
TreeThreshold == [n \in Nodes |-> IF n \in {n1, n2} THEN 2 ELSE 0]
\* There the root leads; here a leaf does, so that it depends on what the root forwards.
LeafLeader == [v \in 1 .. MaxView + 1 |-> n3]

Symmetry == Permutations(Nodes \ {n1})

\* The first view has passed without a hitch, and its leader has proposed the next block.
Block1 == [view |-> 1, qc |-> genesis_block.qc]
Block2 == [view |-> 2, qc |-> StandardQc(id(Block1), 1)]

SecondView ==
  /\ current_view = [n \in Nodes |-> 1]
  /\ highest_voted_view = [n \in Nodes |-> 1]
  /\ local_high_qc = [n \in Nodes |-> genesis_block.qc]
  /\ safe_blocks = [n \in Nodes |-> {genesis_block, Block1}]
  /\ last_view_timeout_qc = [n \in Nodes |-> None]
  /\ msgs = { [type |-> "block", block |-> b] : b \in {Block1, Block2} }
             \cup { [type |-> "vote", block |-> id(Block1), view |-> 1, sender |-> n, to |-> {leader[2]}] :
                       n \in Nodes }

SecondViewSpec == SecondView /\ [][Next]_vars
==========================================================================
