--------------------------- MODULE TreeOverlay ---------------------------
(***************************************************************************)
(* The tree of committees of deprecated/carnot/tree_overlay.py: CarnotTree *)
(* cuts a list of nodes into committees, which are the nodes of a binary   *)
(* tree; CarnotOverlay moves from view to view with advance(), which       *)
(* shuffles the nodes and names the next leader.                           *)
(***************************************************************************)
EXTENDS Integers, Sequences, FiniteSets, SequencesExt

CONSTANTS
  Lists,      \* lists of distinct nodes that an overlay may be created on
  Counts,     \* numbers of committees it may be created with
  Shuffles(_) \* permutations of 1 .. n that entropies may give

(***************************************************************************)
(* An entropy seeds a shuffle, by which the list becomes another, and a    *)
(* choice, which picks one of the shuffled list's positions.               *)
(***************************************************************************)
Entropies(n) == [order : Shuffles(n), choice : 1 .. n]

ASSUME CountsAssumption == Counts \subseteq Nat \ {0}
ASSUME ListsAssumption ==
  \A nodes \in Lists :
    /\ nodes \in Seq(ToSet(nodes)) /\ nodes # << >>
    /\ \A i, j \in DOMAIN nodes : nodes[i] = nodes[j] => i = j
\* random.shuffle reorders a list.
ASSUME ShufflesAssumption ==
  \A nodes \in Lists : \A order \in Shuffles(Len(nodes)) :
    /\ DOMAIN order = DOMAIN nodes
    /\ \A k \in DOMAIN nodes : \E i \in DOMAIN nodes : order[i] = k
    /\ \A i, j \in DOMAIN nodes : order[i] \in DOMAIN nodes /\ (order[i] = order[j] => i = j)

VARIABLES
  nodes,                \* the shuffled list
  current_leader,
  entropy,
  number_of_committees,
  carnot_tree           \* membership_committees, by index from 0

vars == << nodes, current_leader, entropy, number_of_committees, carnot_tree >>

---------------------------------------------------------------------------
(* CarnotTree. A committee's id is a hash of its members: the set itself.  *)

\* Faulty variant: the last nodes all go to the first committee.
build_committees_one_refilled(list, count) ==
  LET committee_size == Len(list) \div count
      remainder == Len(list) % count
      cut(from, to) == { list[i] : i \in from + 1 .. to }
  IN  [c \in 0 .. count - 1 |->
         cut(c * committee_size, (c + 1) * committee_size)
           \cup IF c = 0 THEN cut(Len(list) - remainder, Len(list)) ELSE {}]

build_committee_from_nodes_with_size(list, count) ==
  LET committee_size == Len(list) \div count
      remainder == Len(list) % count
      cut(from, to) == { list[i] : i \in from + 1 .. to }
      extra(c) == cut(Len(list) - remainder + c, Len(list) - remainder + c + 1)
  IN  [c \in 0 .. count - 1 |->
         cut(c * committee_size, (c + 1) * committee_size)
           \cup IF c < remainder THEN extra(c) ELSE {}]

indices == 0 .. number_of_committees - 1
\* Equal ids, which only empty committees have, share the last one's index.
committee_id_to_index(id) ==
  CHOOSE i \in indices : carnot_tree[i] = id /\ \A j \in indices : carnot_tree[j] = id => j <= i
committees_by_member(member) == CHOOSE i \in indices : member \in carnot_tree[i]

\* None, where a committee may be; no committee that is asked for has no members.
None == {}

parent_committee(i) ==
  IF carnot_tree[i] = carnot_tree[0] THEN None
  ELSE carnot_tree[IF i \div 2 > 0 THEN i \div 2 - 1 ELSE 0]
child_committees(i) ==
  LET base == committee_id_to_index(carnot_tree[i]) * 2 IN {base + 1, base + 2} \cap indices
leaf_committees ==
  { carnot_tree[i] : i \in number_of_committees - (number_of_committees + 1) \div 2
                           .. number_of_committees - 1 }
root_committee == carnot_tree[0]
committee_by_member_id(member) == carnot_tree[committees_by_member(member)]

---------------------------------------------------------------------------
(* CarnotOverlay. *)

is_member_of_leaf_committee(member) == member \in UNION leaf_committees

members_of(committees) == UNION { carnot_tree[i] : i \in committees }
two_thirds_and_one(n) == (n * 2) \div 3 + 1

leader_super_majority_threshold ==
  two_thirds_and_one(Cardinality(root_committee) + Cardinality(members_of(child_committees(0))))

\* Faulty variant: leaves wait for votes, too.
super_majority_threshold_leaves(member) ==
  two_thirds_and_one(Cardinality(committee_by_member_id(member)))

super_majority_threshold(member) ==
  IF is_member_of_leaf_committee(member) THEN 0
  ELSE two_thirds_and_one(Cardinality(committee_by_member_id(member)))

next_leader == nodes[entropy.choice]
fisher_yates_shuffle(list, e) == [i \in DOMAIN list |-> list[e.order[i]]]

(***************************************************************************)
(* The constructor shuffles its own copy and builds the tree on the list   *)
(* it was given: the committees are always one shuffle behind.             *)
(***************************************************************************)
Init ==
  \E list \in Lists, count \in Counts :
    \E e \in Entropies(Len(list)), leader \in DOMAIN list :
      /\ nodes = fisher_yates_shuffle(list, e)
      /\ current_leader = list[leader]
      /\ entropy = e
      /\ number_of_committees = count
      /\ carnot_tree = build_committee_from_nodes_with_size(list, count)

advance(e) ==
  /\ nodes' = fisher_yates_shuffle(nodes, e)
  /\ current_leader' = next_leader
  /\ entropy' = e
  /\ carnot_tree' = build_committee_from_nodes_with_size(nodes, number_of_committees)
  /\ UNCHANGED number_of_committees

Next == \E e \in Entropies(Len(nodes)) : advance(e)

Spec == Init /\ [][Next]_vars

---------------------------------------------------------------------------
\* Committees as committee_sizes.py computes them: their number is odd, and none is empty.
sized_as_computed == number_of_committees % 2 = 1 /\ number_of_committees <= Len(nodes)

committees_partition ==
  /\ \A n \in ToSet(nodes) : Cardinality({ i \in indices : n \in carnot_tree[i] }) = 1
  /\ members_of(indices) = ToSet(nodes)
  /\ \A i, j \in indices : Cardinality(carnot_tree[i]) <= Cardinality(carnot_tree[j]) + 1

parent_of_child ==
  \A i \in indices : \A c \in child_committees(i) : parent_committee(c) = carnot_tree[i]

\* Cutting the list leaves no node out and puts none into two committees, however
\* the list's length and the number of committees divide, and the committees are as
\* equal as they can be.  In trees of up to three committees, as the tests build them,
\* the parent of a committee is the one whose child it is.  With more it is not:
\* index 3, the left child of 1, is given 0.
TreeWellFormed ==
  committees_partition /\ (sized_as_computed /\ number_of_committees <= 3 => parent_of_child)

quorums_reachable ==
  \A n \in ToSet(nodes) :
    super_majority_threshold(n) <= Cardinality(members_of(child_committees(committees_by_member(n))))

leader_quorums_intersect ==
  LET voters == Cardinality(members_of({0} \cup child_committees(0)))
  IN  /\ leader_super_majority_threshold <= voters
      /\ 3 * (2 * leader_super_majority_threshold - voters) > voters

\* A node's threshold, taken from its own committee's size, is met by the votes of the
\* committees below it: no node waits for more votes than there can be.  Those a leader
\* waits for exist, too, and two leaders' quorums share a node even if a third of the
\* voters, those of the root and of its children, vote twice.
ThresholdsSound == leader_quorums_intersect /\ (sized_as_computed => quorums_reachable)
===========================================================================
