----------------------------- MODULE Refill -----------------------------
(***************************************************************************)
(* calculate_subnetwork_assignations of da/assignations/refill.py, called  *)
(* session after session: each call starts from the assignations the one   *)
(* before it has returned and from any list of active nodes.  A call takes *)
(* the inactive nodes out, balances (shrink or grow), and then fills the   *)
(* subnetworks from two heaps.  The loops run one iteration a step.        *)
(***************************************************************************)
EXTENDS Integers, FiniteSets, FiniteSetsExt

CONSTANTS
  DeclarationIds,      \* nodes, numbered in the order of their ids
  SubnetworkIds,       \* numbers of the subnetworks
  replication_factor

ASSUME IdsAssumption == DeclarationIds \subseteq Nat /\ IsFiniteSet(DeclarationIds)
ASSUME SubnetworksAssumption ==
  SubnetworkIds \subseteq Nat /\ SubnetworkIds # {} /\ IsFiniteSet(SubnetworkIds)
ASSUME ReplicationAssumption == replication_factor \in Nat \ {0}

VARIABLES
  phase,                 \* the loop the call is in, or "returned"
  new_nodes,             \* the active nodes
  subnetworks,           \* the participants of each subnetwork
  participation,         \* the count each active node is sorted by in its heap
  average_participation  \* computed once per call

vars == << phase, new_nodes, subnetworks, participation, average_participation >>

size(s) == Cardinality(subnetworks[s])
served_by(n, subnets) == { s \in SubnetworkIds : n \in subnets[s] }
assigned(subnets) == UNION { subnets[s] : s \in SubnetworkIds }

(***************************************************************************)
(* The orders of the heaps: subnetworks by size, participants by their     *)
(* participation, and then either by id.                                   *)
(***************************************************************************)
below(s, t) == size(s) < size(t) \/ (size(s) = size(t) /\ s < t)
smallest == CHOOSE s \in SubnetworkIds : \A t \in SubnetworkIds \ {s} : below(s, t)
largest == CHOOSE s \in SubnetworkIds : \A t \in SubnetworkIds \ {s} : below(t, s)

before(n, m) == participation[n] < participation[m] \/ (participation[n] = participation[m] /\ n < m)
\* The participant that a heap of these pops, as a set: empty if there is none.
first(nodes) == { n \in nodes : \A m \in nodes \ {n} : before(n, m) }

Init ==
  /\ phase = "returned"
  /\ new_nodes = {}
  /\ subnetworks = [s \in SubnetworkIds |-> {}]
  /\ participation = [n \in {} |-> 0]
  /\ average_participation = 0

\* Faulty variant: with more nodes than places nobody need be assigned.
average_any(nodes) == (Cardinality(SubnetworkIds) * replication_factor) \div Cardinality(nodes)

average(nodes) == Max({(Cardinality(SubnetworkIds) * replication_factor) \div Cardinality(nodes), 1})

begin(nodes, subnets, loop) ==
  /\ phase = "returned"
  /\ Cardinality(nodes) >= replication_factor
  /\ new_nodes' = nodes
  /\ average_participation' = average(nodes)
  /\ subnetworks' = subnets
  /\ participation' = [n \in nodes |-> Cardinality(served_by(n, subnetworks))]
  /\ phase' = loop

active_assignations(nodes) == [s \in SubnetworkIds |-> subnetworks[s] \cap nodes]
previous_nodes == assigned(subnetworks)

(***************************************************************************)
(* A call on new active nodes, as far as its first loop.  On fewer nodes   *)
(* than the replication factor it raises before it has done anything.      *)
(***************************************************************************)
calculate_subnetwork_assignations(nodes) ==
  begin(nodes, active_assignations(nodes),
        IF Cardinality(previous_nodes) > Cardinality(nodes) THEN "shrink" ELSE "grow")

unbalanced == size(largest) - size(smallest) > 1

move(moved) ==
  subnetworks' = [subnetworks EXCEPT ![smallest] = @ \cup moved, ![largest] = @ \ moved]

\* Faulty variant: those who are in both subnetworks may be moved, too.
balance_subnetworks_shrink_any ==
  /\ phase = "shrink"
  /\ unbalanced
  /\ \E moved \in kSubset((size(largest) - size(smallest)) \div 2, subnetworks[largest]) : move(moved)
  /\ UNCHANGED << phase, new_nodes, participation, average_participation >>

\* Faulty variant: the whole difference moves.
balance_subnetworks_shrink_whole ==
  /\ phase = "shrink"
  /\ unbalanced
  /\ \E moved \in kSubset(size(largest) - size(smallest),
                          subnetworks[largest] \ subnetworks[smallest]) : move(moved)
  /\ UNCHANGED << phase, new_nodes, participation, average_participation >>

\* Half the difference moves from the largest to the smallest, whichever it is.
balance_subnetworks_shrink ==
  /\ phase = "shrink"
  /\ unbalanced
  /\ \E moved \in kSubset((size(largest) - size(smallest)) \div 2,
                          subnetworks[largest] \ subnetworks[smallest]) : move(moved)
  /\ UNCHANGED << phase, new_nodes, participation, average_participation >>

\* Those that grow has still to treat: the counts of the treated ones are at the average.
above_average == { n \in new_nodes : participation[n] > average_participation }

\* A node is taken out of as many of its subnetworks as it serves too many, whichever they are.
balance_subnetworks_grow ==
  /\ phase = "grow"
  /\ \E n \in first(above_average) :
       /\ \E left \in kSubset(participation[n] - average_participation, served_by(n, subnetworks)) :
            subnetworks' = [s \in SubnetworkIds |->
                              IF s \in left THEN subnetworks[s] \ {n} ELSE subnetworks[s]]
       /\ participation' = [participation EXCEPT ![n] = average_participation]
  /\ UNCHANGED << phase, new_nodes, average_participation >>

Balanced ==
  /\ \/ phase = "shrink" /\ ~ unbalanced
     \/ phase = "grow" /\ above_average = {}
  /\ phase' = "fill"
  /\ UNCHANGED << new_nodes, subnetworks, participation, average_participation >>

subnetworks_filled_up_to_replication_factor ==
  \A s \in SubnetworkIds : size(s) >= replication_factor
\* Faulty variant: off by one.
all_nodes_assigned_above == \A n \in new_nodes : participation[n] > average_participation

all_nodes_assigned == \A n \in new_nodes : participation[n] >= average_participation
filled == subnetworks_filled_up_to_replication_factor /\ all_nodes_assigned

\* What heappop_next_for_subnetwork pops, if it does not run out of participants.
heappop_next_for_subnetwork(s) == first(new_nodes \ subnetworks[s])

fill_subnetworks ==
  /\ phase = "fill"
  /\ ~ filled
  /\ \E n \in heappop_next_for_subnetwork(smallest) :
       /\ subnetworks' = [subnetworks EXCEPT ![smallest] = @ \cup {n}]
       /\ participation' = [participation EXCEPT ![n] = @ + 1]
  /\ UNCHANGED << phase, new_nodes, average_participation >>

Return ==
  /\ phase = "fill"
  /\ filled
  /\ phase' = "returned"
  /\ UNCHANGED << new_nodes, subnetworks, participation, average_participation >>

Call == \E nodes \in SUBSET DeclarationIds : calculate_subnetwork_assignations(nodes)
Loops == balance_subnetworks_shrink \/ balance_subnetworks_grow \/ Balanced \/ fill_subnetworks \/ Return
Next == Call \/ Loops

Spec == Init /\ [][Next]_vars
FairSpec == Spec /\ WF_vars(Loops)

-------------------------------------------------------------------------
TypeOK ==
  /\ phase \in {"shrink", "grow", "fill", "returned"}
  /\ new_nodes \subseteq DeclarationIds
  /\ subnetworks \in [SubnetworkIds -> SUBSET new_nodes]
  /\ participation \in [new_nodes -> Nat]
  /\ average_participation \in Nat

\* The count that a node is sorted by in the heap, and that decides when the filling
\* ends, is the number of subnetworks it serves, although shrink moves nodes without
\* touching the counts, grow lowers them, and fill raises them on the heap's entries.
\* The types go with it: subnetworks hold active nodes only, once a call has begun.
CountsAreExact ==
  /\ TypeOK
  /\ \A n \in new_nodes : participation[n] = Cardinality(served_by(n, subnetworks))

\* No loop runs out of what it takes. sample(), which gives fewer if there are fewer, has as many
\* as shrink and grow ask it for, and heappop_next_for_subnetwork, which would pop from an empty
\* list, finds a participant that is not in the subnetwork as long as the filling goes on.
NeverRunsOut ==
  /\ phase = "shrink" /\ unbalanced =>
       Cardinality(subnetworks[largest] \ subnetworks[smallest]) >= (size(largest) - size(smallest)) \div 2
  /\ phase = "grow" =>
       \A n \in above_average :
         Cardinality(served_by(n, subnetworks)) >= participation[n] - average_participation
  /\ phase = "fill" /\ ~ filled => heappop_next_for_subnetwork(smallest) # {}

\* What a call returns is enough, as the tests assert it: every active node is assigned, even
\* when there are more of them than places, and no other; and every subnetwork is filled, although
\* shrink and grow take nodes out of subnetworks. Before the first call all of them are empty.
ActiveNodesServe ==
  phase = "returned" =>
    /\ assigned(subnetworks) = new_nodes
    /\ new_nodes # {} => subnetworks_filled_up_to_replication_factor

\* Every call returns: neither shrinking nor filling goes on for ever.
Returns == []<>(phase = "returned")

-------------------------------------------------------------------------
\* What the tests assert and the code does not ensure: the sizes of two subnetworks differ by at
\* most one. Grow takes nodes out of subnetworks wherever they are, and the filling stops as
\* soon as there are enough, which may be before the smallest has caught up with the largest.
sizes_balanced == \A s, t \in SubnetworkIds : size(s) <= size(t) + 1
SizesBalanced == phase = "returned" => sizes_balanced
=========================================================================
