---------------------------- MODULE DaTheorems ----------------------------
(***************************************************************************)
(* The theorems about data availability: about the assignment of nodes to  *)
(* subnetworks, for any nodes, any subnetworks and any replication factor, *)
(* whatever nodes are active in each call; and about the indexes and the   *)
(* columns that a node stores, whatever the field, the publications, the   *)
(* nodes, the losses and the alterations are.                              *)
(***************************************************************************)
EXTENDS Refill, DaFlow, Lemmas

(* The assignment of nodes to subnetworks.                                 *)

\* A call has enough nodes, and asks of none to serve more subnetworks than there are.
CallOK ==
  /\ phase # "returned" => new_nodes # {} /\ Cardinality(new_nodes) >= replication_factor
  /\ average_participation <= Cardinality(SubnetworkIds)
  /\ new_nodes # {} => average_participation >= 1

\* What the loop condition of fill_subnetworks leaves behind.
ReturnedOK == phase = "returned" /\ new_nodes # {} => filled

\* The inductive invariant.
RefillInv == CountsAreExact /\ CallOK /\ ReturnedOK

---------------------------------------------------------------------------
(* Numbers.                                                                *)

LEMMA Finite ==
  ASSUME TypeOK
  PROVE  /\ IsFiniteSet(new_nodes)
         /\ \A s \in SubnetworkIds : /\ IsFiniteSet(subnetworks[s]) /\ size(s) \in Nat
                                     /\ size(s) <= Cardinality(new_nodes)
         /\ Cardinality(new_nodes) \in Nat
<1>1. IsFiniteSet(new_nodes)
  BY IdsAssumption, FS_Subset DEF TypeOK
<1>2. ASSUME NEW s \in SubnetworkIds
      PROVE  IsFiniteSet(subnetworks[s]) /\ size(s) \in Nat /\ size(s) <= Cardinality(new_nodes)
  <2>1. subnetworks[s] \in SUBSET new_nodes
    BY DEF TypeOK
  <2>2. IsFiniteSet(subnetworks[s]) /\ Cardinality(subnetworks[s]) <= Cardinality(new_nodes)
    BY <1>1, <2>1, FS_Subset
  <2> QED BY <2>2, FS_CardinalityType DEF size
<1> QED BY <1>1, <1>2, FS_CardinalityType

LEMMA Served ==
  ASSUME NEW subnets, NEW n
  PROVE  /\ served_by(n, subnets) \in SUBSET SubnetworkIds
         /\ IsFiniteSet(served_by(n, subnets))
         /\ Cardinality(served_by(n, subnets)) \in Nat
         /\ Cardinality(served_by(n, subnets)) <= Cardinality(SubnetworkIds)
<1>1. served_by(n, subnets) \in SUBSET SubnetworkIds
  BY DEF served_by
<1>2. IsFiniteSet(served_by(n, subnets))
      /\ Cardinality(served_by(n, subnets)) <= Cardinality(SubnetworkIds)
  BY <1>1, SubnetworksAssumption, FS_Subset
<1> QED BY <1>1, <1>2, FS_CardinalityType

LEMMA SubnetworksCount == Cardinality(SubnetworkIds) \in Nat \ {0}
  BY SubnetworksAssumption, FS_CardinalityType, FS_EmptySet

\* At least as many nodes as a subnetwork needs: none has to serve more than all of them.
LEMMA Average ==
  ASSUME NEW nodes \in SUBSET DeclarationIds, Cardinality(nodes) >= replication_factor
  PROVE  average(nodes) \in 1 .. Cardinality(SubnetworkIds) /\ nodes # {}
<1> DEFINE c == Cardinality(SubnetworkIds)
           k == Cardinality(nodes)
           q == (c * replication_factor) \div k
<1>1. IsFiniteSet(nodes) /\ k \in Nat
  BY IdsAssumption, FS_Subset, FS_CardinalityType
<1>2. c \in Nat \ {0} /\ replication_factor \in Nat \ {0} /\ k \in Nat \ {0} /\ k >= replication_factor
  BY <1>1, SubnetworksCount, ReplicationAssumption
<1>3. nodes # {}
  BY <1>2, FS_EmptySet
<1> HIDE DEF c, k
<1>4. q \in Nat /\ q <= c
  <2> DEFINE p == c * replication_factor
  <2>1. p \in Nat /\ p <= c * k
    BY <1>2
  <2> HIDE DEF p
  <2>2. p \div k \in Nat /\ k * (p \div k) <= p
    BY <1>2, <2>1
  <2>3. k * (p \div k) <= k * c
    BY <1>2, <2>1, <2>2
  <2>4. p \div k <= c
    BY <1>2, <2>2, <2>3
  <2> QED BY <2>2, <2>4 DEF p
<1> HIDE DEF q
<1>5. average(nodes) = Max({q, 1})
  BY DEF average, q, c, k
<1>6. Max({q, 1}) \in {q, 1} /\ Max({q, 1}) >= 1
  BY <1>4 DEF Max
<1> QED BY <1>2, <1>3, <1>4, <1>5, <1>6 DEF c

---------------------------------------------------------------------------
(* The heaps.                                                              *)

\* min, max and heappop find a subnetwork, which none is smaller, or larger, than.
LEMMA Extremes ==
  ASSUME TypeOK
  PROVE  /\ smallest \in SubnetworkIds /\ \A t \in SubnetworkIds : size(smallest) <= size(t)
         /\ largest \in SubnetworkIds /\ \A t \in SubnetworkIds : size(t) <= size(largest)
<1> DEFINE sizes == { size(s) : s \in SubnetworkIds }
           m == Cardinality(new_nodes)
           Of(v) == { s \in SubnetworkIds : size(s) = v }
<1>1. sizes \in SUBSET (0 .. m) /\ sizes # {} /\ m \in Nat
  <2>1. m \in Nat /\ \A s \in SubnetworkIds : size(s) \in 0 .. m
    BY Finite
  <2> QED BY <2>1, SubnetworksAssumption
<1>2. \A v : Of(v) \in SUBSET Nat /\ IsFiniteSet(Of(v))
  BY SubnetworksAssumption, FS_Subset
<1>3. \A s, t \in SubnetworkIds : size(s) \in Nat /\ s \in Nat
  BY Finite, SubnetworksAssumption
<1>4. \E s \in SubnetworkIds : \A t \in SubnetworkIds \ {s} : below(s, t)
  <2>1. PICK v \in sizes : \A w \in sizes : v <= w
    <3>1. sizes \in SUBSET Nat
      BY <1>1
    <3> HIDE DEF sizes
    <3> QED BY <1>1, <3>1, LeastExists
  <2>2. Of(v) # {}
    BY <2>1
  <2>3. PICK s \in Of(v) : \A t \in Of(v) : s <= t
    <3> HIDE DEF Of
    <3> QED BY <1>2, <2>2, LeastExists
  <2>4. ASSUME NEW t \in SubnetworkIds \ {s} PROVE below(s, t)
    <3>1. size(s) <= size(t) /\ (size(t) = size(s) => s <= t)
      BY <2>1, <2>3
    <3> QED BY <1>3, <3>1, <2>3 DEF below
  <2> QED BY <2>3, <2>4
<1>5. \E s \in SubnetworkIds : \A t \in SubnetworkIds \ {s} : below(t, s)
  <2>1. PICK v \in sizes : \A w \in sizes : w <= v
    <3> HIDE DEF sizes
    <3> QED BY <1>1, GreatestExists
  <2>2. Of(v) # {}
    BY <2>1
  <2>3. PICK s \in Of(v) : \A t \in Of(v) : t <= s
    <3> HIDE DEF Of
    <3> QED BY <1>2, <2>2, GreatestOfFinite
  <2>4. ASSUME NEW t \in SubnetworkIds \ {s} PROVE below(t, s)
    <3>1. size(t) <= size(s) /\ (size(t) = size(s) => t <= s)
      BY <2>1, <2>3
    <3> QED BY <1>3, <3>1, <2>3 DEF below
  <2> QED BY <2>3, <2>4
<1>6. /\ smallest \in SubnetworkIds /\ \A t \in SubnetworkIds \ {smallest} : below(smallest, t)
      /\ largest \in SubnetworkIds /\ \A t \in SubnetworkIds \ {largest} : below(t, largest)
  BY <1>4, <1>5 DEF smallest, largest
<1> QED BY <1>3, <1>6 DEF below

\* A heap that is not empty has somebody to pop.
LEMMA FirstExists ==
  ASSUME TypeOK, NEW nodes \in SUBSET new_nodes, nodes # {}
  PROVE  first(nodes) # {}
<1> DEFINE counts == { participation[n] : n \in nodes }
           Of(v) == { n \in nodes : participation[n] = v }
<1>1. counts \in SUBSET Nat /\ counts # {} /\ nodes \in SUBSET Nat
  BY IdsAssumption DEF TypeOK
<1>2. PICK v \in counts : \A w \in counts : v <= w
  <2> HIDE DEF counts
  <2> QED BY <1>1, LeastExists
<1>3. Of(v) \in SUBSET Nat /\ Of(v) # {}
  BY <1>1, <1>2
<1>4. PICK n \in Of(v) : \A m \in Of(v) : n <= m
  <2> HIDE DEF Of
  <2> QED BY <1>3, LeastExists
<1>5. ASSUME NEW m \in nodes \ {n} PROVE before(n, m)
  <2>1. participation[n] <= participation[m] /\ (participation[m] = participation[n] => n <= m)
    BY <1>2, <1>4
  <2>2. participation[n] \in Nat /\ participation[m] \in Nat /\ n \in Nat /\ m \in Nat /\ n # m
    BY <1>1, <1>4
  <2> QED BY <2>1, <2>2 DEF before
<1>6. n \in first(nodes)
  BY <1>4, <1>5 DEF first
<1> QED BY <1>6

---------------------------------------------------------------------------
(* Each step keeps the invariant.                                          *)

LEMMA InitInv == Init => RefillInv
<1> SUFFICES ASSUME Init PROVE RefillInv
  OBVIOUS
<1>1. CountsAreExact
  BY DEF Init, CountsAreExact, TypeOK
<1> QED BY <1>1, SubnetworksCount DEF Init, RefillInv, CallOK, ReturnedOK

LEMMA CallStep ==
  ASSUME RefillInv, NEW nodes \in SUBSET DeclarationIds, calculate_subnetwork_assignations(nodes)
  PROVE  RefillInv'
<1>1. /\ Cardinality(nodes) >= replication_factor
      /\ new_nodes' = nodes /\ average_participation' = average(nodes)
      /\ subnetworks' = [s \in SubnetworkIds |-> subnetworks[s] \cap nodes]
      /\ participation' = [n \in nodes |-> Cardinality(served_by(n, subnetworks))]
      /\ phase' \in {"shrink", "grow"}
  BY DEF calculate_subnetwork_assignations, begin, active_assignations
<1>2. average(nodes) \in 1 .. Cardinality(SubnetworkIds) /\ nodes # {} /\ Cardinality(SubnetworkIds) \in Nat
  BY <1>1, Average, SubnetworksCount
<1>3. TypeOK'
  BY <1>1, <1>2, Served DEF TypeOK
<1>4. ASSUME NEW n \in nodes PROVE served_by(n, subnetworks') = served_by(n, subnetworks)
  BY <1>1 DEF served_by
<1>5. CountsAreExact'
  BY <1>1, <1>3, <1>4 DEF CountsAreExact
<1> QED BY <1>1, <1>2, <1>5 DEF RefillInv, CallOK, ReturnedOK

LEMMA ShrinkStep ==
  ASSUME RefillInv, balance_subnetworks_shrink
  PROVE  RefillInv'
<1> DEFINE low == smallest
           high == largest
<1>1. low \in SubnetworkIds /\ high \in SubnetworkIds /\ low # high
  <2>1. smallest \in SubnetworkIds /\ largest \in SubnetworkIds
    BY Extremes DEF RefillInv, CountsAreExact
  <2>2. size(smallest) \in Nat /\ size(largest) - size(smallest) > 1
    BY <2>1, Finite DEF RefillInv, CountsAreExact, balance_subnetworks_shrink, unbalanced
  <2> QED BY <2>1, <2>2
<1>2. PICK moved \in SUBSET (subnetworks[high] \ subnetworks[low]) :
        subnetworks' = [subnetworks EXCEPT ![low] = @ \cup moved, ![high] = @ \ moved]
  BY DEF balance_subnetworks_shrink, kSubset, move
<1> HIDE DEF low, high
<1>3. UNCHANGED << phase, new_nodes, participation, average_participation >> /\ phase = "shrink"
  BY DEF balance_subnetworks_shrink
<1>4. TypeOK /\ \A n \in new_nodes : participation[n] = Cardinality(served_by(n, subnetworks))
  BY DEF RefillInv, CountsAreExact
<1>5. /\ DOMAIN subnetworks' = SubnetworkIds
      /\ subnetworks'[low] = subnetworks[low] \cup moved
      /\ subnetworks'[high] = subnetworks[high] \ moved
      /\ \A s \in SubnetworkIds \ {low, high} : subnetworks'[s] = subnetworks[s]
  BY <1>1, <1>2, <1>4 DEF TypeOK
<1>6. TypeOK'
  <2>1. \A s \in SubnetworkIds : subnetworks[s] \subseteq new_nodes
    BY <1>4 DEF TypeOK
  <2>2. \A s \in SubnetworkIds : subnetworks'[s] \subseteq new_nodes
    BY <1>1, <1>2, <1>5, <2>1
  <2>3. subnetworks' \in [SubnetworkIds -> SUBSET new_nodes]
    BY <1>2, <1>4, <2>2 DEF TypeOK
  <2> QED BY <1>3, <1>4, <2>3 DEF TypeOK
<1>7. ASSUME NEW n \in new_nodes
      PROVE  Cardinality(served_by(n, subnetworks')) = Cardinality(served_by(n, subnetworks))
  <2> DEFINE old == served_by(n, subnetworks)
  <2>1. IsFiniteSet(old) /\ Cardinality(old) \in Nat
    BY Served
  <2>2. CASE n \in moved
    <3>1. n \in subnetworks[high] /\ n \notin subnetworks[low]
      BY <1>2, <2>2
    <3>2. served_by(n, subnetworks') = (old \cup {low}) \ {high}
      BY <1>1, <1>5, <2>2, <3>1 DEF served_by
    <3>3. low \notin old /\ high \in old
      BY <1>1, <3>1 DEF served_by
    <3> HIDE DEF old
    <3>4. IsFiniteSet(old \cup {low}) /\ Cardinality(old \cup {low}) = Cardinality(old) + 1
      BY <2>1, <3>3, FS_AddElement
    <3>5. Cardinality((old \cup {low}) \ {high}) = Cardinality(old \cup {low}) - 1
      BY <3>3, <3>4, FS_RemoveElement
    <3> QED BY <2>1, <3>2, <3>4, <3>5 DEF old
  <2>3. CASE n \notin moved
    <3>1. served_by(n, subnetworks') = old
      BY <1>1, <1>5, <2>3 DEF served_by
    <3> QED BY <3>1
  <2> QED BY <2>2, <2>3
<1>8. CountsAreExact'
  BY <1>3, <1>4, <1>6, <1>7 DEF CountsAreExact
<1> QED BY <1>3, <1>8 DEF RefillInv, CallOK, ReturnedOK

LEMMA GrowStep ==
  ASSUME RefillInv, balance_subnetworks_grow
  PROVE  RefillInv'
<1>1. TypeOK /\ \A n \in new_nodes : participation[n] = Cardinality(served_by(n, subnetworks))
  BY DEF RefillInv, CountsAreExact
<1>0. PICK n \in above_average :
        \E left \in SUBSET served_by(n, subnetworks) :
          /\ Cardinality(left) = participation[n] - average_participation
          /\ subnetworks' = [s \in SubnetworkIds |-> IF s \in left THEN subnetworks[s] \ {n} ELSE subnetworks[s]]
          /\ participation' = [participation EXCEPT ![n] = average_participation]
  BY DEF balance_subnetworks_grow, first, kSubset
<1>2. PICK left \in SUBSET served_by(n, subnetworks) :
        /\ Cardinality(left) = participation[n] - average_participation
        /\ subnetworks' = [s \in SubnetworkIds |-> IF s \in left THEN subnetworks[s] \ {n} ELSE subnetworks[s]]
        /\ participation' = [participation EXCEPT ![n] = average_participation]
  BY <1>0
<1>3. n \in new_nodes
  BY DEF above_average
<1>4. UNCHANGED << phase, new_nodes, average_participation >> /\ phase = "grow"
  BY DEF balance_subnetworks_grow
<1>5. TypeOK'
  BY <1>1, <1>2, <1>3, <1>4 DEF TypeOK
<1>6. ASSUME NEW m \in new_nodes
      PROVE  participation'[m] = Cardinality(served_by(m, subnetworks'))
  <2>1. CASE m = n
    <3> DEFINE old == served_by(n, subnetworks)
    <3>1. served_by(n, subnetworks') = old \ left
      BY <1>2 DEF served_by
    <3>2. IsFiniteSet(old) /\ participation[n] = Cardinality(old) /\ Cardinality(old) \in Nat
      BY <1>1, <1>3, Served
    <3>3. old \cap left = left
      BY <1>2
    <3> HIDE DEF old
    <3>4. Cardinality(old \ left) = Cardinality(old) - Cardinality(old \cap left)
      BY <3>2, FS_Difference
    <3>5. average_participation \in Nat /\ participation'[n] = average_participation
      BY <1>1, <1>2, <1>3 DEF TypeOK
    <3>6. Cardinality(left) = Cardinality(old) - average_participation
      <4>1. Cardinality(left) = participation[n] - average_participation
        BY <1>2
      <4> QED BY <3>2, <4>1
    <3>7. Cardinality(old \ left) = Cardinality(old) - Cardinality(left)
      BY <3>3, <3>4
    <3>8. Cardinality(old \ left) = average_participation
      BY <3>2, <3>5, <3>6, <3>7
    <3> QED BY <2>1, <3>1, <3>5, <3>8
  <2>2. CASE m # n
    <3>1. served_by(m, subnetworks') = served_by(m, subnetworks)
      BY <1>2, <2>2 DEF served_by
    <3>2. participation'[m] = participation[m]
      BY <1>1, <1>2, <2>2 DEF TypeOK
    <3> QED BY <1>1, <3>1, <3>2
  <2> QED BY <2>1, <2>2
<1>7. CountsAreExact'
  BY <1>4, <1>5, <1>6 DEF CountsAreExact
<1> QED BY <1>4, <1>7 DEF RefillInv, CallOK, ReturnedOK

LEMMA FillStep ==
  ASSUME RefillInv, fill_subnetworks
  PROVE  RefillInv'
<1> DEFINE low == smallest
<1>1. TypeOK /\ \A n \in new_nodes : participation[n] = Cardinality(served_by(n, subnetworks))
  BY DEF RefillInv, CountsAreExact
<1>2. low \in SubnetworkIds
  BY <1>1, Extremes
<1>3. PICK n \in new_nodes \ subnetworks[low] :
        /\ subnetworks' = [subnetworks EXCEPT ![low] = @ \cup {n}]
        /\ participation' = [participation EXCEPT ![n] = @ + 1]
  BY DEF fill_subnetworks, heappop_next_for_subnetwork, first
<1> HIDE DEF low
<1>4. UNCHANGED << phase, new_nodes, average_participation >> /\ phase = "fill"
  BY DEF fill_subnetworks
<1>5. TypeOK'
  BY <1>1, <1>2, <1>3, <1>4 DEF TypeOK
<1>6. ASSUME NEW m \in new_nodes
      PROVE  participation'[m] = Cardinality(served_by(m, subnetworks'))
  <2>1. CASE m = n
    <3> DEFINE old == served_by(n, subnetworks)
    <3>1. served_by(n, subnetworks') = old \cup {low}
      BY <1>1, <1>2, <1>3 DEF served_by, TypeOK
    <3>2. IsFiniteSet(old) /\ low \notin old
      BY <1>3, Served DEF served_by
    <3> HIDE DEF old
    <3>3. Cardinality(old \cup {low}) = Cardinality(old) + 1
      BY <3>2, FS_AddElement
    <3>4. participation'[n] = participation[n] + 1
      BY <1>1, <1>3 DEF TypeOK
    <3> QED BY <1>1, <2>1, <3>1, <3>3, <3>4 DEF old
  <2>2. CASE m # n
    <3>1. served_by(m, subnetworks') = served_by(m, subnetworks)
      BY <1>1, <1>2, <1>3, <2>2 DEF served_by, TypeOK
    <3>2. participation'[m] = participation[m]
      BY <1>1, <1>3, <2>2 DEF TypeOK
    <3> QED BY <1>1, <3>1, <3>2
  <2> QED BY <2>1, <2>2
<1>7. CountsAreExact'
  BY <1>4, <1>5, <1>6 DEF CountsAreExact
<1> QED BY <1>4, <1>7 DEF RefillInv, CallOK, ReturnedOK

\* A step that leaves the assignation alone: a loop ends, or nothing happens.
LEMMA QuietStep ==
  ASSUME RefillInv, UNCHANGED << new_nodes, subnetworks, participation, average_participation >>,
         \/ phase = "shrink" /\ phase' = "fill"
         \/ phase = "grow" /\ phase' = "fill"
         \/ phase = "fill" /\ phase' = "returned" /\ filled
         \/ phase' = phase
  PROVE  RefillInv'
<1>1. CountsAreExact'
  BY DEF RefillInv, CountsAreExact, TypeOK, served_by
<1>2. filled' = filled
  BY DEF filled, subnetworks_filled_up_to_replication_factor, all_nodes_assigned, size
<1> QED BY <1>1, <1>2 DEF RefillInv, CallOK, ReturnedOK

LEMMA StepInv == RefillInv /\ [Next]_vars => RefillInv'
<1> SUFFICES ASSUME RefillInv, [Next]_vars PROVE RefillInv'
  OBVIOUS
<1>1. CASE Call
  BY <1>1, CallStep DEF Call
<1>2. CASE Balanced \/ Return \/ UNCHANGED vars
  BY <1>2, QuietStep DEF Balanced, Return, vars
<1> QED BY <1>1, <1>2, ShrinkStep, GrowStep, FillStep DEF Next, Loops

(***************************************************************************)
(* The inductive invariant holds through every call, on whatever active    *)
(* nodes.                                                                  *)
(***************************************************************************)
THEOREM RefillInvariant == Spec => []RefillInv
  BY InitInv, StepInv, PTL DEF Spec

(***************************************************************************)
(* The types, and the counts the heap sorts by: each is the number of      *)
(* subnetworks that the node serves, although shrink moves nodes without   *)
(* touching the counts.                                                    *)
(***************************************************************************)
THEOREM CountsAreExactAlways == Spec => []CountsAreExact
<1>1. RefillInv => CountsAreExact
  BY DEF RefillInv
<1> QED BY <1>1, RefillInvariant, PTL

\* Not to have anybody to pop, the filling would have to go on when it is over:
\* if the smallest subnetwork had all the active nodes, everything would be filled.
LEMMA FullIsFilled ==
  ASSUME RefillInv, phase = "fill", new_nodes \subseteq subnetworks[smallest]
  PROVE  filled
<1>1. TypeOK /\ \A n \in new_nodes : participation[n] = Cardinality(served_by(n, subnetworks))
  BY DEF RefillInv, CountsAreExact
<1>2. IsFiniteSet(new_nodes) /\ smallest \in SubnetworkIds /\ Cardinality(new_nodes) \in Nat
  BY <1>1, Finite, Extremes
<1>3. subnetworks[smallest] = new_nodes
  BY <1>1, <1>2 DEF TypeOK
<1>4. ASSUME NEW s \in SubnetworkIds PROVE subnetworks[s] = new_nodes
  <2>1. subnetworks[s] \in SUBSET new_nodes /\ Cardinality(subnetworks[s]) >= Cardinality(new_nodes)
    BY <1>1, <1>3, Extremes DEF TypeOK, size
  <2>2. size(s) \in Nat /\ size(s) <= Cardinality(new_nodes)
    BY <1>1, Finite
  <2>3. Cardinality(subnetworks[s]) = Cardinality(new_nodes)
    BY <1>2, <2>1, <2>2 DEF size
  <2> QED BY <1>2, <2>1, <2>3, FS_Subset
<1>5. subnetworks_filled_up_to_replication_factor
  BY <1>4 DEF subnetworks_filled_up_to_replication_factor, size, RefillInv, CallOK
<1>6. all_nodes_assigned
  <2> SUFFICES ASSUME NEW n \in new_nodes PROVE participation[n] >= average_participation
    BY DEF all_nodes_assigned
  <2>1. served_by(n, subnetworks) = SubnetworkIds
    BY <1>4 DEF served_by
  <2>2. participation[n] = Cardinality(SubnetworkIds)
    BY <1>1, <2>1
  <2> QED BY <1>1, <2>2, SubnetworksCount DEF RefillInv, CallOK, TypeOK
<1> QED BY <1>5, <1>6 DEF filled

(***************************************************************************)
(* sample() finds as many as balance_subnetworks_shrink and _grow ask it   *)
(* for, and heappop_next_for_subnetwork a participant: if the smallest     *)
(* subnetwork had all active nodes, so would the others, and the filling   *)
(* would have ended.                                                       *)
(***************************************************************************)
THEOREM NeverRunsOutAlways == Spec => []NeverRunsOut
<1>1. RefillInv => NeverRunsOut
  <2> SUFFICES ASSUME RefillInv PROVE NeverRunsOut
    OBVIOUS
  <2>1. /\ TypeOK /\ \A n \in new_nodes : participation[n] = Cardinality(served_by(n, subnetworks))
        /\ smallest \in SubnetworkIds /\ largest \in SubnetworkIds
    BY Extremes DEF RefillInv, CountsAreExact
  <2>2. ASSUME unbalanced
        PROVE  Cardinality(subnetworks[largest] \ subnetworks[smallest])
                 >= (size(largest) - size(smallest)) \div 2
    <3> DEFINE high == subnetworks[largest]
               low == subnetworks[smallest]
    <3>1. IsFiniteSet(high) /\ IsFiniteSet(low) /\ size(largest) \in Nat /\ size(smallest) \in Nat
      BY <2>1, Finite
    <3>2. size(largest) = Cardinality(high) /\ size(smallest) = Cardinality(low)
      BY DEF size
    <3> HIDE DEF high, low
    <3>3. Cardinality(high \ low) = Cardinality(high) - Cardinality(high \cap low)
      BY <3>1, FS_Difference
    <3>4. Cardinality(high \cap low) <= Cardinality(low) /\ Cardinality(high \cap low) \in Nat
      BY <3>1, FS_Intersection, FS_CardinalityType
    <3>5. size(largest) - size(smallest) > 1
      BY <2>2 DEF unbalanced
    <3>6. Cardinality(high \ low) >= (size(largest) - size(smallest)) \div 2
      BY <3>1, <3>2, <3>3, <3>4, <3>5
    <3> QED BY <3>6 DEF high, low
  <2>3. ASSUME NEW n \in above_average
        PROVE  Cardinality(served_by(n, subnetworks)) >= participation[n] - average_participation
    <3>1. n \in new_nodes /\ participation[n] \in Nat /\ average_participation \in Nat
      BY <2>1 DEF above_average, TypeOK
    <3>2. participation[n] = Cardinality(served_by(n, subnetworks))
      BY <2>1, <3>1
    <3> QED BY <3>1, <3>2
  <2>4. ASSUME phase = "fill", ~ filled
        PROVE  heappop_next_for_subnetwork(smallest) # {}
    <3>1. new_nodes \ subnetworks[smallest] # {}
      BY <2>4, FullIsFilled
    <3> QED BY <2>1, <3>1, FirstExists DEF heappop_next_for_subnetwork
  <2> QED BY <2>2, <2>3, <2>4 DEF NeverRunsOut
<1> QED BY <1>1, RefillInvariant, PTL

(***************************************************************************)
(* What a call returns has every active node and no other, and fills every *)
(* subnetwork up to the replication factor.                                *)
(***************************************************************************)
THEOREM ActiveNodesServeAlways == Spec => []ActiveNodesServe
<1>1. RefillInv => ActiveNodesServe
  <2> SUFFICES ASSUME RefillInv, phase = "returned" PROVE
        /\ assigned(subnetworks) = new_nodes
        /\ new_nodes # {} => subnetworks_filled_up_to_replication_factor
    BY DEF ActiveNodesServe
  <2>1. TypeOK /\ \A n \in new_nodes : participation[n] = Cardinality(served_by(n, subnetworks))
    BY DEF RefillInv, CountsAreExact
  <2>2. assigned(subnetworks) \subseteq new_nodes
    BY <2>1 DEF assigned, TypeOK
  <2>3. ASSUME NEW n \in new_nodes PROVE n \in assigned(subnetworks)
    <3>1. filled /\ average_participation >= 1 /\ average_participation \in Nat
      BY <2>1 DEF RefillInv, ReturnedOK, CallOK, TypeOK
    <3>2. participation[n] >= 1 /\ participation[n] \in Nat
      BY <2>1, <3>1 DEF filled, all_nodes_assigned, TypeOK
    <3>3. served_by(n, subnetworks) # {}
      BY <2>1, <3>2, FS_EmptySet
    <3> QED BY <3>3 DEF served_by, assigned
  <2> QED BY <2>2, <2>3 DEF RefillInv, ReturnedOK, filled
<1> QED BY <1>1, RefillInvariant, PTL

\* From the moment the shrinking ends, and whenever they are while the filling goes on,
\* sizes are balanced and stay so until the call returns.
SizesStayBalanced ==
  [][(phase = "shrink" /\ phase' = "fill") \/ (phase = "fill" /\ sizes_balanced) => sizes_balanced']_vars

(***************************************************************************)
(* Only grow unbalances the sizes: shrink hands balanced ones to           *)
(* fill_subnetworks, which adds to a smallest subnetwork (what the run on  *)
(* SizesBalanced shows needs a call that grows).                           *)
(***************************************************************************)
THEOREM SizesStayBalancedAlways == Spec => SizesStayBalanced
<1> DEFINE Stay == (phase = "shrink" /\ phase' = "fill") \/ (phase = "fill" /\ sizes_balanced) => sizes_balanced'
<1>1. RefillInv /\ [Next]_vars => [Stay]_vars
  <2> SUFFICES ASSUME RefillInv, Next,
                      (phase = "shrink" /\ phase' = "fill") \/ (phase = "fill" /\ sizes_balanced)
               PROVE  sizes_balanced'
    OBVIOUS
  <2>1. TypeOK /\ \A s \in SubnetworkIds : size(s) \in Nat
    BY Finite DEF RefillInv, CountsAreExact
  <2>2. /\ smallest \in SubnetworkIds /\ largest \in SubnetworkIds
        /\ \A s \in SubnetworkIds : size(smallest) <= size(s) /\ size(s) <= size(largest)
    BY <2>1, Extremes
  <2>3. CASE fill_subnetworks
    <3>1. sizes_balanced
      BY <2>3 DEF fill_subnetworks
    <3>2. PICK low \in SubnetworkIds : low = smallest
      BY <2>2
    <3>3. PICK n \in new_nodes \ subnetworks[low] : subnetworks' = [subnetworks EXCEPT ![low] = @ \cup {n}]
      BY <2>3, <3>2 DEF fill_subnetworks, heappop_next_for_subnetwork, first
    <3>4. size(low)' = size(low) + 1
      <4>1. IsFiniteSet(subnetworks[low])
        BY <2>1, Finite
      <4>2. subnetworks'[low] = subnetworks[low] \cup {n}
        BY <2>1, <3>3 DEF TypeOK
      <4>3. Cardinality(subnetworks[low] \cup {n}) = Cardinality(subnetworks[low]) + 1
        BY <4>1, FS_AddElement
      <4> QED BY <4>2, <4>3 DEF size
    <3>5. \A s \in SubnetworkIds \ {low} : size(s)' = size(s)
      BY <2>1, <3>3 DEF size, TypeOK
    <3>6. \A s, t \in SubnetworkIds : size(s)' <= size(t)' + 1
      BY <2>1, <2>2, <3>1, <3>2, <3>4, <3>5 DEF sizes_balanced
    <3> QED BY <3>6 DEF sizes_balanced
  <2>4. CASE Balanced \/ Return
    <3>1. sizes_balanced
      BY <2>1, <2>2, <2>4 DEF Balanced, Return, unbalanced, sizes_balanced
    <3>2. subnetworks' = subnetworks
      BY <2>4 DEF Balanced, Return
    <3> QED BY <3>1, <3>2 DEF sizes_balanced, size
  <2>5. CASE Call \/ balance_subnetworks_shrink \/ balance_subnetworks_grow
    BY <2>5 DEF Call, calculate_subnetwork_assignations, begin, balance_subnetworks_shrink, balance_subnetworks_grow
  <2> QED BY <2>3, <2>4, <2>5 DEF Next, Loops
<1> QED BY <1>1, RefillInvariant, PTL DEF Spec, SizesStayBalanced

---------------------------------------------------------------------------
(* The indexes of the nodes.                                               *)

\* The blob ids that dispersals have.
BlobIds == { build_blob_id(commitments_of(row_polynomials(p))) : p \in Publications }
Certificates == [blob_id : BlobIds, key : Keys]

\* The part of the state that the argument reads is well-typed.
IndexTypes ==
  /\ \A b \in published : b.blob_id \in BlobIds
  /\ chain \in Seq(Certificates)
  /\ seen \in [Nodes -> Nat]
  /\ \A n \in Nodes : seen[n] =< Len(chain)
  /\ DOMAIN app_id_store = Nodes

index_vars == << app_id_store, chain, seen >>

LEMMA InitIndexes == FlowInit => IndexTypes /\ IndexesFollowTheChain
<1> SUFFICES ASSUME FlowInit PROVE IndexTypes /\ IndexesFollowTheChain
  OBVIOUS
<1>1. IndexTypes
  BY DEF FlowInit, IndexTypes
<1>2. IndexesFollowTheChain
  BY DEF FlowInit, IndexesFollowTheChain, certificates
<1> QED BY <1>1, <1>2

\* A step that leaves the chain and what is read of it alone.
LEMMA IndexesUntouched ==
  ASSUME IndexesFollowTheChain, UNCHANGED index_vars
  PROVE  IndexesFollowTheChain'
BY DEF IndexesFollowTheChain, certificates, index_vars

LEMMA StepTypes == IndexTypes /\ [FlowNext]_flow_vars => IndexTypes'
<1> SUFFICES ASSUME IndexTypes, [FlowNext]_flow_vars PROVE IndexTypes'
  OBVIOUS
<1>1. ASSUME NEW p \in Publications, disperse(p) PROVE IndexTypes'
  <2>1. PICK shares \in {shares_of(p)} :
          published' = published \cup
            {[pub |-> p, shares |-> shares,
              blob_id |-> build_blob_id(commitments_of(row_polynomials(p)))]}
    BY <1>1, Zenon DEF disperse
  <2>2. build_blob_id(commitments_of(row_polynomials(p))) \in BlobIds
    BY Zenon DEF BlobIds
  <2>3. UNCHANGED index_vars
    BY <1>1, Zenon DEF disperse, index_vars
  <2> QED BY <2>1, <2>2, <2>3 DEF IndexTypes, index_vars
<1>2. CASE send_and_await_response
  BY <1>2 DEF send_and_await_response, IndexTypes
<1>3. CASE certify
  <2>1. PICK b \in published, key \in Keys :
          chain' = Append(chain, [blob_id |-> b.blob_id, key |-> key])
    BY <1>3 DEF certify
  <2>2. [blob_id |-> b.blob_id, key |-> key] \in Certificates
    BY <2>1 DEF IndexTypes, Certificates
  <2> QED BY <1>3, <2>1, <2>2 DEF certify, IndexTypes
<1>4. ASSUME NEW n \in Nodes, receive_metadata(n) PROVE IndexTypes'
  BY <1>4 DEF receive_metadata, add, IndexTypes
<1>5. CASE UNCHANGED flow_vars
  BY <1>5 DEF flow_vars, IndexTypes
<1> QED BY <1>1, <1>2, <1>3, <1>4, <1>5 DEF FlowNext

\* A longer chain has the certificates that were read where they were.
LEMMA CertifyKeeps ==
  ASSUME IndexTypes, IndexesFollowTheChain, certify
  PROVE  IndexesFollowTheChain'
<1>1. PICK b \in published, key \in Keys :
        chain' = Append(chain, [blob_id |-> b.blob_id, key |-> key])
  BY DEF certify
<1>2. \A n \in Nodes : \A i \in 1 .. seen[n] : chain'[i] = chain[i]
  BY <1>1 DEF IndexTypes
<1>3. seen' = seen /\ app_id_store' = app_id_store
  BY DEF certify
<1>4. \A n \in Nodes, k \in Keys : certificates(n, k)' = certificates(n, k)
  BY <1>2, <1>3 DEF certificates
<1>5. \A n \in Nodes, k \in Keys : \A i \in certificates(n, k) : chain'[i] = chain[i]
  BY <1>2 DEF certificates
<1> QED BY <1>3, <1>4, <1>5 DEF IndexesFollowTheChain

\* A node that reads a certificate writes the index if and only if it is the first for it.
LEMMA ReceiveKeeps ==
  ASSUME IndexTypes, IndexesFollowTheChain, NEW n \in Nodes, receive_metadata(n)
  PROVE  IndexesFollowTheChain'
<1> DEFINE next == seen[n] + 1
           cert == chain[next]
<1>1. /\ seen[n] \in Nat /\ next \in 1 .. Len(chain)
      /\ chain' = chain /\ seen' = [seen EXCEPT ![n] = next]
      /\ add(n, cert.blob_id, cert.key)
  BY DEF receive_metadata, IndexTypes
<1>2. seen'[n] = next /\ DOMAIN app_id_store = Nodes
      /\ \A m \in Nodes \ {n} : seen'[m] = seen[m]
  BY <1>1 DEF IndexTypes
<1>3. \A m \in Nodes \ {n}, key \in Keys :
        certificates(m, key)' = certificates(m, key) /\ app_id_store'[m] = app_id_store[m]
  BY <1>1, <1>2 DEF certificates, add
<1>4. \A key \in Keys : certificates(n, key)' =
        certificates(n, key) \cup IF cert.key = key THEN {next} ELSE {}
  BY <1>1, <1>2 DEF certificates
<1>5. \A key \in Keys : \A i \in certificates(n, key) : i \in Nat /\ i < next
  BY <1>1 DEF certificates
<1> HIDE DEF next, cert
<1> SUFFICES ASSUME NEW m \in Nodes, NEW key \in Keys
    PROVE  /\ key \in DOMAIN app_id_store'[m] <=> certificates(m, key)' # {}
           /\ \A i \in certificates(m, key)' :
                (\A j \in certificates(m, key)' : i =< j) => app_id_store'[m][key] = chain'[i].blob_id
  BY DEF IndexesFollowTheChain
<1>6. CASE m # n
  BY <1>1, <1>3, <1>6 DEF IndexesFollowTheChain
<1>7. CASE m = n /\ cert.key # key
  <2>1. certificates(n, key)' = certificates(n, key)
    BY <1>4, <1>7
  <2>2. /\ key \in DOMAIN app_id_store'[n] <=> key \in DOMAIN app_id_store[n]
        /\ key \in DOMAIN app_id_store[n] => app_id_store'[n][key] = app_id_store[n][key]
    BY <1>1, <1>2, <1>7 DEF add, put
  <2> QED BY <1>1, <1>7, <2>1, <2>2 DEF IndexesFollowTheChain
<1>8. CASE m = n /\ cert.key = key /\ key \in DOMAIN app_id_store[n]
  <2>1. app_id_store' = app_id_store
    BY <1>1, <1>8 DEF add
  <2>2. PICK one \in certificates(n, key) : TRUE
    BY <1>8 DEF IndexesFollowTheChain
  <2>3. one < next /\ one \in Nat /\ next \in Nat
    BY <1>1, <1>5 DEF next
  <2>4. \A i \in certificates(n, key)' :
          (\A j \in certificates(n, key)' : i =< j) =>
            i \in certificates(n, key) /\ \A j \in certificates(n, key) : i =< j
    BY <1>4, <1>8, <2>2, <2>3
  <2> QED BY <1>1, <1>4, <1>8, <2>1, <2>4 DEF IndexesFollowTheChain
<1>9. CASE m = n /\ cert.key = key /\ key \notin DOMAIN app_id_store[n]
  <2>1. certificates(n, key)' = {next}
    BY <1>4, <1>9 DEF IndexesFollowTheChain
  <2>2. key \in DOMAIN app_id_store'[n] /\ app_id_store'[n][key] = cert.blob_id
    BY <1>1, <1>2, <1>9 DEF add, put
  <2> QED BY <1>1, <1>9, <2>1, <2>2 DEF cert
<1> QED BY <1>6, <1>7, <1>8, <1>9

LEMMA StepIndexes ==
  IndexTypes /\ IndexesFollowTheChain /\ [FlowNext]_flow_vars => IndexesFollowTheChain'
<1> SUFFICES ASSUME IndexTypes, IndexesFollowTheChain, [FlowNext]_flow_vars
             PROVE  IndexesFollowTheChain'
  OBVIOUS
<1>1. ASSUME NEW p \in Publications, disperse(p) PROVE UNCHANGED index_vars
  BY <1>1 DEF disperse, index_vars
<1>2. send_and_await_response => UNCHANGED index_vars
  BY DEF send_and_await_response, index_vars
<1>3. UNCHANGED flow_vars => UNCHANGED index_vars
  BY DEF flow_vars, index_vars
<1> QED BY <1>1, <1>2, <1>3, IndexesUntouched, CertifyKeeps, ReceiveKeeps DEF FlowNext

LEMMA IndexesInvariant == FlowSpec => [](IndexTypes /\ IndexesFollowTheChain)
<1>1. FlowInit => IndexTypes /\ IndexesFollowTheChain
  BY InitIndexes
<1>2. IndexTypes /\ IndexesFollowTheChain /\ [FlowNext]_flow_vars
        => (IndexTypes /\ IndexesFollowTheChain)'
  BY StepTypes, StepIndexes
<1> QED BY <1>1, <1>2, PTL DEF FlowSpec

\* However far each node has read and whatever was certified twice: the index is written
\* where a certificate for it was seen, and for the blob that the chain names first.
THEOREM IndexesFollowTheChainAlways == FlowSpec => []IndexesFollowTheChain
<1> QED BY IndexesInvariant, PTL

---------------------------------------------------------------------------
(* Numbers that are the same element of the field.                         *)

\* Numbers that are the same element of the field.
Same(a, b) == \E q \in Int : a - b = q * BLS_MODULUS

\* Every integer is the same as one element of the field, which `mod' names.
LEMMA ModIsSame ==
  ASSUME NEW a \in Int
  PROVE  mod(a) \in Field /\ mod(a) \in Int /\ Same(a, mod(a)) /\ Same(mod(a), a)
<1> PICK m \in Nat \ {0} : m = BLS_MODULUS
  BY FieldAssumption
<1>1. a % m \in 0 .. m - 1 /\ a = m * (a \div m) + (a % m) /\ a \div m \in Int
  OBVIOUS
<1>2. PICK q \in Int, r \in 0 .. m - 1 : r = a % m /\ a = m * q + r
  BY <1>1
<1>3. a - r = q * m /\ r - a = (- q) * m /\ - q \in Int
  BY <1>2
<1>4. mod(a) = r /\ r \in Field /\ r \in Int
  BY <1>2 DEF mod, Field
<1>5. Same(a, r) /\ Same(r, a)
  BY <1>2, <1>3, <1>4 DEF Same
<1> QED BY <1>4, <1>5, Zenon

\* Elements of the field are the same only if they are equal.
LEMMA SameInField ==
  ASSUME NEW a \in Field, NEW b \in Field, Same(a, b)
  PROVE  a = b
<1> PICK m \in Nat \ {0} : m = BLS_MODULUS
  BY FieldAssumption
<1>1. PICK q \in Int : a - b = q * m
  BY DEF Same
<1>2. a \in 0 .. m - 1 /\ b \in 0 .. m - 1
  BY DEF Field
<1>3. CASE q >= 1
  <2>1. q * m >= m
    BY <1>3
  <2> QED BY <1>1, <1>2, <2>1
<1>4. CASE q =< - 1
  <2>1. q * m =< - m
    BY <1>4
  <2> QED BY <1>1, <1>2, <2>1
<1>5. CASE q = 0
  BY <1>1, <1>2, <1>5
<1> QED BY <1>3, <1>4, <1>5

LEMMA SameSymmetric ==
  ASSUME NEW a \in Int, NEW b \in Int, Same(a, b)
  PROVE  Same(b, a)
<1>1. PICK q \in Int : a - b = q * BLS_MODULUS
  BY DEF Same
<1>2. b - a = (- q) * BLS_MODULUS /\ - q \in Int
  BY <1>1, FieldAssumption
<1> QED BY <1>2 DEF Same

LEMMA SameTransitive ==
  ASSUME NEW a \in Int, NEW b \in Int, NEW c \in Int, Same(a, b), Same(b, c)
  PROVE  Same(a, c)
<1> PICK m \in Nat \ {0} : m = BLS_MODULUS
  BY FieldAssumption
<1>1. PICK q \in Int : a - b = q * m
  BY DEF Same
<1>2. PICK r \in Int : b - c = r * m
  BY DEF Same
<1>3. (q + r) * m = q * m + r * m
  OBVIOUS
<1>4. PICK t \in Int : t = q + r
  OBVIOUS
<1>5. a - c = t * m
  BY <1>1, <1>2, <1>3, <1>4
<1> QED BY <1>5 DEF Same

\* What is added to both sides does not matter.
LEMMA SameSum ==
  ASSUME NEW a \in Int, NEW b \in Int, NEW c \in Int
  PROVE  Same(a + c, b + c) <=> Same(a, b)
<1>1. (a + c) - (b + c) = a - b
  OBVIOUS
<1> QED BY <1>1 DEF Same

LEMMA SameDifference ==
  ASSUME NEW a \in Int, NEW b \in Int, NEW c \in Int, Same(c - a, c - b)
  PROVE  Same(a, b)
<1>1. PICK q \in Int : (c - a) - (c - b) = q * BLS_MODULUS
  BY DEF Same
<1>2. b - a = q * BLS_MODULUS
  BY <1>1, FieldAssumption
<1>3. Same(b, a)
  BY <1>2 DEF Same
<1> QED BY <1>3, SameSymmetric

\* Multiples of the same are the same.
LEMMA SameProduct ==
  ASSUME NEW a \in Int, NEW b \in Int, NEW c \in Int, Same(a, b)
  PROVE  Same(a * c, b * c)
<1> PICK m \in Nat \ {0} : m = BLS_MODULUS
  BY FieldAssumption
<1>1. PICK q \in Int : a - b = q * m
  BY DEF Same
<1>2. a * c - b * c = (a - b) * c
  OBVIOUS
<1>3. (q * m) * c = (q * c) * m /\ q * c \in Int
  OBVIOUS
<1>4. a * c - b * c = (q * c) * m
  BY <1>1, <1>2, <1>3
<1> QED BY <1>3, <1>4 DEF Same

\* `mod' tells apart what is not the same.
LEMMA SameMod ==
  ASSUME NEW a \in Int, NEW b \in Int
  PROVE  mod(a) = mod(b) <=> Same(a, b)
<1>1. /\ mod(a) \in Field /\ mod(a) \in Int /\ Same(a, mod(a)) /\ Same(mod(a), a)
      /\ mod(b) \in Field /\ mod(b) \in Int /\ Same(b, mod(b)) /\ Same(mod(b), b)
  BY ModIsSame
<1>2. ASSUME mod(a) = mod(b) PROVE Same(a, b)
  BY <1>1, <1>2, SameTransitive
<1>3. ASSUME Same(a, b) PROVE mod(a) = mod(b)
  <2>1. Same(mod(a), b)
    BY <1>1, <1>3, SameTransitive
  <2>2. Same(mod(a), mod(b))
    BY <1>1, <2>1, SameTransitive
  <2> QED BY <1>1, <2>2, SameInField
<1> QED BY <1>2, <1>3

---------------------------------------------------------------------------
(* Sums in the field.                                                      *)

any(s) == CHOOSE x \in s : TRUE

SumStep(g, f, s) == g[s] = IF s = {} THEN 0 ELSE mod(f[any(s)] + g[s \ {any(s)}])

\* What sum_of computes on the way, for a function to the integers.
LEMMA SumRuns ==
  ASSUME NEW f, IsFiniteSet(DOMAIN f), \A i \in DOMAIN f : f[i] \in Int
  PROVE  \E g \in [SUBSET DOMAIN f -> Field] :
           /\ sum_of(f) = g[DOMAIN f]
           /\ \A s \in SUBSET DOMAIN f : SumStep(g, f, s)
<1> PICK S : S = DOMAIN f
  OBVIOUS
<1>0. IsFiniteSet(S)
  OBVIOUS
<1> DEFINE Body(g) == [s \in SUBSET S |-> IF s = {} THEN 0
                                          ELSE mod(f[CHOOSE x \in s : TRUE] + g[s \ {CHOOSE x \in s : TRUE}])]
           iter == CHOOSE g : g = Body(g)
           step == [p \in S \X Field |-> mod(f[p[1]] + p[2])]
           pick == [s \in SUBSET S |-> any(s)]
<1>1. sum_of(f) = iter[S]
  BY DEF sum_of, FoldFunction, FoldFunctionOnSet, MapThenFoldSet
<1>2. \A s \in SUBSET S : s # {} => pick[s] \in s
  BY DEF any
<1>3. 0 \in Field /\ \A x \in Field : x \in Int
  BY FieldAssumption DEF Field
<1>4. step \in [S \X Field -> Field]
  <2> SUFFICES ASSUME NEW x \in S, NEW y \in Field PROVE mod(f[x] + y) \in Field
    OBVIOUS
  <2>1. f[x] + y \in Int
    BY <1>3
  <2> QED BY <2>1, ModIsSame
<1>5. PICK g \in [SUBSET S -> Field] : \A s \in SUBSET S : FoldStep(g, s, pick, 0, step)
  <2> HIDE DEF step, pick
  <2>1. CanFold(S, Field, pick, 0, step)
    BY <1>0, <1>2, <1>3, <1>4 DEF CanFold
  <2>2. PICK f1 : Folds(f1, S, Field, pick, 0, step)
    BY <2>1, FoldExists, Zenon
  <2> QED BY <2>2, Zenon DEF Folds
<1>6. \A s \in SUBSET S : SumStep(g, f, s)
  <2> SUFFICES ASSUME NEW s \in SUBSET S PROVE SumStep(g, f, s)
    OBVIOUS
  <2>1. s # {} => any(s) \in S /\ s \ {any(s)} \in SUBSET S
    BY <1>2
  <2>2. s # {} => step[<< any(s), g[s \ {any(s)}] >>] = mod(f[any(s)] + g[s \ {any(s)}])
    BY <2>1
  <2>3. g[s] = IF s = {} THEN 0 ELSE step[<< pick[s], g[s \ {pick[s]}] >>]
    BY <1>5 DEF FoldStep
  <2>4. pick[s] = any(s)
    OBVIOUS
  <2> HIDE DEF step, pick
  <2> QED BY <2>2, <2>3, <2>4 DEF SumStep
<1>7. g = Body(g)
  BY <1>6 DEF SumStep, any
<1>8. iter = Body(iter)
  <2> HIDE DEF Body
  <2> QED BY <1>7
<1>9. \A s \in SUBSET S : SumStep(iter, f, s)
  <2> SUFFICES ASSUME NEW s \in SUBSET S PROVE SumStep(iter, f, s)
    OBVIOUS
  <2> HIDE DEF iter
  <2> QED BY <1>8 DEF SumStep, any
<1> HIDE DEF iter, pick, step, Body
<1>10. \A s \in SUBSET S : iter[s] = g[s]
  <2> DEFINE W == { s \in SUBSET S : iter[s] = g[s] }
  <2>1. {} \in W
    BY <1>6, <1>9 DEF SumStep
  <2>2. ASSUME NEW s \in SUBSET S, s # {}
        PROVE  \E x \in s : s \ {x} \in W => s \in W
    <3>1. any(s) \in s
      BY <2>2 DEF any
    <3>2. iter[s \ {any(s)}] = g[s \ {any(s)}] => iter[s] = g[s]
      BY <1>6, <1>9, <2>2 DEF SumStep
    <3> QED BY <3>1, <3>2
  <2> HIDE DEF W
  <2>3. Inductive(S, W)
    BY <2>1, <2>2 DEF Inductive
  <2>4. SUBSET S \subseteq W
    BY <1>0, <2>3, SubsetInduction
  <2> QED BY <2>4 DEF W
<1> QED BY <1>0, <1>1, <1>6, <1>10

\* A sum is an element of the field.
LEMMA SumType ==
  ASSUME NEW f, IsFiniteSet(DOMAIN f), \A i \in DOMAIN f : f[i] \in Int
  PROVE  sum_of(f) \in Field
<1>1. PICK g \in [SUBSET DOMAIN f -> Field] : sum_of(f) = g[DOMAIN f]
  BY SumRuns
<1> QED BY <1>1

\* Of two sums that differ in one summand at most, and are the same, the summands are the same.
LEMMA SumsDiffer ==
  ASSUME NEW f, NEW g, IsFiniteSet(DOMAIN f), DOMAIN f = DOMAIN g,
         \A i \in DOMAIN f : f[i] \in Int /\ g[i] \in Int,
         NEW r \in DOMAIN f, \A i \in DOMAIN f : i # r => f[i] = g[i],
         sum_of(f) = sum_of(g)
  PROVE  Same(f[r], g[r])
<1> PICK S : S = DOMAIN f
  OBVIOUS
<1>0. IsFiniteSet(S)
  OBVIOUS
<1>1. PICK F \in [SUBSET S -> Field] : sum_of(f) = F[S] /\ \A s \in SUBSET S : SumStep(F, f, s)
  BY <1>0, SumRuns
<1>2. PICK G \in [SUBSET S -> Field] : sum_of(g) = G[S] /\ \A s \in SUBSET S : SumStep(G, g, s)
  BY <1>0, SumRuns
<1>3. \A x \in Field : x \in Int
  BY FieldAssumption DEF Field
<1> DEFINE W == { s \in SUBSET S : IF r \in s THEN F[s] = G[s] => Same(f[r], g[r]) ELSE F[s] = G[s] }
<1>4. {} \in W
  BY <1>1, <1>2 DEF SumStep
<1>5. ASSUME NEW s \in SUBSET S, s # {}
      PROVE  \E x \in s : s \ {x} \in W => s \in W
  <2> PICK x \in s : x = any(s)
    BY <1>5 DEF any
  <2> SUFFICES ASSUME s \ {x} \in W PROVE s \in W
    OBVIOUS
  <2> PICK t \in SUBSET S : t = s \ {x}
    OBVIOUS
  <2>1. F[s] = mod(f[x] + F[t]) /\ G[s] = mod(g[x] + G[t])
    BY <1>1, <1>2, <1>5 DEF SumStep
  <2>2. F[t] \in Field /\ G[t] \in Field /\ F[t] \in Int /\ G[t] \in Int
        /\ f[x] \in Int /\ g[x] \in Int /\ f[x] + F[t] \in Int /\ g[x] + G[t] \in Int
    BY <1>3
  <2>3. CASE r \notin s
    <3>1. F[t] = G[t] /\ f[x] = g[x]
      BY <2>3
    <3> QED BY <2>1, <2>3, <3>1
  <2>4. CASE r = x
    <3>1. F[t] = G[t]
      BY <2>4
    <3>2. F[s] = G[s] => Same(f[x] + F[t], g[x] + F[t])
      BY <2>1, <2>2, <3>1, SameMod
    <3>3. F[s] = G[s] => Same(f[x], g[x])
      BY <2>2, <3>2, SameSum
    <3> QED BY <2>4, <3>3
  <2>5. CASE r \in s /\ r # x
    <3>1. f[x] = g[x] /\ (F[t] = G[t] => Same(f[r], g[r]))
      BY <2>5
    <3>2. F[s] = G[s] => Same(f[x] + F[t], f[x] + G[t])
      BY <2>1, <2>2, <3>1, SameMod
    <3>3. f[x] + F[t] = F[t] + f[x] /\ f[x] + G[t] = G[t] + f[x]
      BY <2>2
    <3>4. F[s] = G[s] => Same(F[t], G[t])
      BY <2>2, <3>2, <3>3, SameSum
    <3>5. F[s] = G[s] => F[t] = G[t]
      BY <2>2, <3>4, SameInField
    <3> QED BY <2>5, <3>1, <3>5
  <2> QED BY <2>3, <2>4, <2>5
<1>6. SUBSET S \subseteq W
  <2> HIDE DEF W
  <2>1. Inductive(S, W)
    BY <1>4, <1>5 DEF Inductive
  <2> QED BY <1>0, <2>1, SubsetInduction
<1>7. S \in W
  BY <1>6
<1> QED BY <1>0, <1>1, <1>2, <1>7

---------------------------------------------------------------------------
(* Powers in the field.                                                    *)

PowStep(f, i, x) == f[i] = IF i = 0 THEN 1 ELSE mod(f[i - 1] * x)

Powers(U, x) == 1 \in U /\ \A u \in U : mod(u * x) \in U

\* What pow computes on the way.
LEMMA PowRuns ==
  ASSUME NEW U, NEW x, NEW e \in Nat, Powers(U, x)
  PROVE  \E to : pow(x, e) = to[e] /\ \A i \in 0 .. e : PowStep(to, i, x)
<1> USE DEF Powers
<1> DEFINE Body(f) == [i \in 0 .. e |-> IF i = 0 THEN 1 ELSE mod(f[i - 1] * x)]
           to == CHOOSE f : f = Body(f)
           Run(f, m) == \A i \in 0 .. m : PowStep(f, i, x)
           I == { m \in 0 .. e : \E f \in [0 .. m -> U] : Run(f, m) }
<1>1. pow(x, e) = to[e]
  BY DEF pow
<1>2. 0 \in I
  <2> DEFINE f == [i \in 0 .. 0 |-> 1]
  <2>1. f \in [0 .. 0 -> U] /\ Run(f, 0)
    BY DEF PowStep
  <2> HIDE DEF f, Run
  <2> QED BY <2>1
<1>3. ASSUME NEW m \in 0 .. e-1, m \in I PROVE m+1 \in I
  <2>1. PICK f \in [0 .. m -> U] : Run(f, m)
    BY <1>3
  <2> DEFINE g == [i \in 0 .. m+1 |-> IF i =< m THEN f[i] ELSE mod(f[m] * x)]
  <2>2. mod(f[m] * x) \in U /\ m+1 \in 0 .. e
    OBVIOUS
  <2>3. g \in [0 .. m+1 -> U]
    BY <2>2
  <2>4. ASSUME NEW i \in 0 .. m+1 PROVE PowStep(g, i, x)
    <3>1. CASE i =< m
      <4>1. PowStep(f, i, x) /\ g[i] = f[i] /\ (i # 0 => g[i - 1] = f[i - 1])
        BY <2>1, <3>1
      <4> HIDE DEF g
      <4> QED BY <4>1 DEF PowStep
    <3>2. CASE i = m+1
      <4>1. g[i] = mod(f[m] * x) /\ g[i - 1] = f[m] /\ i # 0
        BY <3>2
      <4> HIDE DEF g
      <4> QED BY <4>1 DEF PowStep
    <3> QED BY <3>1, <3>2
  <2>5. Run(g, m+1)
    BY <2>4
  <2> HIDE DEF g, Run
  <2> QED BY <2>2, <2>3, <2>5
<1>4. e \in I
  <2> HIDE DEF I
  <2> QED BY <1>2, <1>3, BoundedInduction
<1>5. PICK f \in [0 .. e -> U] : Run(f, e)
  BY <1>4
<1>6. f = Body(f)
  BY <1>5 DEF PowStep
<1>7. to = Body(to)
  <2> HIDE DEF Body
  <2> QED BY <1>6
<1>8. \A i \in 0 .. e : PowStep(to, i, x)
  <2> SUFFICES ASSUME NEW i \in 0 .. e PROVE PowStep(to, i, x)
    OBVIOUS
  <2> HIDE DEF to
  <2> QED BY <1>7 DEF PowStep
<1> HIDE DEF to
<1> QED BY <1>1, <1>8

\* A power is in any set that has 1 and is closed under multiplication by the base.
LEMMA PowIn ==
  ASSUME NEW U, NEW x, NEW e \in Nat, Powers(U, x)
  PROVE  pow(x, e) \in U
<1>1. PICK to : pow(x, e) = to[e] /\ \A i \in 0 .. e : PowStep(to, i, x)
  BY PowRuns
<1> DEFINE J == { i \in 0 .. e : to[i] \in U }
<1>2. 0 \in J
  BY <1>1 DEF PowStep, Powers
<1>3. ASSUME NEW i \in 0 .. e-1, i \in J PROVE i+1 \in J
  <2>1. i+1 \in 0 .. e /\ i+1 # 0 /\ (i+1) - 1 = i
    OBVIOUS
  <2>2. to[i+1] = mod(to[i] * x)
    BY <1>1, <2>1 DEF PowStep
  <2> QED BY <1>3, <2>1, <2>2 DEF Powers
<1>4. 0 .. e \subseteq J
  <2> HIDE DEF J
  <2> QED BY <1>2, <1>3, BoundedInduction
<1> QED BY <1>1, <1>4

\* A power of an integer is one.
LEMMA PowType ==
  ASSUME NEW x \in Int, NEW e \in Nat
  PROVE  pow(x, e) \in Int
<1>1. ASSUME NEW u \in Int PROVE mod(u * x) \in Int
  <2>1. u * x \in Int
    OBVIOUS
  <2> QED BY <2>1, ModIsSame
<1>2. Powers(Int, x)
  BY <1>1 DEF Powers
<1> QED BY <1>2, PowIn

\* A field has no divisors of zero.
LEMMA NoZeroDivisors ==
  ASSUME NEW x \in Field \ {0}, NEW u \in Int, Same(u * x, 0)
  PROVE  Same(u, 0)
<1>1. PICK y \in Field : (x * y) % BLS_MODULUS = 1
  BY FieldAssumption
<1>2. x \in Int /\ y \in Int /\ x * y \in Int /\ u * x \in Int /\ (u * x) * y \in Int
  BY FieldAssumption DEF Field
<1>3. Same(x * y, 1)
  BY <1>1, <1>2, ModIsSame DEF mod
<1>4. Same((x * y) * u, 1 * u)
  <2> PICK a \in Int, b \in Int : a = x * y /\ b = 1 /\ Same(a, b)
    BY <1>2, <1>3
  <2>1. Same(a * u, b * u)
    BY SameProduct
  <2> QED BY <2>1
<1>5. Same((u * x) * y, 0 * y)
  <2> PICK a \in Int, b \in Int : a = u * x /\ b = 0 /\ Same(a, b)
    BY <1>2
  <2>1. Same(a * y, b * y)
    BY <1>2, SameProduct
  <2> QED BY <2>1
<1>6. (x * y) * u = (u * x) * y /\ 1 * u = u /\ 0 * y = 0
  BY <1>2
<1>7. Same(u, (u * x) * y)
  BY <1>2, <1>4, <1>6, SameSymmetric
<1> QED BY <1>2, <1>5, <1>6, <1>7, SameTransitive

\* Nor is a power of what is not 0 the same as 0.
LEMMA PowNonzero ==
  ASSUME NEW x \in Field \ {0}, NEW e \in Nat
  PROVE  pow(x, e) \in Int /\ ~ Same(pow(x, e), 0)
<1> DEFINE U == { u \in Int : ~ Same(u, 0) }
<1>1. 1 \in U
  <2>1. BLS_MODULUS \in Nat /\ BLS_MODULUS > 1
    BY FieldAssumption DEF Field
  <2>2. 1 \in Field /\ 0 \in Field
    BY <2>1 DEF Field
  <2> QED BY <2>2, SameInField
<1>2. ASSUME NEW u \in U PROVE mod(u * x) \in U
  <2>1. x \in Int /\ u \in Int /\ u * x \in Int
    BY FieldAssumption DEF Field
  <2>2. mod(u * x) \in Int /\ Same(u * x, mod(u * x))
    BY <2>1, ModIsSame
  <2>3. Same(mod(u * x), 0) => Same(u * x, 0)
    BY <2>1, <2>2, SameTransitive
  <2> QED BY <2>1, <2>2, <2>3, NoZeroDivisors
<1>3. pow(x, e) \in U
  <2>1. Powers(U, x)
    <3> HIDE DEF U
    <3> QED BY <1>1, <1>2 DEF Powers
  <2> QED BY <2>1, PowIn
<1> QED BY <1>3

---------------------------------------------------------------------------
(* Polynomials, with their coefficients in the field.                      *)

Poly(n) == [1 .. n -> Field]

\* A polynomial as a sequence, and its coefficients beyond the last.
LEMMA PolyIsSequence ==
  ASSUME NEW n \in Nat, NEW f \in Poly(n)
  PROVE  /\ f \in Seq(Field) /\ Len(f) = n /\ DOMAIN f = 1 .. n /\ IsFiniteSet(DOMAIN f)
         /\ \A i \in DOMAIN f : f[i] \in Field /\ f[i] \in Int
         /\ \A i \in Int : coefficient(f, i) \in Field /\ coefficient(f, i) \in Int
<1>1. 0 \in Field /\ \A x \in Field : x \in Int
  BY FieldAssumption DEF Field
<1>2. f \in Seq(Field) /\ Len(f) = n /\ DOMAIN f = 1 .. n /\ \A i \in DOMAIN f : f[i] \in Field
  BY DEF Poly
<1>3. IsFiniteSet(1 .. n)
  BY FS_Interval
<1>4. ASSUME NEW i \in Int PROVE coefficient(f, i) \in Field
  BY <1>1, <1>2 DEF coefficient
<1> QED BY <1>1, <1>2, <1>3, <1>4

\* The lengths of a product and of a sum, whose coefficients are in the field.
LEMMA TimesType ==
  ASSUME NEW a \in Nat, NEW b \in Nat, a + b >= 1, NEW f \in Poly(a), NEW g \in Poly(b)
  PROVE  times(f, g) \in Poly(a + b - 1)
<1>1. Len(f) = a /\ Len(g) = b
  BY PolyIsSequence
<1>2. ASSUME NEW k \in 1 .. a + b - 1
      PROVE  sum_of([i \in DOMAIN f |-> f[i] * coefficient(g, k + 1 - i)]) \in Field
  <2> DEFINE h == [i \in DOMAIN f |-> f[i] * coefficient(g, k + 1 - i)]
  <2>1. DOMAIN f = 1 .. a /\ DOMAIN h = DOMAIN f /\ IsFiniteSet(DOMAIN h)
    BY PolyIsSequence
  <2>2. ASSUME NEW i \in DOMAIN h PROVE h[i] \in Int
    <3>1. f[i] \in Int
      BY <2>1, <2>2, PolyIsSequence
    <3>0. k + 1 - i \in Int
      BY <2>1, <2>2
    <3>2. coefficient(g, k + 1 - i) \in Int
      BY <3>0, PolyIsSequence
    <3> QED BY <3>1, <3>2
  <2> HIDE DEF h
  <2>3. sum_of(h) \in Field
    BY <2>1, <2>2, SumType
  <2> QED BY <2>3 DEF h
<1> QED BY <1>1, <1>2 DEF times, Poly

LEMMA PlusType ==
  ASSUME NEW a \in Nat, NEW f, f = << >> \/ f \in Poly(a), NEW g \in Poly(a)
  PROVE  plus(f, g) \in Poly(a)
<1>1. Len(g) = a
  BY PolyIsSequence
<1>2. f = << >> => f \in Poly(0)
  BY DEF Poly
<1>3. Len(f) = a \/ Len(f) = 0
  BY <1>2, PolyIsSequence
<1>4. longest(f, g) = 1 .. a
  BY <1>1, <1>3 DEF longest
<1>5. ASSUME NEW i \in 1 .. a PROVE mod(coefficient(f, i) + coefficient(g, i)) \in Field
  <2>1. coefficient(g, i) \in Int
    BY PolyIsSequence
  <2>2. f \in Poly(0) \/ f \in Poly(a)
    BY <1>2
  <2>3. coefficient(f, i) \in Int
    BY <2>2, PolyIsSequence
  <2>4. coefficient(f, i) + coefficient(g, i) \in Int
    BY <2>1, <2>3
  <2> QED BY <2>4, ModIsSame
<1> QED BY <1>4, <1>5 DEF plus, Poly

\* A value of a polynomial is in the field.
LEMMA EvalType ==
  ASSUME NEW a \in Nat, NEW f \in Poly(a), NEW x \in Int
  PROVE  eval(f, x) \in Field
<1> DEFINE h == [i \in DOMAIN f |-> f[i] * pow(x, i - 1)]
<1>1. DOMAIN f = 1 .. a /\ DOMAIN h = DOMAIN f /\ IsFiniteSet(DOMAIN h)
  BY PolyIsSequence
<1>2. ASSUME NEW i \in DOMAIN h PROVE h[i] \in Int
  <2>0. i \in 1 .. a
    BY <1>1, <1>2
  <2>1. f[i] \in Int
    BY <1>1, <2>0, PolyIsSequence
  <2>2. i - 1 \in Nat
    BY <2>0
  <2>3. pow(x, i - 1) \in Int
    BY <2>2, PowType
  <2> QED BY <1>1, <2>1, <2>3
<1> HIDE DEF h
<1>3. sum_of(h) \in Field
  BY <1>1, <1>2, SumType
<1> QED BY <1>3 DEF h, eval

\* A nonempty set of positions has a last one.
LEMMA MaxIsIn ==
  ASSUME NEW n \in Nat, NEW s \in SUBSET (1 .. n), s # {}
  PROVE  Max(s) \in s
<1>1. s \in SUBSET (0 .. n)
  OBVIOUS
<1>2. PICK x \in s : \A y \in s : y =< x
  BY <1>1, GreatestExists
<1>3. x \in s /\ \A y \in s : x >= y
  BY <1>2
<1> QED BY <1>3 DEF Max

LEMMA FieldNumbers ==
  BLS_MODULUS \in Nat /\ 0 \in Field /\ 1 \in Field /\ \A x \in Field : x \in Int
BY FieldAssumption DEF Field

\* What is not 0 has an inverse.
LEMMA InverseType == \A w \in Field \ {0} : inverse[w] \in Field
<1> SUFFICES ASSUME NEW w \in Field \ {0} PROVE inverse[w] \in Field
  OBVIOUS
<1>1. \E y \in Field : mod(w * y) = 1
  BY FieldAssumption DEF mod
<1> QED BY <1>1 DEF inverse

\* A power that the program computes is in the field.
LEMMA PowInField ==
  ASSUME NEW x \in Int, NEW e \in Nat
  PROVE  pow(x, e) \in Field
<1>1. ASSUME NEW u \in Field PROVE mod(u * x) \in Field
  <2>1. u * x \in Int
    BY FieldNumbers
  <2> QED BY <2>1, ModIsSame
<1>2. Powers(Field, x)
  BY <1>1, FieldNumbers DEF Powers
<1> QED BY <1>2, PowIn

\* The roots of unity are elements of the field, each of its own.
LEMMA RootsType ==
  /\ DOMAIN ROOTS_OF_UNITY = 1 .. RootsOrder
  /\ \A i \in 1 .. RootsOrder : ROOTS_OF_UNITY[i] \in Field
  /\ \A i, j \in 1 .. RootsOrder : i # j => ROOTS_OF_UNITY[i] # ROOTS_OF_UNITY[j]
<1> DEFINE root == pow(PRIMITIVE_ROOT, (BLS_MODULUS - 1) \div RootsOrder)
<1>1. RootsOrder \in Nat \ {0} /\ PRIMITIVE_ROOT \in Int
  BY FieldAssumption, FieldNumbers
<1>2. (BLS_MODULUS - 1) \div RootsOrder \in Nat
  <2>1. BLS_MODULUS - 1 \in Nat
    BY FieldAssumption
  <2> QED BY <1>1, <2>1
<1>3. root \in Int
  BY <1>1, <1>2, PowType
<1> HIDE DEF root
<1>4. ROOTS_OF_UNITY = [i \in 1 .. RootsOrder |-> pow(root, i - 1)]
  BY DEF ROOTS_OF_UNITY, compute_roots_of_unity, root
<1>5. ASSUME NEW i \in 1 .. RootsOrder PROVE pow(root, i - 1) \in Field
  <2>1. i - 1 \in Nat
    BY <1>1
  <2> QED BY <1>3, <2>1, PowInField
<1>6. \A i, j \in DOMAIN ROOTS_OF_UNITY : ROOTS_OF_UNITY[i] = ROOTS_OF_UNITY[j] => i = j
  BY RootsAssumption DEF IsInjective
<1> QED BY <1>4, <1>5, <1>6

\* The setup is one of numbers.
LEMMA ParametersType ==
  DOMAIN GLOBAL_PARAMETERS = 1 .. RootsOrder /\ \A i \in 1 .. RootsOrder : GLOBAL_PARAMETERS[i] \in Int
<1>1. RootsOrder \in Nat \ {0} /\ Secret \in Int
  BY FieldAssumption, FieldNumbers
<1>2. ASSUME NEW i \in 1 .. RootsOrder PROVE pow(Secret, i - 1) \in Int
  <2>1. i - 1 \in Nat
    BY <1>1
  <2> QED BY <1>1, <2>1, PowType
<1> QED BY <1>2 DEF GLOBAL_PARAMETERS

---------------------------------------------------------------------------
(* Sums, whatever the order of the summands, as loops.                     *)

LEMMA SameReflexive == \A a \in Int : Same(a, a)
<1> TAKE a \in Int
<1>1. a - a = 0 * BLS_MODULUS
  BY FieldAssumption
<1> QED BY <1>1 DEF Same

\* Sums of numbers that are the same are the same.
LEMMA SameAdd ==
  ASSUME NEW a \in Int, NEW b \in Int, NEW c \in Int, NEW d \in Int, Same(a, b), Same(c, d)
  PROVE  Same(a + c, b + d)
<1> PICK m \in Nat \ {0} : m = BLS_MODULUS
  BY FieldAssumption
<1>1. PICK q \in Int : a - b = q * m
  BY DEF Same
<1>2. PICK r \in Int : c - d = r * m
  BY DEF Same
<1>3. (q + r) * m = q * m + r * m
  OBVIOUS
<1>4. PICK t \in Int : t = q + r
  OBVIOUS
<1>5. (a + c) - (b + d) = t * m
  BY <1>1, <1>2, <1>3, <1>4
<1> QED BY <1>5 DEF Same

\* The order of two steps of a sum does not matter.
LEMMA ModSwap ==
  ASSUME NEW a \in Int, NEW b \in Int, NEW c \in Int
  PROVE  mod(a + mod(b + c)) = mod(b + mod(a + c))
<1> PICK u \in Int, v \in Int : u = mod(b + c) /\ Same(u, b + c) /\ v = mod(a + c) /\ Same(v, a + c)
  BY ModIsSame
<1>1. Same(a + u, a + (b + c)) /\ Same(b + v, b + (a + c))
  <2> PICK s \in Int, t \in Int : s = b + c /\ t = a + c
    OBVIOUS
  <2> QED BY SameAdd, SameReflexive
<1>2. a + (b + c) = b + (a + c) /\ a + (b + c) \in Int /\ a + u \in Int /\ b + v \in Int
  OBVIOUS
<1>3. Same(a + (b + c), b + v)
  BY <1>1, <1>2, SameSymmetric
<1>4. Same(a + u, b + v)
  BY <1>1, <1>2, <1>3, SameTransitive
<1> QED BY <1>2, <1>4, SameMod

\* The loop of a sum: from one set of places to another with a place less.
Summable(f) == IsFiniteSet(DOMAIN f) /\ \A i \in DOMAIN f : f[i] \in Int

SumRun(g, f) ==
  /\ g \in [SUBSET DOMAIN f -> Field] /\ sum_of(f) = g[DOMAIN f]
  /\ \A s \in SUBSET DOMAIN f : SumStep(g, f, s)

\* Any of the places may be the one less.
AnyStep(g, f) == \A s \in SUBSET DOMAIN f : \A x \in s : g[s] = mod(f[x] + g[s \ {x}])

\* A sum can be begun with any of the summands.
LEMMA SumAny ==
  ASSUME NEW f, Summable(f), NEW g, SumRun(g, f)
  PROVE  AnyStep(g, f)
<1> PICK S : S = DOMAIN f
  OBVIOUS
<1>0. /\ IsFiniteSet(S) /\ \A i \in S : f[i] \in Int
      /\ g \in [SUBSET S -> Field] /\ \A s \in SUBSET S : SumStep(g, f, s)
  BY DEF SumRun, Summable
<1> DEFINE W == { s \in SUBSET S : \A x \in s : g[s] = mod(f[x] + g[s \ {x}]) }
<1>1. ASSUME NEW s \in SUBSET S, s # {}, \A x \in s : s \ {x} \in W
      PROVE  s \in W
  <2>1. PICK y \in s : y = any(s) /\ g[s] = mod(f[y] + g[s \ {y}])
    <3>1. any(s) \in s
      BY <1>1 DEF any
    <3>2. g[s] = mod(f[any(s)] + g[s \ {any(s)}])
      BY <1>0, <1>1 DEF SumStep
    <3> QED BY <3>1, <3>2
  <2>2. ASSUME NEW x \in s, x # y PROVE g[s] = mod(f[x] + g[s \ {x}])
    <3>1. PICK t \in SUBSET S, u \in SUBSET S, v \in SUBSET S :
            /\ t = s \ {y} /\ u = s \ {x} /\ v = t \ {x} /\ v = u \ {y}
            /\ x \in t /\ y \in u /\ t \in W /\ u \in W
      <4> HIDE DEF W
      <4>1. s \ {y} \in W /\ s \ {x} \in W
        BY <1>1
      <4>2. (s \ {y}) \ {x} = (s \ {x}) \ {y}
        OBVIOUS
      <4>3. x \in s \ {y} /\ y \in s \ {x}
        BY <2>2
      <4>4. s \ {y} \in SUBSET S /\ s \ {x} \in SUBSET S /\ (s \ {y}) \ {x} \in SUBSET S
        OBVIOUS
      <4> QED BY <4>1, <4>2, <4>3, <4>4
    <3>2. g[t] = mod(f[x] + g[v]) /\ g[u] = mod(f[y] + g[v])
      BY <3>1
    <3>3. f[x] \in Int /\ f[y] \in Int /\ g[v] \in Int
      BY <1>0, FieldNumbers
    <3>4. mod(f[y] + mod(f[x] + g[v])) = mod(f[x] + mod(f[y] + g[v]))
      BY <3>3, ModSwap
    <3> HIDE DEF W
    <3> QED BY <2>1, <3>1, <3>2, <3>4
  <2> QED BY <2>1, <2>2
<1>2. {} \in W
  OBVIOUS
<1>3. SUBSET S \subseteq W
  <2> HIDE DEF W
  <2>1. Inductive(S, W)
    BY <1>1, <1>2 DEF Inductive
  <2> QED BY <1>0, <2>1, SubsetInduction
<1> QED BY <1>3 DEF AnyStep

\* The sum of a sequence as a loop over its places.
LoopSum(T, f, n) ==
  /\ T \in [0 .. n -> Int] /\ Same(T[0], 0)
  /\ \A m \in 0 .. n - 1 : Same(T[m + 1], T[m] + f[m + 1])

Ints(f, n) == DOMAIN f = 1 .. n /\ \A i \in 1 .. n : f[i] \in Int

\* A sum, which begins with any of the summands, is the one that goes from place to place.
LEMMA SumIsLoop ==
  ASSUME NEW n \in Nat, NEW f, Ints(f, n)
  PROVE  \E T : LoopSum(T, f, n) /\ sum_of(f) = T[n]
<1>1. IsFiniteSet(DOMAIN f) /\ DOMAIN f = 1 .. n /\ \A i \in 1 .. n : f[i] \in Int
  BY FS_Interval DEF Ints
<1>2. PICK g : SumRun(g, f) /\ \A s \in SUBSET DOMAIN f : \A x \in s : g[s] = mod(f[x] + g[s \ {x}])
  <2>1. PICK g : SumRun(g, f)
    BY <1>1, SumRuns DEF SumRun
  <2>2. Summable(f)
    BY <1>1 DEF Summable
  <2>3. AnyStep(g, f)
    BY <2>1, <2>2, SumAny
  <2> QED BY <2>1, <2>3 DEF AnyStep
<1> DEFINE T == [m \in 0 .. n |-> g[1 .. m]]
<1>3. ASSUME NEW m \in 0 .. n PROVE (1 .. m) \in SUBSET (1 .. n) /\ g[1 .. m] \in Field /\ g[1 .. m] \in Int
  <2>1. (1 .. m) \in SUBSET (1 .. n)
    OBVIOUS
  <2> QED BY <1>1, <1>2, <2>1, FieldNumbers DEF SumRun
<1>4. g[1 .. 0] = 0
  <2>1. 1 .. 0 = {} /\ {} \in SUBSET DOMAIN f
    OBVIOUS
  <2> QED BY <1>2, <2>1 DEF SumRun, SumStep
<1>5. ASSUME NEW m \in 0 .. n - 1 PROVE Same(g[1 .. m + 1], g[1 .. m] + f[m + 1])
  <2>1. m + 1 \in 1 .. m + 1 /\ (1 .. m + 1) \ {m + 1} = 1 .. m /\ (1 .. m + 1) \in SUBSET (1 .. n)
    OBVIOUS
  <2>2. g[1 .. m + 1] = mod(f[m + 1] + g[1 .. m])
    <3> PICK s \in SUBSET DOMAIN f : s = 1 .. m + 1
      BY <1>1, <2>1
    <3> PICK x \in s : x = m + 1 /\ s \ {x} = 1 .. m
      BY <2>1
    <3>2. g[s] = mod(f[x] + g[s \ {x}])
      BY <1>2
    <3> QED BY <3>2
  <2>3. f[m + 1] \in Int /\ g[1 .. m] \in Int /\ f[m + 1] + g[1 .. m] = g[1 .. m] + f[m + 1]
    BY <1>1, <1>3, <2>1
  <2>4. g[1 .. m] + f[m + 1] \in Int
    BY <2>3
  <2> QED BY <2>2, <2>3, <2>4, ModIsSame
<1>6. T \in [0 .. n -> Int] /\ T[n] = g[1 .. n] /\ T[0] = 0
  BY <1>3, <1>4
<1>7. \A m \in 0 .. n - 1 : T[m] = g[1 .. m] /\ T[m + 1] = g[1 .. m + 1]
  OBVIOUS
<1>8. Same(0, 0)
  BY SameReflexive
<1> HIDE DEF T
<1>9. LoopSum(T, f, n)
  BY <1>5, <1>6, <1>7, <1>8 DEF LoopSum
<1>10. sum_of(f) = T[n]
  BY <1>1, <1>2, <1>6 DEF SumRun
<1> QED BY <1>9, <1>10

\* Two such loops have the same outcome.
LEMMA LoopsAgree ==
  ASSUME NEW n \in Nat, NEW f, Ints(f, n), NEW T, LoopSum(T, f, n), NEW U, LoopSum(U, f, n)
  PROVE  \A m \in 0 .. n : Same(T[m], U[m])
<1> DEFINE I == { m \in 0 .. n : Same(T[m], U[m]) }
<1>1. \A m \in 0 .. n : T[m] \in Int /\ U[m] \in Int
  BY DEF LoopSum
<1>2. 0 \in I
  <2>1. Same(T[0], 0) /\ Same(0, U[0])
    BY <1>1, SameSymmetric DEF LoopSum
  <2> QED BY <1>1, <2>1, SameTransitive
<1>3. ASSUME NEW m \in 0 .. n - 1, m \in I PROVE m + 1 \in I
  <2> PICK a \in Int, b \in Int, c \in Int, d \in Int, x \in Int :
        a = T[m] /\ b = U[m] /\ c = T[m + 1] /\ d = U[m + 1] /\ x = f[m + 1]
    <3>1. m \in 0 .. n /\ m + 1 \in 0 .. n /\ m + 1 \in 1 .. n
      OBVIOUS
    <3>2. f[m + 1] \in Int
      BY <3>1 DEF Ints
    <3> QED BY <1>1, <3>1, <3>2
  <2>1. Same(a, b) /\ Same(c, a + x) /\ Same(d, b + x)
    BY <1>3 DEF LoopSum
  <2>2. Same(a + x, b + x) /\ a + x \in Int /\ b + x \in Int
    <3>1. a + x \in Int /\ b + x \in Int
      OBVIOUS
    <3> QED BY <2>1, <3>1, SameSum
  <2>3. Same(b + x, d)
    BY <2>1, <2>2, SameSymmetric
  <2>4. Same(c, b + x)
    BY <2>1, <2>2, SameTransitive
  <2>5. Same(c, d)
    BY <2>2, <2>3, <2>4, SameTransitive
  <2> QED BY <2>5
<1>4. 0 .. n \subseteq I
  <2> HIDE DEF I
  <2> QED BY <1>2, <1>3, BoundedInduction
<1> QED BY <1>4

\* So whatever goes from place to place like a sum ends with the sum.
LEMMA SumIs ==
  ASSUME NEW n \in Nat, NEW f, Ints(f, n), NEW T, LoopSum(T, f, n)
  PROVE  Same(sum_of(f), T[n])
<1>1. PICK U : LoopSum(U, f, n) /\ sum_of(f) = U[n]
  BY SumIsLoop
<1>2. n \in 0 .. n
  OBVIOUS
<1>3. Same(U[n], T[n])
  BY <1>1, <1>2, LoopsAgree
<1> QED BY <1>1, <1>3

---------------------------------------------------------------------------
(* Values of polynomials, by Horner's rule.                                *)

LEMMA PowersOfInt == \A x \in Int : Powers(Int, x)
<1> TAKE x \in Int
<1>1. ASSUME NEW u \in Int PROVE mod(u * x) \in Int
  <2>1. u * x \in Int
    OBVIOUS
  <2> QED BY <2>1, ModIsSame
<1> QED BY <1>1 DEF Powers

\* Products of numbers that are the same are the same.
LEMMA SameTimes ==
  ASSUME NEW a \in Int, NEW b \in Int, NEW c \in Int, NEW d \in Int, Same(a, b), Same(c, d)
  PROVE  Same(a * c, b * d)
<1> PICK s \in Int, t \in Int, u \in Int : s = a * c /\ t = b * c /\ u = b * d /\ t = c * b /\ u = d * b
  OBVIOUS
<1>1. Same(s, t)
  BY SameProduct
<1>2. Same(t, u)
  BY SameProduct
<1>3. Same(s, u)
  BY <1>1, <1>2, SameTransitive
<1> QED BY <1>3

LEMMA TimesAgain == \A a, b, c \in Int : a * (b * c) \in Int /\ a * (b * c) = (a * b) * c
OBVIOUS

LEMMA TimesSum == \A a, b, c \in Int : a * (b + c) = a * b + a * c /\ a * c = c * a
OBVIOUS

\* One more term of a sum of terms, after the first coefficient is set apart.
LEMMA HornerStep ==
  ASSUME NEW c \in Int, NEW x \in Int, NEW s \in Int, NEW t \in Int, NEW y \in Int,
         NEW p \in Int, NEW q \in Int, Same(t, s + y * p), Same(q, p * x)
  PROVE  Same(c + x * t, (c + x * s) + y * q)
<1> PICK yp \in Int, px \in Int, yq \in Int : yp = y * p /\ px = p * x /\ yq = y * q
  OBVIOUS
<1> PICK ypx \in Int : ypx = y * px /\ ypx = yp * x
  <2>1. y * (p * x) \in Int /\ y * (p * x) = (y * p) * x
    BY TimesAgain
  <2> QED BY <2>1, Zenon
<1>1. Same(yq, ypx)
  <2>1. Same(y, y) /\ Same(q, px)
    BY SameReflexive
  <2>2. Same(y * q, y * px)
    BY <2>1, SameTimes
  <2> QED BY <2>2
<1> PICK xt \in Int, xs \in Int, u \in Int : xt = x * t /\ xs = x * s /\ u = s + yp /\ x * u = xs + ypx
  <2>1. x * (s + yp) = x * s + x * yp /\ x * yp = yp * x
    BY TimesSum
  <2>2. x * t \in Int /\ x * s \in Int /\ s + yp \in Int
    OBVIOUS
  <2> QED BY <2>1, <2>2, Zenon
<1>2. Same(xt, xs + ypx)
  <2>1. Same(t, u) /\ Same(x, x)
    BY SameReflexive
  <2>2. Same(x * t, x * u)
    BY <2>1, SameTimes
  <2> QED BY <2>2
<1>3. Same(ypx, yq)
  BY <1>1, SameSymmetric
<1> PICK v \in Int, w \in Int, cs \in Int : v = xs + ypx /\ w = xs + yq /\ cs = c + xs /\ c + w = cs + yq
  OBVIOUS
<1>4. Same(v, w)
  BY <1>3, SameAdd, SameReflexive
<1>5. Same(xt, w)
  BY <1>2, <1>4, SameTransitive
<1>6. Same(c + xt, c + w)
  BY <1>5, SameAdd, SameReflexive
<1> QED BY <1>6

\* Powers as they are computed, one factor after the other.
LEMMA PowFirst ==
  ASSUME NEW x \in Int
  PROVE  pow(x, 0) = 1
<1>1. Powers(Int, x)
  BY PowersOfInt
<1>2. PICK to : pow(x, 0) = to[0] /\ \A i \in 0 .. 0 : PowStep(to, i, x)
  BY <1>1, PowRuns
<1>3. PowStep(to, 0, x)
  BY <1>2
<1> QED BY <1>2, <1>3 DEF PowStep

LEMMA PowNext ==
  ASSUME NEW x \in Int, NEW e \in Nat
  PROVE  pow(x, e + 1) = mod(pow(x, e) * x)
<1>1. Powers(Int, x) /\ e + 1 \in Nat
  BY PowersOfInt
<1>2. PICK f : pow(x, e) = f[e] /\ \A i \in 0 .. e : PowStep(f, i, x)
  BY <1>1, PowRuns
<1>3. PICK g : pow(x, e + 1) = g[e + 1] /\ \A i \in 0 .. e + 1 : PowStep(g, i, x)
  BY <1>1, PowRuns
<1> DEFINE I == { i \in 0 .. e : f[i] = g[i] }
<1>4. 0 \in I
  BY <1>2, <1>3 DEF PowStep
<1>5. ASSUME NEW i \in 0 .. e - 1, i \in I PROVE i + 1 \in I
  <2>1. i + 1 \in 0 .. e /\ i + 1 \in 0 .. e + 1 /\ i + 1 # 0 /\ (i + 1) - 1 = i
    OBVIOUS
  <2>2. f[i + 1] = mod(f[i] * x) /\ g[i + 1] = mod(g[i] * x)
    BY <1>2, <1>3, <2>1 DEF PowStep
  <2> QED BY <1>5, <2>1, <2>2
<1>6. e \in I
  <2>1. 0 .. e \subseteq I
    <3> HIDE DEF I
    <3> QED BY <1>4, <1>5, BoundedInduction
  <2>2. e \in 0 .. e
    OBVIOUS
  <2> QED BY <2>1, <2>2
<1>7. e + 1 \in 0 .. e + 1 /\ e + 1 # 0 /\ (e + 1) - 1 = e
  OBVIOUS
<1>8. g[e + 1] = mod(g[e] * x)
  BY <1>3, <1>7 DEF PowStep
<1> QED BY <1>2, <1>3, <1>6, <1>8

\* Horner's rule: from the last coefficient to the first.
Horner(H, f, n, x) ==
  /\ H \in [0 .. n -> Int] /\ Same(H[n], 0)
  /\ \A j \in 0 .. n - 1 : Same(H[j], f[j + 1] + x * H[j + 1])

terms_of(f, x) == [i \in DOMAIN f |-> f[i] * pow(x, i - 1)]

\* The value is the sum of the terms.
LEMMA TermsType ==
  ASSUME NEW n \in Nat, NEW f \in Poly(n), NEW x \in Int
  PROVE  /\ Ints(terms_of(f, x), n) /\ eval(f, x) = sum_of(terms_of(f, x))
         /\ \A m \in 0 .. n - 1 : terms_of(f, x)[m + 1] = f[m + 1] * pow(x, m)
<1>1. DOMAIN f = 1 .. n /\ \A i \in 1 .. n : f[i] \in Int
  BY PolyIsSequence
<1>2. ASSUME NEW m \in 0 .. n - 1
      PROVE  terms_of(f, x)[m + 1] = f[m + 1] * pow(x, m) /\ f[m + 1] * pow(x, m) \in Int
  <2>1. m + 1 \in 1 .. n /\ (m + 1) - 1 = m /\ m \in Nat
    OBVIOUS
  <2>2. f[m + 1] \in Int /\ pow(x, m) \in Int
    BY <1>1, <2>1, PowType
  <2>3. terms_of(f, x)[m + 1] = f[m + 1] * pow(x, m)
    BY <1>1, <2>1 DEF terms_of
  <2> QED BY <2>2, <2>3
<1>3. ASSUME NEW i \in 1 .. n PROVE terms_of(f, x)[i] \in Int
  <2> PICK m \in 0 .. n - 1 : m = i - 1 /\ m + 1 = i
    OBVIOUS
  <2>1. terms_of(f, x)[m + 1] \in Int
    BY <1>2
  <2> QED BY <2>1
<1>4. DOMAIN terms_of(f, x) = 1 .. n
  BY <1>1 DEF terms_of
<1>5. eval(f, x) = sum_of(terms_of(f, x))
  BY DEF eval, terms_of
<1> QED BY <1>2, <1>3, <1>4, <1>5 DEF Ints

\* The polynomial without its first k coefficients.
shifted(f, n, k) == [i \in 1 .. n - k |-> f[i + k]]

LEMMA ShiftedType ==
  ASSUME NEW n \in Nat, NEW f \in Poly(n), NEW k \in 0 .. n
  PROVE  shifted(f, n, k) \in Poly(n - k) /\ n - k \in Nat
<1>1. \A i \in 1 .. n - k : i + k \in 1 .. n
  OBVIOUS
<1>2. \A i \in 1 .. n : f[i] \in Field
  BY DEF Poly
<1> QED BY <1>1, <1>2 DEF shifted, Poly

\* The value, with the first coefficient set apart.
LEMMA EvalOfShifted ==
  ASSUME NEW n \in Nat, NEW f \in Poly(n), NEW x \in Int, NEW k \in 0 .. n - 1
  PROVE  Same(eval(shifted(f, n, k), x), f[k + 1] + x * eval(shifted(f, n, k + 1), x))
<1> PICK m \in Nat : m = n - (k + 1) /\ m + 1 = n - k
  OBVIOUS
<1> PICK a \in Poly(m + 1), b \in Poly(m) : a = shifted(f, n, k) /\ b = shifted(f, n, k + 1)
  <2>1. k \in 0 .. n /\ k + 1 \in 0 .. n
    OBVIOUS
  <2> QED BY <2>1, ShiftedType
<1>1. a[1] = f[k + 1] /\ \A i \in 1 .. m : a[i + 1] = b[i]
  <2>1. \A i \in 1 .. m : i + (k + 1) = (i + 1) + k
    OBVIOUS
  <2> QED BY <2>1 DEF shifted
<1>2. a[1] \in Int /\ m + 1 \in Nat
  <2>1. m + 1 \in Nat /\ 1 \in 1 .. m + 1
    OBVIOUS
  <2> QED BY <2>1, PolyIsSequence
<1>3. PICK T : LoopSum(T, terms_of(b, x), m) /\ eval(b, x) = T[m]
  <2>1. Ints(terms_of(b, x), m) /\ eval(b, x) = sum_of(terms_of(b, x))
    BY TermsType
  <2> QED BY <2>1, SumIsLoop
<1> DEFINE U == [i \in 0 .. m + 1 |-> IF i = 0 THEN 0 ELSE a[1] + x * T[i - 1]]
<1>4. \A i \in 0 .. m : T[i] \in Int /\ x * T[i] \in Int
  BY <1>3 DEF LoopSum
<1>5. U \in [0 .. m + 1 -> Int]
  <2> SUFFICES ASSUME NEW i \in 0 .. m + 1, i # 0 PROVE a[1] + x * T[i - 1] \in Int
    OBVIOUS
  <2>1. i - 1 \in 0 .. m
    OBVIOUS
  <2>2. x * T[i - 1] \in Int
    BY <1>4, <2>1
  <2> QED BY <1>2, <2>2
<1>6. U[0] = 0 /\ U[1] = a[1] + x * T[0]
      /\ \A i \in 1 .. m : U[i] = a[1] + x * T[i - 1] /\ U[i + 1] = a[1] + x * T[i]
  OBVIOUS
<1> HIDE DEF U
<1>7. Same(U[1], U[0] + terms_of(a, x)[1])
  <2>1. terms_of(a, x)[1] = a[1]
    <3>1. 0 \in 0 .. (m + 1) - 1 /\ 0 + 1 = 1
      OBVIOUS
    <3>2. terms_of(a, x)[1] = a[1] * pow(x, 0)
      BY <1>2, <3>1, TermsType
    <3> QED BY <1>2, <3>2, PowFirst
  <2>2. Same(x * T[0], 0)
    <3> PICK t \in Int : t = T[0] /\ Same(t, 0)
      BY <1>3 DEF LoopSum
    <3> PICK z \in Int : z = 0
      OBVIOUS
    <3>1. Same(t * x, z * x)
      BY SameProduct
    <3>2. t * x = x * t /\ z * x = 0
      OBVIOUS
    <3> QED BY <3>1, <3>2
  <2> PICK c \in Int, d \in Int, z \in Int : c = a[1] /\ d = x * T[0] /\ z = 0
    <3>1. x * T[0] \in Int
      BY <1>4
    <3> QED BY <1>2, <3>1
  <2>3. Same(c + d, c + z)
    BY <2>2, SameAdd, SameReflexive
  <2>4. c + z = z + c
    OBVIOUS
  <2> QED BY <1>6, <2>1, <2>3, <2>4
<1>8. ASSUME NEW i \in 1 .. m PROVE Same(U[i + 1], U[i] + terms_of(a, x)[i + 1])
  <2>1. /\ i - 1 \in 0 .. m - 1 /\ (i - 1) + 1 = i /\ i \in 0 .. (m + 1) - 1
        /\ i - 1 \in Nat /\ i \in 0 .. m /\ i - 1 \in 0 .. m
    OBVIOUS
  <2>2. terms_of(b, x)[i] = b[i] * pow(x, i - 1) /\ terms_of(a, x)[i + 1] = a[i + 1] * pow(x, i)
    BY <1>2, <2>1, TermsType
  <2>3. pow(x, i) = mod(pow(x, i - 1) * x)
    BY <2>1, PowNext
  <2> PICK y \in Int, p \in Int, q \in Int, s \in Int, t \in Int, c \in Int :
        /\ y = b[i] /\ y = a[i + 1] /\ p = pow(x, i - 1) /\ q = pow(x, i)
        /\ s = T[i - 1] /\ t = T[i] /\ c = a[1]
    <3>1. b[i] \in Int /\ a[i + 1] = b[i]
      BY <1>1, PolyIsSequence
    <3>2. pow(x, i - 1) \in Int /\ pow(x, i) \in Int
      <4>1. i - 1 \in Nat /\ i \in Nat
        OBVIOUS
      <4> QED BY <4>1, PowType
    <3>3. T[i - 1] \in Int /\ T[i] \in Int
      BY <1>4, <2>1
    <3> QED BY <1>2, <3>1, <3>2, <3>3
  <2>4. Same(t, s + y * p)
    BY <1>3, <2>1, <2>2 DEF LoopSum
  <2>5. Same(q, p * x)
    <3>1. p * x \in Int
      OBVIOUS
    <3> QED BY <2>3, <3>1, ModIsSame
  <2>6. Same(c + x * t, (c + x * s) + y * q)
    BY <2>4, <2>5, HornerStep
  <2> QED BY <1>6, <2>2, <2>6
<1>9. LoopSum(U, terms_of(a, x), m + 1)
  <2>1. Same(U[0], 0)
    BY <1>6, SameReflexive
  <2>2. ASSUME NEW i \in 0 .. (m + 1) - 1 PROVE Same(U[i + 1], U[i] + terms_of(a, x)[i + 1])
    <3>1. i = 0 \/ i \in 1 .. m
      OBVIOUS
    <3> QED BY <1>7, <1>8, <3>1
  <2> QED BY <1>5, <2>1, <2>2 DEF LoopSum
<1>10. Same(eval(a, x), U[m + 1])
  <2>1. Ints(terms_of(a, x), m + 1) /\ eval(a, x) = sum_of(terms_of(a, x))
    BY <1>2, TermsType
  <2> QED BY <1>2, <1>9, <2>1, SumIs
<1>11. U[m + 1] = a[1] + x * T[m]
  <2>1. m = 0 \/ m \in 1 .. m
    OBVIOUS
  <2> QED BY <1>6, <2>1
<1> QED BY <1>1, <1>3, <1>10, <1>11

\* The polynomial without coefficients is 0.
LEMMA EvalOfNone == \A x \in Int, f \in Poly(0) : eval(f, x) = 0
<1> SUFFICES ASSUME NEW x \in Int, NEW f \in Poly(0) PROVE eval(f, x) = 0
  OBVIOUS
<1>1. Ints(terms_of(f, x), 0) /\ eval(f, x) = sum_of(terms_of(f, x))
  BY TermsType
<1>2. PICK T : LoopSum(T, terms_of(f, x), 0) /\ eval(f, x) = T[0]
  BY <1>1, SumIsLoop
<1>3. Same(eval(f, x), 0)
  BY <1>2 DEF LoopSum
<1>4. eval(f, x) \in Field
  BY EvalType
<1> QED BY <1>3, <1>4, FieldNumbers, SameInField

\* Values of the polynomial without its first coefficients are what Horner's rule asks for.
LEMMA HornerExists ==
  ASSUME NEW n \in Nat, NEW f \in Poly(n), NEW x \in Int
  PROVE  /\ Horner([j \in 0 .. n |-> eval(shifted(f, n, j), x)], f, n, x)
         /\ shifted(f, n, 0) = f
         /\ \A j \in 0 .. n : eval(shifted(f, n, j), x) \in Field /\ eval(shifted(f, n, j), x) \in Int
<1> DEFINE H == [j \in 0 .. n |-> eval(shifted(f, n, j), x)]
<1>1. ASSUME NEW j \in 0 .. n PROVE eval(shifted(f, n, j), x) \in Field /\ eval(shifted(f, n, j), x) \in Int
  BY ShiftedType, EvalType, FieldNumbers
<1>2. eval(shifted(f, n, n), x) = 0
  <2>1. n \in 0 .. n /\ n - n = 0
    OBVIOUS
  <2>2. shifted(f, n, n) \in Poly(0)
    BY <2>1, ShiftedType
  <2> QED BY <2>2, EvalOfNone
<1>3. Horner(H, f, n, x)
  <2>1. H \in [0 .. n -> Int]
    BY <1>1
  <2>2. H[n] = 0 /\ Same(0, 0)
    BY <1>2, SameReflexive
  <2>3. ASSUME NEW j \in 0 .. n - 1 PROVE Same(H[j], f[j + 1] + x * H[j + 1])
    <3>1. H[j] = eval(shifted(f, n, j), x) /\ H[j + 1] = eval(shifted(f, n, j + 1), x)
      OBVIOUS
    <3> QED BY <3>1, EvalOfShifted
  <2> HIDE DEF H
  <2> QED BY <2>1, <2>2, <2>3 DEF Horner
<1>4. shifted(f, n, 0) = f
  <2>1. DOMAIN f = 1 .. n /\ f = [i \in 1 .. n |-> f[i]]
    BY DEF Poly
  <2>2. shifted(f, n, 0) = [i \in 1 .. n |-> f[i]]
    BY DEF shifted
  <2> QED BY <2>1, <2>2
<1> QED BY <1>1, <1>3, <1>4

\* Horner's rule gives the value.
LEMMA HornerIs ==
  ASSUME NEW n \in Nat, NEW f \in Poly(n), NEW x \in Int, NEW T, Horner(T, f, n, x)
  PROVE  Same(T[0], eval(f, x))
<1> DEFINE H == [j \in 0 .. n |-> eval(shifted(f, n, j), x)]
<1>1. Horner(H, f, n, x) /\ H[0] = eval(f, x)
  BY HornerExists
<1> HIDE DEF H
<1> DEFINE I == { i \in 0 .. n : Same(T[n - i], H[n - i]) }
<1>2. \A j \in 0 .. n : T[j] \in Int /\ H[j] \in Int
  BY <1>1 DEF Horner
<1>3. 0 \in I
  <2>1. n \in 0 .. n /\ n - 0 = n
    OBVIOUS
  <2>2. Same(T[n], 0) /\ Same(H[n], 0)
    BY <1>1 DEF Horner
  <2>3. Same(T[n], H[n])
    BY <1>2, <2>1, <2>2, SameSymmetric, SameTransitive
  <2> QED BY <2>1, <2>3
<1>4. ASSUME NEW i \in 0 .. n - 1, i \in I PROVE i + 1 \in I
  <2> PICK j \in 0 .. n - 1 : j = n - (i + 1) /\ j + 1 = n - i /\ i + 1 \in 0 .. n
    OBVIOUS
  <2> PICK s \in Int, t \in Int, u \in Int, v \in Int, c \in Int :
        s = T[j] /\ t = T[j + 1] /\ u = H[j] /\ v = H[j + 1] /\ c = f[j + 1]
    <3>1. j \in 0 .. n /\ j + 1 \in 0 .. n /\ j + 1 \in 1 .. n
      OBVIOUS
    <3> QED BY <1>2, <3>1, PolyIsSequence
  <2>1. Same(s, c + x * t) /\ Same(u, c + x * v) /\ Same(t, v)
    BY <1>1, <1>4 DEF Horner
  <2> PICK p \in Int, q \in Int : p = x * t /\ q = x * v
    OBVIOUS
  <2>2. Same(p, q)
    BY <2>1, SameTimes, SameReflexive
  <2>3. Same(c + p, c + q)
    BY <2>2, SameAdd, SameReflexive
  <2>4. c + p \in Int /\ c + q \in Int
    OBVIOUS
  <2>5. Same(s, c + q)
    BY <2>1, <2>3, <2>4, SameTransitive
  <2>6. Same(c + q, u)
    BY <2>1, <2>4, SameSymmetric
  <2>7. Same(s, u)
    BY <2>4, <2>5, <2>6, SameTransitive
  <2> QED BY <2>7
<1>5. n \in I
  <2>1. 0 .. n \subseteq I
    <3> HIDE DEF I
    <3> QED BY <1>3, <1>4, BoundedInduction
  <2> QED BY <2>1
<1>6. n - n = 0
  OBVIOUS
<1> QED BY <1>1, <1>5, <1>6

\* A polynomial of at least one coefficient, and the rest of it.
LEMMA EvalHead ==
  ASSUME NEW n \in Nat, NEW f \in Poly(n + 1), NEW x \in Int
  PROVE  /\ shifted(f, n + 1, 1) \in Poly(n) /\ f[1] \in Int
         /\ Same(eval(f, x), f[1] + x * eval(shifted(f, n + 1, 1), x))
<1>1. /\ n + 1 \in Nat /\ 0 \in 0 .. (n + 1) - 1 /\ 0 + 1 = 1
      /\ 1 \in 0 .. n + 1 /\ (n + 1) - 1 = n /\ 1 \in 1 .. n + 1
  OBVIOUS
<1>2. shifted(f, n + 1, 0) = f
  BY <1>1, HornerExists
<1>3. Same(eval(shifted(f, n + 1, 0), x), f[1] + x * eval(shifted(f, n + 1, 1), x))
  BY <1>1, EvalOfShifted
<1>4. shifted(f, n + 1, 1) \in Poly((n + 1) - 1)
  BY <1>1, ShiftedType
<1> QED BY <1>1, <1>2, <1>3, <1>4, PolyIsSequence

(***************************************************************************)
(* The quotient by x - r: the step of the division, with the multiples of  *)
(* the modulus named.                                                      *)
(***************************************************************************)
LEMMA QuotientIdentity ==
  \A m, x, r, h, p, q, i, j, k, l \in Int :
    (h + x * (p + (x - r) * q + k * m) + i * m) - ((h + r * p + j * m) + (x - r) * (p + x * q + l * m))
      = (x * k + i - j - (x - r) * l) * m
OBVIOUS

\* The values of f and of its rest in x and in r, and of their quotients s and q in x.
Divides(x, r, h, fx, fr, px, p, q, s) ==
  /\ Same(fx, h + x * px) /\ Same(fr, h + r * p)
  /\ Same(px, p + (x - r) * q) /\ Same(s, p + x * q)

LEMMA QuotientStep ==
  ASSUME NEW x \in Int, NEW r \in Int, NEW h \in Int, NEW fx \in Int, NEW fr \in Int,
         NEW px \in Int, NEW p \in Int, NEW q \in Int, NEW s \in Int,
         Divides(x, r, h, fx, fr, px, p, q, s)
  PROVE  Same(fx, fr + (x - r) * s)
<1> PICK m \in Int : m = BLS_MODULUS
  BY FieldAssumption
<1>1. PICK i \in Int : fx - (h + x * px) = i * m
  BY DEF Divides, Same
<1>2. PICK j \in Int : fr - (h + r * p) = j * m
  BY DEF Divides, Same
<1>3. PICK k \in Int : px - (p + (x - r) * q) = k * m
  BY DEF Divides, Same
<1>4. PICK l \in Int : s - (p + x * q) = l * m
  BY DEF Divides, Same
<1>5. fr = h + r * p + j * m /\ px = p + (x - r) * q + k * m /\ s = p + x * q + l * m
  BY <1>2, <1>3, <1>4
<1>6. fx = h + x * px + i * m
  BY <1>1
<1>7. fx = h + x * (p + (x - r) * q + k * m) + i * m
  BY <1>5, <1>6, Zenon
<1> PICK w \in Int : w = x * k + i - j - (x - r) * l
  OBVIOUS
<1>8. (h + x * (p + (x - r) * q + k * m) + i * m)
        - ((h + r * p + j * m) + (x - r) * (p + x * q + l * m)) = w * m
  BY QuotientIdentity
<1>9. fx - (fr + (x - r) * s) = w * m
  BY <1>5, <1>7, <1>8, Zenon
<1> QED BY <1>9 DEF Same

---------------------------------------------------------------------------
(* Polynomials that agree in enough points are the same.                   *)

\* q is the quotient of f by x - r.
Quotient(q, f, r) == \A x \in Int : Same(eval(f, x), eval(f, r) + (x - r) * eval(q, x))

\* Every polynomial with a coefficient has quotients that are shorter by one.
LEMMA QuotientExists ==
  ASSUME NEW N \in Nat, NEW r \in Field
  PROVE  \A f \in Poly(N + 1) : \E q \in Poly(N) : Quotient(q, f, r)
<1> r \in Int
  BY FieldNumbers
<1> DEFINE I == { n \in 0 .. N : \A f \in Poly(n + 1) : \E q \in Poly(n) : Quotient(q, f, r) }
<1>1. 0 \in I
  <2> SUFFICES ASSUME NEW f \in Poly(0 + 1) PROVE \E q \in Poly(0) : Quotient(q, f, r)
    OBVIOUS
  <2> PICK q \in Poly(0) : q = shifted(f, 0 + 1, 1)
    BY EvalHead
  <2>1. ASSUME NEW x \in Int PROVE Same(eval(f, x), eval(f, r) + (x - r) * eval(q, x))
    <3>1. f[1] \in Int /\ Same(eval(f, x), f[1] + x * eval(q, x)) /\ Same(eval(f, r), f[1] + r * eval(q, r))
      BY EvalHead
    <3>2. eval(q, x) = 0 /\ eval(q, r) = 0 /\ x * 0 = 0 /\ r * 0 = 0 /\ (x - r) * 0 = 0
      BY EvalOfNone
    <3> PICK u \in Int, v \in Int, c \in Int :
          u = eval(f, x) /\ v = eval(f, r) /\ c = f[1] /\ c + 0 = c /\ v + 0 = v
      <4>1. eval(f, x) \in Int /\ eval(f, r) \in Int
        <5>1. 0 + 1 \in Nat
          OBVIOUS
        <5> QED BY <5>1, EvalType, FieldNumbers
      <4> QED BY <3>1, <4>1
    <3>3. Same(u, c) /\ Same(v, c)
      BY <3>1, <3>2
    <3>4. Same(u, v)
      BY <3>3, SameSymmetric, SameTransitive
    <3> QED BY <3>2, <3>4
  <2> QED BY <2>1 DEF Quotient
<1>2. ASSUME NEW n \in 0 .. N - 1, n \in I PROVE n + 1 \in I
  <2> SUFFICES ASSUME NEW f \in Poly((n + 1) + 1) PROVE \E q \in Poly(n + 1) : Quotient(q, f, r)
    OBVIOUS
  <2>0. n \in Nat /\ n + 1 \in Nat
    OBVIOUS
  <2> PICK g \in Poly(n + 1) : g = shifted(f, (n + 1) + 1, 1)
    BY <2>0, EvalHead
  <2> PICK p \in Poly(n) : Quotient(p, g, r)
    BY <1>2
  <2>1. eval(g, r) \in Field
    BY <2>0, EvalType
  <2> DEFINE q == [i \in 1 .. n + 1 |-> IF i = 1 THEN eval(g, r) ELSE p[i - 1]]
  <2>2. q \in Poly(n + 1)
    <3> SUFFICES ASSUME NEW i \in 1 .. n + 1, i # 1 PROVE p[i - 1] \in Field
      BY <2>1 DEF Poly
    <3>1. i - 1 \in 1 .. n
      OBVIOUS
    <3> QED BY <3>1 DEF Poly
  <2>3. shifted(q, n + 1, 1) = p /\ q[1] = eval(g, r)
    <3>1. DOMAIN p = 1 .. n /\ p = [i \in 1 .. n |-> p[i]]
      BY DEF Poly
    <3>2. (n + 1) - 1 = n
      OBVIOUS
    <3>3. \A i \in 1 .. n : q[i + 1] = p[i]
      <4> SUFFICES ASSUME NEW i \in 1 .. n PROVE q[i + 1] = p[i]
        OBVIOUS
      <4>1. i + 1 \in 1 .. n + 1 /\ i + 1 # 1 /\ (i + 1) - 1 = i
        OBVIOUS
      <4> QED BY <4>1
    <3>4. 1 \in 1 .. n + 1
      OBVIOUS
    <3>5. shifted(q, n + 1, 1) = [i \in 1 .. n |-> q[i + 1]]
      <4> HIDE DEF q
      <4> QED BY <3>2 DEF shifted
    <3> QED BY <3>1, <3>3, <3>4, <3>5
  <2> HIDE DEF q
  <2>4. ASSUME NEW x \in Int PROVE Same(eval(f, x), eval(f, r) + (x - r) * eval(q, x))
    <3>1. f[1] \in Int /\ Same(eval(f, x), f[1] + x * eval(g, x)) /\ Same(eval(f, r), f[1] + r * eval(g, r))
      BY <2>0, EvalHead
    <3>2. Same(eval(g, x), eval(g, r) + (x - r) * eval(p, x))
      BY DEF Quotient
    <3>3. Same(eval(q, x), eval(g, r) + x * eval(p, x))
      <4>1. Same(eval(q, x), q[1] + x * eval(shifted(q, n + 1, 1), x))
        BY <2>0, <2>2, EvalHead
      <4> QED BY <2>3, <4>1, Zenon
    <3>4. eval(f, x) \in Int /\ eval(f, r) \in Int /\ eval(g, x) \in Int /\ eval(g, r) \in Int
          /\ eval(p, x) \in Int /\ eval(q, x) \in Int
      <4>1. (n + 1) + 1 \in Nat
        OBVIOUS
      <4> QED BY <2>0, <2>2, <4>1, EvalType, FieldNumbers
    <3> PICK h \in Int, fx \in Int, fr \in Int, gx \in Int, gr \in Int, px \in Int, qx \in Int :
          /\ h = f[1] /\ fx = eval(f, x) /\ fr = eval(f, r) /\ gx = eval(g, x) /\ gr = eval(g, r)
          /\ px = eval(p, x) /\ qx = eval(q, x)
      BY <3>1, <3>4
    <3>5. Divides(x, r, h, fx, fr, gx, gr, px, qx)
      <4>1. Same(fx, h + x * gx) /\ Same(fr, h + r * gr)
        BY <3>1
      <4>2. Same(gx, gr + (x - r) * px)
        BY <3>2
      <4>3. Same(qx, gr + x * px)
        BY <3>3
      <4> QED BY <4>1, <4>2, <4>3 DEF Divides
    <3>6. Same(fx, fr + (x - r) * qx)
      BY <3>5, QuotientStep
    <3> QED BY <3>6
  <2> QED BY <2>2, <2>4 DEF Quotient
<1>3. N \in I
  <2>1. 0 .. N \subseteq I
    <3> HIDE DEF I
    <3> QED BY <1>1, <1>2, BoundedInduction
  <2> QED BY <2>1
<1> QED BY <1>3

\* Polynomials that agree in r have quotients that agree where the polynomials do.
LEMMA AgreeQuotients ==
  ASSUME NEW f, NEW g, NEW r \in Field, NEW p, NEW q, Quotient(p, f, r), Quotient(q, g, r), NEW x \in Field,
         eval(f, r) \in Int, eval(f, x) \in Int, eval(g, r) \in Int, eval(g, x) \in Int,
         eval(p, x) \in Int, eval(q, x) \in Int, Same(eval(f, r), eval(g, r))
  PROVE  /\ x # r /\ Same(eval(f, x), eval(g, x)) => Same(eval(p, x), eval(q, x))
         /\ Same(eval(p, x), eval(q, x)) => Same(eval(f, x), eval(g, x))
<1> PICK a \in Int, b \in Int, c \in Int, d \in Int, s \in Int, t \in Int :
      /\ a = eval(f, r) /\ b = eval(g, r) /\ c = eval(f, x) /\ d = eval(g, x)
      /\ s = eval(p, x) /\ t = eval(q, x)
  OBVIOUS
<1> PICK e \in Int : e = x - r
  BY FieldNumbers
<1>1. x \in Int /\ r \in Int /\ Same(a, b) /\ Same(c, a + e * s) /\ Same(d, b + e * t)
  BY FieldNumbers DEF Quotient
<1> PICK es \in Int, et \in Int : es = e * s /\ et = e * t /\ es = s * e /\ et = t * e
  OBVIOUS
<1>2. ASSUME Same(s, t) PROVE Same(c, d)
  <2>1. Same(es, et)
    BY <1>2, SameProduct
  <2>2. Same(a + es, b + et) /\ a + es \in Int /\ b + et \in Int
    <3>1. Same(a, b)
      BY <1>1
    <3>2. Same(a + es, b + et)
      BY <2>1, <3>1, SameAdd
    <3> QED BY <3>2
  <2>3. Same(c, b + et) /\ Same(b + et, d)
    BY <1>1, <2>2, SameTransitive, SameSymmetric
  <2> QED BY <2>2, <2>3, SameTransitive
<1>3. ASSUME x # r, Same(c, d) PROVE Same(s, t)
  <2>1. a + es \in Int /\ b + et \in Int
    OBVIOUS
  <2>2. Same(a + es, c) /\ Same(c, b + et)
    BY <1>1, <1>3, <2>1, SameSymmetric, SameTransitive
  <2>3. Same(a + es, b + et)
    BY <2>1, <2>2, SameTransitive
  <2>4. Same(a + et, b + et)
    BY <1>1, SameSum
  <2>5. Same(a + es, a + et)
    <3>1. a + et \in Int
      OBVIOUS
    <3>2. Same(b + et, a + et)
      BY <2>1, <2>4, <3>1, SameSymmetric
    <3> QED BY <2>1, <2>3, <3>1, <3>2, SameTransitive
  <2>6. Same(es, et)
    <3>1. a + es = es + a /\ a + et = et + a
      OBVIOUS
    <3> QED BY <2>5, <3>1, SameSum
  <2>7. Same((s - t) * e, 0)
    <3>1. PICK k \in Int : es - et = k * BLS_MODULUS
      BY <2>6 DEF Same
    <3>2. (s - t) * e = es - et
      OBVIOUS
    <3> PICK w \in Int : w = (s - t) * e /\ w = es - et /\ w - 0 = w
      BY <3>2
    <3>3. w - 0 = k * BLS_MODULUS
      BY <3>1
    <3> QED BY <3>3 DEF Same
  <2> PICK z \in Field \ {0} : z = mod(e)
    <3>1. mod(e) \in Field
      BY ModIsSame
    <3>2. ASSUME mod(e) = 0 PROVE FALSE
      <4>1. Same(e, 0)
        BY <3>2, ModIsSame
      <4>2. Same(x, r)
        <5>1. PICK k \in Int : e - 0 = k * BLS_MODULUS
          BY <4>1 DEF Same
        <5>2. e - 0 = x - r
          BY <1>1
        <5> QED BY <5>1, <5>2 DEF Same
      <4> QED BY <1>3, <4>2, SameInField
    <3> QED BY <3>1, <3>2
  <2> PICK y \in Int, w \in Int : y = s - t /\ w = y * e /\ Same(w, 0)
    <3>1. s - t \in Int /\ (s - t) * e \in Int
      OBVIOUS
    <3> QED BY <2>7, <3>1
  <2>8. Same(z, e) /\ z \in Int
    BY ModIsSame
  <2>9. Same(y * z, w)
    BY <2>8, SameTimes, SameReflexive
  <2>10. Same(y * z, 0)
    <3>1. y * z \in Int
      BY <2>8
    <3> PICK o \in Int : o = 0
      OBVIOUS
    <3>2. Same(w, o)
      OBVIOUS
    <3>3. Same(y * z, o)
      BY <2>9, <3>1, <3>2, SameTransitive
    <3> QED BY <3>3
  <2>11. Same(y, 0)
    BY <2>10, NoZeroDivisors
  <2>12. PICK k \in Int : y - 0 = k * BLS_MODULUS
    BY <2>11 DEF Same
  <2>13. y - 0 = s - t
    OBVIOUS
  <2> QED BY <2>12, <2>13 DEF Same
<1> QED BY <1>2, <1>3

\* Polynomials that have the same values on D.
AgreeOn(f, g, D) == \A x \in D : Same(eval(f, x), eval(g, x))

\* Two polynomials of n coefficients that agree in n points agree everywhere.
LEMMA Agree ==
  ASSUME NEW N \in Nat
  PROVE  \A f, g \in Poly(N) : \A D \in SUBSET Field :
           IsFiniteSet(D) /\ Cardinality(D) = N /\ AgreeOn(f, g, D) => AgreeOn(f, g, Field)
<1> DEFINE I == { n \in 0 .. N : \A f, g \in Poly(n) : \A D \in SUBSET Field :
                   IsFiniteSet(D) /\ Cardinality(D) = n /\ AgreeOn(f, g, D) => AgreeOn(f, g, Field) }
<1>1. 0 \in I
  <2> SUFFICES ASSUME NEW f \in Poly(0), NEW g \in Poly(0) PROVE AgreeOn(f, g, Field)
    OBVIOUS
  <2>1. \A x \in Field : eval(f, x) = 0 /\ eval(g, x) = 0
    BY EvalOfNone, FieldNumbers
  <2> QED BY <2>1, SameReflexive DEF AgreeOn
<1>2. ASSUME NEW n \in 0 .. N - 1, n \in I PROVE n + 1 \in I
  <2> SUFFICES ASSUME NEW f \in Poly(n + 1), NEW g \in Poly(n + 1), NEW D \in SUBSET Field,
                      IsFiniteSet(D), Cardinality(D) = n + 1, AgreeOn(f, g, D)
               PROVE  AgreeOn(f, g, Field)
    OBVIOUS
  <2>0. n \in Nat /\ n + 1 \in Nat /\ n + 1 # 0 /\ (n + 1) - 1 = n
    OBVIOUS
  <2> PICK r \in D : TRUE
    BY <2>0, FS_EmptySet
  <2> PICK p \in Poly(n), q \in Poly(n) : Quotient(p, f, r) /\ Quotient(q, g, r)
    BY <2>0, QuotientExists
  <2> PICK E : E = D \ {r}
    OBVIOUS
  <2>1. IsFiniteSet(E) /\ Cardinality(E) = n
    BY <2>0, FS_RemoveElement
  <2>2. ASSUME NEW x \in Field
        PROVE  /\ eval(f, x) \in Int /\ eval(g, x) \in Int /\ eval(p, x) \in Int /\ eval(q, x) \in Int
    BY <2>0, EvalType, FieldNumbers
  <2>3. Same(eval(f, r), eval(g, r))
    BY DEF AgreeOn
  <2>4. AgreeOn(p, q, E)
    <3> SUFFICES ASSUME NEW x \in E PROVE Same(eval(p, x), eval(q, x))
      BY DEF AgreeOn
    <3>1. x \in Field /\ x # r /\ Same(eval(f, x), eval(g, x))
      BY DEF AgreeOn
    <3> QED BY <2>2, <2>3, <3>1, AgreeQuotients
  <2>5. AgreeOn(p, q, Field)
    BY <1>2, <2>1, <2>4
  <2> SUFFICES ASSUME NEW x \in Field PROVE Same(eval(f, x), eval(g, x))
    BY DEF AgreeOn
  <2>6. Same(eval(p, x), eval(q, x))
    BY <2>5 DEF AgreeOn
  <2> QED BY <2>2, <2>3, <2>6, AgreeQuotients
<1>3. N \in I
  <2>1. 0 .. N \subseteq I
    <3> HIDE DEF I
    <3> QED BY <1>1, <1>2, BoundedInduction
  <2> QED BY <2>1
<1> QED BY <1>3

---------------------------------------------------------------------------
(* Sums and products of polynomials.                                       *)

\* What is added to a multiple of the modulus, by name.
LEMMA SameBy ==
  ASSUME NEW a \in Int, NEW b \in Int, NEW k \in Int, a = b + k * BLS_MODULUS
  PROVE  Same(a, b)
<1>1. a - b = k * BLS_MODULUS
  <2> PICK t \in Int : t = k * BLS_MODULUS
    BY FieldAssumption
  <2>1. a = b + t
    OBVIOUS
  <2>2. a - b = t
    BY <2>1
  <2> QED BY <2>2
<1> QED BY <1>1 DEF Same

LEMMA SameIs ==
  ASSUME NEW a \in Int, NEW b \in Int, Same(a, b)
  PROVE  \E k \in Int : a = b + k * BLS_MODULUS
<1>1. PICK k \in Int : a - b = k * BLS_MODULUS
  BY DEF Same
<1>2. a = b + k * BLS_MODULUS
  <2> PICK t \in Int : t = k * BLS_MODULUS
    BY FieldAssumption
  <2>1. a - b = t
    BY <1>1
  <2>2. a = b + t
    BY <2>1
  <2> QED BY <2>2
<1> QED BY <1>2

\* One coefficient of a sum, with the multiples of the modulus named.
LEMMA PlusIdentity ==
  \A m, x, a, b, u, v, i, j, k \in Int :
    (a + x * u + i * m) + (b + x * v + j * m) = ((a + b + k * m) + x * (u + v)) + (i + j - k) * m
OBVIOUS

LEMMA PlusStep ==
  ASSUME NEW x \in Int, NEW a \in Int, NEW b \in Int, NEW c \in Int, NEW s \in Int, NEW t \in Int,
         NEW u \in Int, NEW v \in Int,
         Same(s, a + x * u), Same(t, b + x * v), Same(c, a + b)
  PROVE  Same(s + t, c + x * (u + v))
<1> PICK m \in Int : m = BLS_MODULUS
  BY FieldAssumption
<1>0. a + x * u \in Int /\ b + x * v \in Int /\ a + b \in Int
  OBVIOUS
<1>1. PICK i \in Int : s = a + x * u + i * m
  BY <1>0, SameIs
<1>2. PICK j \in Int : t = b + x * v + j * m
  BY <1>0, SameIs
<1>3. PICK k \in Int : c = a + b + k * m
  BY <1>0, SameIs
<1>4. s + t = (c + x * (u + v)) + (i + j - k) * m
  <2>1. (a + x * u + i * m) + (b + x * v + j * m) = ((a + b + k * m) + x * (u + v)) + (i + j - k) * m
    BY PlusIdentity
  <2> QED BY <1>1, <1>2, <1>3, <2>1, Zenon
<1>5. i + j - k \in Int /\ s + t \in Int /\ c + x * (u + v) \in Int
  OBVIOUS
<1> QED BY <1>4, <1>5, SameBy

\* The value of a sum is the sum of the values.
LEMMA EvalPlus ==
  ASSUME NEW n \in Nat, NEW f \in Poly(n), NEW g \in Poly(n), NEW x \in Int
  PROVE  plus(f, g) \in Poly(n) /\ Same(eval(plus(f, g), x), eval(f, x) + eval(g, x))
<1> PICK h \in Poly(n) : h = plus(f, g)
  BY PlusType
<1>1. ASSUME NEW i \in 1 .. n
      PROVE  f[i] \in Int /\ g[i] \in Int /\ h[i] \in Int /\ Same(h[i], f[i] + g[i])
  <2>1. DOMAIN f = 1 .. n /\ DOMAIN g = 1 .. n /\ Len(f) = n /\ Len(g) = n
        /\ f[i] \in Int /\ g[i] \in Int /\ h[i] \in Int
    BY PolyIsSequence
  <2>2. h[i] = mod(f[i] + g[i])
    BY <2>1 DEF plus, longest, coefficient
  <2>3. f[i] + g[i] \in Int
    BY <2>1
  <2> QED BY <2>1, <2>2, <2>3, ModIsSame
<1> DEFINE F == [j \in 0 .. n |-> eval(shifted(f, n, j), x)]
           G == [j \in 0 .. n |-> eval(shifted(g, n, j), x)]
<1>2. Horner(F, f, n, x) /\ F[0] = eval(f, x) /\ Horner(G, g, n, x) /\ G[0] = eval(g, x)
  <2>1. Horner(F, f, n, x) /\ shifted(f, n, 0) = f
    BY HornerExists
  <2>2. Horner(G, g, n, x) /\ shifted(g, n, 0) = g
    BY HornerExists
  <2>3. 0 \in 0 .. n
    OBVIOUS
  <2> QED BY <2>1, <2>2, <2>3
<1> HIDE DEF F, G
<1> DEFINE T == [j \in 0 .. n |-> F[j] + G[j]]
<1>3. \A j \in 0 .. n : F[j] \in Int /\ G[j] \in Int
  BY <1>2 DEF Horner
<1>4. T \in [0 .. n -> Int]
  BY <1>3
<1>5. Same(T[n], 0)
  <2> PICK a \in Int, b \in Int, z \in Int : a = F[n] /\ b = G[n] /\ z = 0 /\ z + z = 0
    <3>1. n \in 0 .. n
      OBVIOUS
    <3> QED BY <1>3, <3>1
  <2>1. Same(a, z) /\ Same(b, z)
    BY <1>2 DEF Horner
  <2>2. Same(a + b, z + z)
    BY <2>1, SameAdd
  <2>3. T[n] = a + b
    OBVIOUS
  <2> QED BY <2>2, <2>3
<1>6. ASSUME NEW j \in 0 .. n - 1 PROVE Same(T[j], h[j + 1] + x * T[j + 1])
  <2> PICK i \in 1 .. n : i = j + 1 /\ i \in 0 .. n /\ j \in 0 .. n
    OBVIOUS
  <2> PICK a \in Int, b \in Int, c \in Int, s \in Int, t \in Int, u \in Int, v \in Int :
        /\ a = f[i] /\ b = g[i] /\ c = h[i] /\ s = F[j] /\ t = G[j] /\ u = F[i] /\ v = G[i]
    BY <1>1, <1>3
  <2>1. Same(s, a + x * u) /\ Same(t, b + x * v) /\ Same(c, a + b)
    BY <1>1, <1>2 DEF Horner
  <2>2. Same(s + t, c + x * (u + v))
    BY <2>1, PlusStep
  <2>3. T[j] = s + t /\ T[i] = u + v
    OBVIOUS
  <2> HIDE DEF T
  <2> QED BY <2>2, <2>3
<1>7. Horner(T, h, n, x)
  <2> HIDE DEF T
  <2> QED BY <1>4, <1>5, <1>6 DEF Horner
<1>8. T[0] = eval(f, x) + eval(g, x)
  BY <1>2
<1>9. Same(T[0], eval(h, x))
  <2> HIDE DEF T
  <2> QED BY <1>7, HornerIs
<1>10. eval(h, x) \in Int /\ T[0] \in Int
  <2>1. T[0] \in Int
    BY <1>3
  <2> QED BY <2>1, EvalType, FieldNumbers
<1> QED BY <1>8, <1>9, <1>10, SameSymmetric

---------------------------------------------------------------------------
\* A coefficient of the product with a polynomial of degree 1.
LEMMA TimesCoefficient ==
  ASSUME NEW n \in Nat, NEW f \in Poly(n), NEW g \in Poly(2), NEW k \in 1 .. n + 1
  PROVE  /\ times(f, g) \in Poly(n + 1)
         /\ Same(times(f, g)[k], g[1] * coefficient(f, k) + g[2] * coefficient(f, k - 1))
<1>1. DOMAIN f = 1 .. n /\ Len(f) = n /\ Len(g) = 2 /\ DOMAIN g = 1 .. 2 /\ g[1] \in Int /\ g[2] \in Int
  <2>1. DOMAIN f = 1 .. n /\ Len(f) = n
    BY PolyIsSequence
  <2>2. 2 \in Nat /\ 1 \in 1 .. 2 /\ 2 \in 1 .. 2
    OBVIOUS
  <2>3. Len(g) = 2 /\ DOMAIN g = 1 .. 2 /\ g[1] \in Int /\ g[2] \in Int
    BY <2>2, PolyIsSequence
  <2> QED BY <2>1, <2>3
<1>2. times(f, g) \in Poly(n + 1)
  <2>1. n + 2 >= 1 /\ n + 2 - 1 = n + 1
    OBVIOUS
  <2> QED BY <2>1, TimesType
<1> DEFINE t == [i \in DOMAIN f |-> f[i] * coefficient(g, k + 1 - i)]
<1>3. times(f, g)[k] = sum_of(t)
  <2>1. k \in 1 .. n + 2 - 1
    OBVIOUS
  <2> HIDE DEF t
  <2> QED BY <1>1, <2>1 DEF times, t
<1> PICK A \in Int, B \in Int : A = g[1] * coefficient(f, k) /\ B = g[2] * coefficient(f, k - 1)
  <2>1. coefficient(f, k) \in Int /\ coefficient(f, k - 1) \in Int
    <3>1. k \in Int /\ k - 1 \in Int
      OBVIOUS
    <3> QED BY <3>1, PolyIsSequence
  <2> QED BY <1>1, <2>1
<1>4. k = 1 => B = 0
  <2>1. k = 1 => coefficient(f, k - 1) = 0
    BY <1>1 DEF coefficient
  <2> QED BY <1>1, <2>1
<1>5. k = n + 1 => A = 0
  <2>1. k = n + 1 => coefficient(f, k) = 0
    BY <1>1 DEF coefficient
  <2> QED BY <1>1, <2>1
<1>6. ASSUME NEW i \in 1 .. n
      PROVE  t[i] = IF i = k THEN A ELSE IF i = k - 1 THEN B ELSE 0
  <2>1. f[i] \in Int /\ coefficient(f, i) = f[i]
    BY <1>1, PolyIsSequence DEF coefficient
  <2>2. CASE i = k
    <3>1. k + 1 - i = 1
      BY <2>2
    <3>2. coefficient(g, 1) = g[1]
      BY <1>1 DEF coefficient
    <3>3. t[i] = f[i] * g[1]
      BY <1>1, <3>1, <3>2
    <3>4. A = g[1] * f[i]
      BY <2>1, <2>2
    <3>5. f[i] * g[1] = g[1] * f[i]
      BY <1>1, <2>1
    <3> HIDE DEF t
    <3> QED BY <2>2, <3>3, <3>4, <3>5
  <2>3. CASE i = k - 1
    <3>1. k + 1 - i = 2 /\ i # k
      BY <2>3
    <3>2. coefficient(g, 2) = g[2]
      BY <1>1 DEF coefficient
    <3>3. t[i] = f[i] * g[2]
      BY <1>1, <3>1, <3>2
    <3>4. B = g[2] * f[i]
      BY <2>1, <2>3
    <3>5. f[i] * g[2] = g[2] * f[i]
      BY <1>1, <2>1
    <3> HIDE DEF t
    <3> QED BY <2>3, <3>1, <3>3, <3>4, <3>5
  <2>4. CASE i # k /\ i # k - 1
    <3>1. k + 1 - i \notin 1 .. 2
      BY <2>4
    <3>2. coefficient(g, k + 1 - i) = 0
      BY <1>1, <3>1 DEF coefficient
    <3>3. t[i] = f[i] * 0
      BY <1>1, <3>2
    <3>4. f[i] * 0 = 0
      BY <2>1
    <3> HIDE DEF t
    <3> QED BY <2>4, <3>3, <3>4
  <2> HIDE DEF t
  <2> QED BY <2>2, <2>3, <2>4
<1>7. DOMAIN t = 1 .. n
  BY <1>1
<1> HIDE DEF t
<1> DEFINE T == [m \in 0 .. n |-> (IF k =< m THEN A ELSE 0) + (IF k - 1 =< m THEN B ELSE 0)]
<1>8. T \in [0 .. n -> Int] /\ T[0] = 0 /\ T[n] = A + B
  <2>1. T[0] = 0
    BY <1>4
  <2>2. T[n] = A + B
    BY <1>5
  <2> QED BY <2>1, <2>2
<1>9. ASSUME NEW m \in 0 .. n - 1 PROVE T[m + 1] = T[m] + t[m + 1] /\ T[m + 1] \in Int
  <2>1. t[m + 1] = IF m + 1 = k THEN A ELSE IF m + 1 = k - 1 THEN B ELSE 0
    BY <1>6
  <2> QED BY <1>4, <2>1
<1> HIDE DEF T
<1>10. LoopSum(T, t, n)
  BY <1>8, <1>9, SameReflexive DEF LoopSum
<1>11. Ints(t, n)
  BY <1>6, <1>7 DEF Ints
<1>12. Same(sum_of(t), T[n])
  BY <1>10, <1>11, SumIs
<1> QED BY <1>2, <1>3, <1>8, <1>12

\* One coefficient of a product, with the multiples of the modulus named.
LEMMA TimesIdentity ==
  \A m, x, a, b, h, o, u, i, k \in Int :
    (a + x * b) * (h + x * u + i * m) + b * o
      = ((a * h + b * o + k * m) + x * ((a + x * b) * u + b * h)) + ((a + x * b) * i - k) * m
OBVIOUS

LEMMA TimesStep ==
  ASSUME NEW x \in Int, NEW a \in Int, NEW b \in Int, NEW c \in Int, NEW h \in Int, NEW o \in Int,
         NEW u \in Int, NEW s \in Int, Same(s, h + x * u), Same(c, a * h + b * o)
  PROVE  Same((a + x * b) * s + b * o, c + x * ((a + x * b) * u + b * h))
<1> PICK m \in Int : m = BLS_MODULUS
  BY FieldAssumption
<1>0. h + x * u \in Int /\ a * h + b * o \in Int
  OBVIOUS
<1>1. PICK i \in Int : s = h + x * u + i * m
  BY <1>0, SameIs
<1>2. PICK k \in Int : c = a * h + b * o + k * m
  BY <1>0, SameIs
<1>3. (a + x * b) * s + b * o = (c + x * ((a + x * b) * u + b * h)) + ((a + x * b) * i - k) * m
  <2>1. (a + x * b) * (h + x * u + i * m) + b * o
          = ((a * h + b * o + k * m) + x * ((a + x * b) * u + b * h)) + ((a + x * b) * i - k) * m
    BY TimesIdentity
  <2> QED BY <1>1, <1>2, <2>1, Zenon
<1>4. /\ (a + x * b) * i - k \in Int /\ (a + x * b) * s + b * o \in Int
      /\ c + x * ((a + x * b) * u + b * h) \in Int
  OBVIOUS
<1> QED BY <1>3, <1>4, SameBy

\* Polynomials of one coefficient and of two.
LEMMA EvalOfConstant ==
  ASSUME NEW g \in Poly(1), NEW x \in Int
  PROVE  eval(g, x) = g[1]
<1>1. g \in Poly(0 + 1) /\ g[1] \in Field
  BY DEF Poly
<1>2. shifted(g, 0 + 1, 1) \in Poly(0) /\ Same(eval(g, x), g[1] + x * eval(shifted(g, 0 + 1, 1), x))
  BY <1>1, EvalHead
<1>3. g[1] + x * 0 = g[1]
  BY <1>1, FieldNumbers
<1>4. Same(eval(g, x), g[1])
  BY <1>2, <1>3, EvalOfNone
<1>5. eval(g, x) \in Field
  BY EvalType
<1> QED BY <1>1, <1>4, <1>5, SameInField

LEMMA EvalOfLine ==
  ASSUME NEW g \in Poly(2), NEW x \in Int
  PROVE  Same(eval(g, x), g[1] + x * g[2]) /\ g[1] \in Int /\ g[2] \in Int
<1>1. g \in Poly(1 + 1) /\ g[1] \in Int /\ g[2] \in Int
  BY FieldNumbers DEF Poly
<1> PICK h \in Poly(1) : h = shifted(g, 1 + 1, 1) /\ Same(eval(g, x), g[1] + x * eval(h, x))
  BY <1>1, EvalHead
<1>2. h[1] = g[2]
  BY DEF shifted
<1>3. eval(h, x) = g[2]
  BY <1>2, EvalOfConstant
<1> QED BY <1>1, <1>3

\* The value of a product with a polynomial of degree 1.
LEMMA EvalTimes ==
  ASSUME NEW n \in Nat, NEW f \in Poly(n), NEW g \in Poly(2), NEW x \in Int
  PROVE  /\ times(f, g) \in Poly(n + 1)
         /\ Same(eval(times(f, g), x), eval(f, x) * eval(g, x))
<1>0. n + 1 \in Nat /\ n + 1 \in 1 .. n + 1
  OBVIOUS
<1> PICK h \in Poly(n + 1) : h = times(f, g)
  BY <1>0, TimesCoefficient
<1> PICK a \in Int, b \in Int : a = g[1] /\ b = g[2]
  BY EvalOfLine
<1>1. ASSUME NEW k \in 1 .. n + 1
      PROVE  h[k] \in Int /\ Same(h[k], a * coefficient(f, k) + b * coefficient(f, k - 1))
  <2>1. Same(times(f, g)[k], g[1] * coefficient(f, k) + g[2] * coefficient(f, k - 1))
    BY TimesCoefficient
  <2>2. h[k] \in Int
    BY <1>0, PolyIsSequence
  <2> QED BY <2>1, <2>2, Zenon
<1>2. coefficient(f, 0) = 0 /\ coefficient(f, n + 1) = 0
  <2>1. DOMAIN f = 1 .. n
    BY PolyIsSequence
  <2> QED BY <2>1 DEF coefficient
<1>3. \A j \in Int : coefficient(f, j) \in Int
  BY PolyIsSequence
<1> DEFINE H == [j \in 0 .. n |-> eval(shifted(f, n, j), x)]
<1>4. Horner(H, f, n, x) /\ H[0] = eval(f, x)
  <2>1. Horner(H, f, n, x) /\ shifted(f, n, 0) = f
    BY HornerExists
  <2>2. 0 \in 0 .. n
    OBVIOUS
  <2> QED BY <2>1, <2>2
<1> HIDE DEF H
<1> DEFINE K == [j \in 0 .. n + 1 |-> IF j =< n THEN H[j] ELSE 0]
<1>5. K \in [0 .. n + 1 -> Int] /\ K[0] = eval(f, x) /\ K[n + 1] = 0
  <2>1. \A j \in 0 .. n : H[j] \in Int
    BY <1>4 DEF Horner
  <2> QED BY <1>4, <2>1
<1>6. ASSUME NEW j \in 0 .. n PROVE Same(K[j], coefficient(f, j + 1) + x * K[j + 1])
  <2>1. CASE j = n
    <3>1. K[j] = H[n] /\ K[j + 1] = 0 /\ coefficient(f, j + 1) = 0 /\ x * 0 = 0 /\ 0 + 0 = 0
      BY <1>2, <2>1
    <3>2. Same(H[n], 0)
      BY <1>4 DEF Horner
    <3> HIDE DEF K
    <3> QED BY <3>1, <3>2
  <2>2. CASE j # n
    <3>0. j \in 0 .. n - 1 /\ j + 1 \in 1 .. n /\ j + 1 =< n
      BY <2>2
    <3>1. K[j] = H[j] /\ K[j + 1] = H[j + 1]
      BY <3>0
    <3>2. coefficient(f, j + 1) = f[j + 1]
      BY <3>0, PolyIsSequence DEF coefficient
    <3> HIDE DEF K
    <3> QED BY <1>4, <3>0, <3>1, <3>2 DEF Horner
  <2> QED BY <2>1, <2>2
<1> HIDE DEF K
<1> DEFINE T == [j \in 0 .. n + 1 |-> (a + x * b) * K[j] + b * coefficient(f, j)]
<1>7. ASSUME NEW j \in 0 .. n + 1 PROVE T[j] \in Int
  <2> PICK u \in Int : u = K[j]
    BY <1>5
  <2> PICK v \in Int : v = coefficient(f, j)
    <3>1. j \in Int
      OBVIOUS
    <3> QED BY <1>3, <3>1, Zenon
  <2>1. (a + x * b) * u + b * v \in Int
    OBVIOUS
  <2>2. T[j] = (a + x * b) * u + b * v
    OBVIOUS
  <2> HIDE DEF T
  <2> QED BY <2>1, <2>2
<1>8. T[n + 1] = 0 /\ T[0] = (a + x * b) * eval(f, x)
  <2>1. T[n + 1] = (a + x * b) * 0 + b * 0
    BY <1>2, <1>5
  <2>2. T[0] = (a + x * b) * eval(f, x) + b * 0
    BY <1>2, <1>5
  <2> HIDE DEF T
  <2>3. eval(f, x) \in Int
    BY EvalType, FieldNumbers
  <2> PICK e \in Int, y \in Int : e = a + x * b /\ y = eval(f, x)
    BY <2>3
  <2>4. e * 0 = 0 /\ b * 0 = 0 /\ e * y \in Int /\ e * y + 0 = e * y
    OBVIOUS
  <2> QED BY <2>1, <2>2, <2>4
<1>9. ASSUME NEW j \in 0 .. (n + 1) - 1 PROVE Same(T[j], h[j + 1] + x * T[j + 1])
  <2> PICK k \in 1 .. n + 1 : k = j + 1 /\ k - 1 = j /\ j \in 0 .. n /\ k \in 0 .. n + 1 /\ j \in 0 .. n + 1
    OBVIOUS
  <2> PICK c \in Int, s \in Int, t \in Int, u \in Int, v \in Int :
        c = h[k] /\ s = coefficient(f, k) /\ t = coefficient(f, j) /\ u = K[k] /\ v = K[j]
    <3>1. h[k] \in Int
      BY <1>1
    <3>2. K[k] \in Int /\ K[j] \in Int
      BY <1>5
    <3>3. k \in Int /\ j \in Int
      OBVIOUS
    <3>4. coefficient(f, k) \in Int /\ coefficient(f, j) \in Int
      BY <1>3, <3>3, Zenon
    <3> HIDE DEF T
    <3> QED BY <3>1, <3>2, <3>4, Zenon
  <2>1. Same(v, s + x * u) /\ Same(c, a * s + b * t)
    BY <1>1, <1>6
  <2>2. Same((a + x * b) * v + b * t, c + x * ((a + x * b) * u + b * s))
    BY <2>1, TimesStep
  <2>3. T[j] = (a + x * b) * v + b * t /\ T[k] = (a + x * b) * u + b * s
    OBVIOUS
  <2> HIDE DEF T
  <2> QED BY <2>2, <2>3
<1>10. Horner(T, h, n + 1, x)
  <2>1. T \in [0 .. n + 1 -> Int]
    <3>1. T = [j \in 0 .. n + 1 |-> T[j]]
      OBVIOUS
    <3> HIDE DEF T
    <3> QED BY <1>7, <3>1
  <2> HIDE DEF T
  <2> QED BY <1>8, <1>9, <2>1, SameReflexive DEF Horner
<1>11. Same(T[0], eval(h, x)) /\ T[0] \in Int
  <2>1. T[0] \in Int
    <3>1. 0 \in 0 .. n + 1
      OBVIOUS
    <3> HIDE DEF T
    <3> QED BY <1>7, <3>1
  <2> HIDE DEF T
  <2> QED BY <1>0, <1>10, <2>1, HornerIs
<1> HIDE DEF T
<1> PICK y \in Int, z \in Int, w \in Int : y = eval(f, x) /\ z = eval(g, x) /\ w = eval(h, x)
  <2>1. 2 \in Nat
    OBVIOUS
  <2> QED BY <1>0, <2>1, EvalType, FieldNumbers
<1> PICK e \in Int : e = a + x * b
  OBVIOUS
<1>12. Same(e * y, w)
  BY <1>8, <1>11
<1>13. Same(z, e)
  BY EvalOfLine
<1> PICK u \in Int, v \in Int : u = e * y /\ v = y * z /\ v = z * y
  OBVIOUS
<1>14. Same(v, u) /\ Same(u, w)
  BY <1>12, <1>13, SameProduct
<1>15. Same(w, v)
  BY <1>14, SameTransitive, SameSymmetric
<1> QED BY <1>15

\* The last of the places up to m.
LEMMA MaxOfPlaces == \A m \in Nat : Max(1 .. m + 1) = m + 1 /\ (1 .. m + 1) \ {m + 1} = 1 .. m
<1> SUFFICES ASSUME NEW m \in Nat PROVE Max(1 .. m + 1) = m + 1
  OBVIOUS
<1>1. m + 1 \in Nat /\ (1 .. m + 1) \in SUBSET (1 .. m + 1) /\ 1 .. m + 1 # {} /\ m + 1 \in 1 .. m + 1
  OBVIOUS
<1>2. \A x \in 1 .. m + 1 : (\A y \in 1 .. m + 1 : x >= y) <=> x = m + 1
  OBVIOUS
<1> QED BY <1>1, <1>2 DEF Max

\* The loop of a product of n polynomials of degree 1 and a constant.
ProductRun(run, c, s, n) ==
  /\ run[0] = c
  /\ \A m \in 0 .. n : run[m] \in Poly(m + 1)
  /\ \A m \in 0 .. n - 1 : run[m + 1] = times(run[m], s[m + 1])

\* The fold is such a loop.
LEMMA ProductRuns ==
  ASSUME NEW n \in Nat, NEW c \in Poly(1), NEW s \in [1 .. n -> Poly(2)]
  PROVE  \E run : ProductRun(run, c, s, n) /\ FoldLeft(times, c, s) = run[n]
<1> PICK S : S = 1 .. n
  OBVIOUS
<1> DEFINE V == UNION { Poly(k) : k \in Nat \ {0} }
           Body(g) == [t \in SUBSET S |-> IF t = {} THEN c ELSE times(g[t \ {Max(t)}], s[Max(t)])]
           iter == CHOOSE g : g = Body(g)
           step == [p \in S \X V |-> times(p[2], s[p[1]])]
           pick == [t \in SUBSET S |-> Max(t)]
<1>0. IsFiniteSet(S) /\ DOMAIN s = S /\ \A x \in S : s[x] \in Poly(2)
  BY FS_Interval
<1>1. FoldLeft(times, c, s) = iter[S]
  BY <1>0 DEF FoldLeft, MapThenFoldSet
<1>2. \A t \in SUBSET S : t # {} => pick[t] \in t
  BY MaxIsIn
<1>3. c \in V
  BY DEF Poly
<1>4. ASSUME NEW x \in S, NEW k \in Nat \ {0}, NEW f \in Poly(k)
      PROVE  times(f, s[x]) \in Poly(k + 1)
  <2>1. times(f, s[x]) \in Poly(k + 2 - 1) /\ k + 2 - 1 = k + 1
    BY <1>0, TimesType
  <2> QED BY <2>1
<1>5. step \in [S \X V -> V]
  <2> SUFFICES ASSUME NEW x \in S, NEW f \in V PROVE times(f, s[x]) \in V
    OBVIOUS
  <2>1. PICK k \in Nat \ {0} : f \in Poly(k)
    OBVIOUS
  <2>2. times(f, s[x]) \in Poly(k + 1) /\ k + 1 \in Nat \ {0}
    BY <1>4, <2>1
  <2> QED BY <2>2
<1>6. PICK g \in [SUBSET S -> V] : \A t \in SUBSET S : FoldStep(g, t, pick, c, step)
  <2> HIDE DEF step, pick, V
  <2>1. CanFold(S, V, pick, c, step)
    BY <1>0, <1>2, <1>3, <1>5 DEF CanFold
  <2>2. PICK f1 : Folds(f1, S, V, pick, c, step)
    BY <2>1, FoldExists, Zenon
  <2> QED BY <2>2, Zenon DEF Folds
<1>7. g = Body(g)
  <2>1. ASSUME NEW t \in SUBSET S
        PROVE  g[t] = IF t = {} THEN c ELSE times(g[t \ {Max(t)}], s[Max(t)])
    <3>1. t # {} => Max(t) \in S /\ t \ {Max(t)} \in SUBSET S
      BY <1>2
    <3>2. g[t] = IF t = {} THEN c ELSE step[<< pick[t], g[t \ {pick[t]}] >>]
      BY <1>6 DEF FoldStep
    <3>3. pick[t] = Max(t)
      OBVIOUS
    <3>4. t # {} => step[<< Max(t), g[t \ {Max(t)}] >>] = times(g[t \ {Max(t)}], s[Max(t)])
      <4> HIDE DEF V
      <4> QED BY <3>1
    <3> HIDE DEF step, pick
    <3> QED BY <3>2, <3>3, <3>4
  <2> HIDE DEF V
  <2> QED BY <2>1
<1>8. iter = Body(iter)
  <2> HIDE DEF Body
  <2> QED BY <1>7
<1>9. \A t \in SUBSET S : iter[t] = IF t = {} THEN c ELSE times(iter[t \ {Max(t)}], s[Max(t)])
  <2> HIDE DEF iter
  <2> QED BY <1>8
<1> HIDE DEF iter, pick, step, Body, V
<1> DEFINE run == [m \in 0 .. n |-> iter[1 .. m]]
<1>10. run[0] = c
  <2>1. 1 .. 0 = {} /\ 0 \in 0 .. n
    OBVIOUS
  <2>2. iter[{}] = c
    BY <1>9
  <2> QED BY <2>1, <2>2
<1>11. ASSUME NEW m \in 0 .. n - 1 PROVE run[m + 1] = times(run[m], s[m + 1])
  <2>1. /\ (1 .. m + 1) \in SUBSET S /\ 1 .. m + 1 # {}
        /\ Max(1 .. m + 1) = m + 1 /\ (1 .. m + 1) \ {m + 1} = 1 .. m
    <3>1. m \in Nat /\ m + 1 =< n /\ 1 \in 1 .. m + 1
      OBVIOUS
    <3>2. \A i \in 1 .. m + 1 : i \in S
      BY <3>1
    <3>3. (1 .. m + 1) \in SUBSET S /\ 1 .. m + 1 # {}
      BY <3>1, <3>2, Zenon
    <3> QED BY <3>1, <3>3, MaxOfPlaces, Zenon
  <2>2. iter[1 .. m + 1] = times(iter[1 .. m], s[m + 1])
    BY <1>9, <2>1
  <2>3. run[m + 1] = iter[1 .. m + 1] /\ run[m] = iter[1 .. m]
    OBVIOUS
  <2> QED BY <2>2, <2>3, Zenon
<1>12. run[n] = iter[S]
  OBVIOUS
<1> HIDE DEF run
<1> DEFINE I == { m \in 0 .. n : run[m] \in Poly(m + 1) }
<1>13. 0 \in I
  BY <1>10
<1>14. ASSUME NEW m \in 0 .. n - 1, m \in I PROVE m + 1 \in I
  <2>1. m + 1 \in S /\ m + 1 \in Nat \ {0} /\ m + 1 \in 0 .. n
    OBVIOUS
  <2>2. times(run[m], s[m + 1]) \in Poly((m + 1) + 1)
    BY <1>4, <1>14, <2>1
  <2> QED BY <1>11, <2>1, <2>2
<1>15. 0 .. n \subseteq I
  <2> HIDE DEF I
  <2> QED BY <1>13, <1>14, BoundedInduction
<1>16. ProductRun(run, c, s, n)
  BY <1>10, <1>11, <1>15 DEF ProductRun
<1> QED BY <1>1, <1>12, <1>16

\* So the product has one more coefficient than there are factors.
LEMMA ProductType ==
  ASSUME NEW n \in Nat, NEW c \in Poly(1), NEW s \in [1 .. n -> Poly(2)]
  PROVE  FoldLeft(times, c, s) \in Poly(n + 1)
<1>1. PICK run : ProductRun(run, c, s, n) /\ FoldLeft(times, c, s) = run[n]
  BY ProductRuns
<1> QED BY <1>1 DEF ProductRun

(***************************************************************************)
(* The value of such a product: that of the constant where all the factors *)
(* are 1, and 0 where one of them is.                                      *)
(***************************************************************************)
Units(s, n, x) == \A m \in 1 .. n : Same(eval(s[m], x), 1)
Vanishes(s, n, x) == \E m \in 1 .. n : Same(eval(s[m], x), 0)

LEMMA EvalProduct ==
  ASSUME NEW n \in Nat, NEW c \in Poly(1), NEW s \in [1 .. n -> Poly(2)], NEW x \in Int
  PROVE  /\ Units(s, n, x) => Same(eval(FoldLeft(times, c, s), x), c[1])
         /\ Vanishes(s, n, x) => Same(eval(FoldLeft(times, c, s), x), 0)
<1>1. PICK run : ProductRun(run, c, s, n) /\ FoldLeft(times, c, s) = run[n]
  BY ProductRuns
<1> DEFINE v(m) == eval(run[m], x)
<1>2. ASSUME NEW m \in 0 .. n PROVE v(m) \in Int
  <2>1. run[m] \in Poly(m + 1) /\ m + 1 \in Nat
    BY <1>1 DEF ProductRun
  <2> QED BY <2>1, EvalType, FieldNumbers
<1>3. v(0) = c[1] /\ c[1] \in Int
  <2>1. run[0] = c
    BY <1>1 DEF ProductRun
  <2>2. c[1] \in Field
    BY DEF Poly
  <2> QED BY <2>1, <2>2, EvalOfConstant, FieldNumbers
<1>4. ASSUME NEW m \in 0 .. n - 1
      PROVE  eval(s[m + 1], x) \in Int /\ Same(v(m + 1), v(m) * eval(s[m + 1], x))
  <2>1. run[m] \in Poly(m + 1) /\ m + 1 \in Nat /\ run[m + 1] = times(run[m], s[m + 1])
    BY <1>1 DEF ProductRun
  <2>2. s[m + 1] \in Poly(2) /\ 2 \in Nat
    OBVIOUS
  <2> HIDE DEF v
  <2>3. Same(eval(times(run[m], s[m + 1]), x), eval(run[m], x) * eval(s[m + 1], x))
    BY <2>1, <2>2, EvalTimes
  <2>4. eval(s[m + 1], x) \in Int
    BY <2>2, EvalType, FieldNumbers
  <2> QED BY <2>1, <2>3, <2>4 DEF v
<1> HIDE DEF v
<1>5. ASSUME Units(s, n, x) PROVE Same(v(n), c[1])
  <2> DEFINE I == { m \in 0 .. n : Same(v(m), c[1]) }
  <2>1. 0 \in I
    BY <1>3, SameReflexive
  <2>2. ASSUME NEW m \in 0 .. n - 1, m \in I PROVE m + 1 \in I
    <3> PICK k \in 1 .. n : k = m + 1 /\ m \in 0 .. n /\ k \in 0 .. n
      OBVIOUS
    <3> PICK a \in Int, b \in Int, e \in Int, o \in Int :
          a = v(m) /\ b = v(k) /\ e = eval(s[k], x) /\ o = c[1]
      BY <1>2, <1>3, <1>4
    <3> PICK one \in Int : one = 1 /\ a * one = a
      OBVIOUS
    <3>1. Same(e, one)
      BY <1>5 DEF Units
    <3>2. Same(a * e, a * one)
      BY <3>1, SameTimes, SameReflexive
    <3> PICK u \in Int : u = a * e
      OBVIOUS
    <3>3. Same(b, u) /\ Same(u, a) /\ Same(a, o)
      BY <1>4, <2>2, <3>2
    <3>4. Same(b, o)
      BY <3>3, SameTransitive
    <3> QED BY <3>4
  <2>3. n \in I
    <3>1. 0 .. n \subseteq I
      <4> HIDE DEF I
      <4> QED BY <2>1, <2>2, BoundedInduction
    <3> QED BY <3>1
  <2> QED BY <2>3
<1>6. ASSUME Vanishes(s, n, x) PROVE Same(v(n), 0)
  <2> PICK z \in Int : z = 0
    OBVIOUS
  <2> PICK l \in 1 .. n : Same(eval(s[l], x), z)
    BY <1>6 DEF Vanishes
  <2> DEFINE I == { m \in 0 .. n : l =< m => Same(v(m), z) }
  <2>1. 0 \in I
    OBVIOUS
  <2>2. ASSUME NEW m \in 0 .. n - 1, m \in I PROVE m + 1 \in I
    <3> PICK k \in 1 .. n : k = m + 1 /\ m \in 0 .. n /\ k \in 0 .. n
      OBVIOUS
    <3> PICK a \in Int, b \in Int, e \in Int : a = v(m) /\ b = v(k) /\ e = eval(s[k], x)
      BY <1>2, <1>4
    <3> PICK u \in Int : u = a * e
      OBVIOUS
    <3>0. Same(b, u)
      BY <1>4
    <3>1. CASE l = k
      <4>1. Same(e, z) /\ a * z = z
        BY <3>1
      <4>2. Same(a * e, a * z)
        BY <4>1, SameTimes, SameReflexive
      <4>3. Same(u, z)
        BY <4>1, <4>2
      <4>4. Same(b, z)
        BY <3>0, <4>3, SameTransitive
      <4> QED BY <4>4
    <3>2. CASE l < k
      <4>1. Same(a, z) /\ z * e = z
        BY <2>2, <3>2
      <4>2. Same(a * e, z * e)
        BY <4>1, SameProduct
      <4>3. Same(u, z)
        BY <4>1, <4>2
      <4>4. Same(b, z)
        BY <3>0, <4>3, SameTransitive
      <4> QED BY <4>4
    <3>3. CASE l > k
      BY <3>3
    <3> QED BY <3>1, <3>2, <3>3
  <2>3. n \in I
    <3>1. 0 .. n \subseteq I
      <4> HIDE DEF I
      <4> QED BY <2>1, <2>2, BoundedInduction
    <3> QED BY <3>1
  <2> QED BY <2>3
<1> QED BY <1>1, <1>5, <1>6 DEF v

\* Nothing added to a polynomial.
LEMMA PlusNone ==
  ASSUME NEW m \in Nat, NEW g \in Poly(m)
  PROVE  plus(<< >>, g) = g
<1>1. Len(g) = m /\ DOMAIN g = 1 .. m /\ longest(<< >>, g) = 1 .. m
  <2>1. Len(g) = m /\ DOMAIN g = 1 .. m /\ Len(<< >>) = 0
    BY PolyIsSequence
  <2>2. longest(<< >>, g) = 1 .. m
    BY <2>1 DEF longest
  <2> QED BY <2>1, <2>2
<1>2. ASSUME NEW i \in 1 .. m PROVE mod(coefficient(<< >>, i) + coefficient(g, i)) = g[i]
  <2>1. coefficient(<< >>, i) = 0 /\ coefficient(g, i) = g[i]
    BY <1>1 DEF coefficient
  <2>2. g[i] \in Field /\ g[i] \in Int
    BY <1>1, PolyIsSequence
  <2>3. 0 + g[i] = g[i]
    BY <2>2
  <2>4. mod(g[i]) \in Field /\ Same(mod(g[i]), g[i])
    BY <2>2, ModIsSame
  <2> QED BY <2>1, <2>2, <2>3, <2>4, SameInField
<1>3. plus(<< >>, g) = [i \in 1 .. m |-> g[i]]
  BY <1>1, <1>2 DEF plus
<1> QED BY <1>1, <1>3 DEF Poly

\* The loop of a sum of n polynomials of the same length.
SumOfRun(run, s, n, m) ==
  /\ run[0] = << >>
  /\ \A k \in 1 .. n : run[k] \in Poly(m)
  /\ \A k \in 0 .. n - 1 : run[k + 1] = plus(run[k], s[k + 1])

\* The fold is such a loop.
LEMMA SumOfRuns ==
  ASSUME NEW n \in Nat, NEW m \in Nat, NEW s \in [1 .. n -> Poly(m)]
  PROVE  \E run : SumOfRun(run, s, n, m) /\ FoldLeft(plus, << >>, s) = run[n]
<1> PICK S : S = 1 .. n
  OBVIOUS
<1> DEFINE V == Poly(m) \cup {<< >>}
           Body(g) == [t \in SUBSET S |-> IF t = {} THEN << >> ELSE plus(g[t \ {Max(t)}], s[Max(t)])]
           iter == CHOOSE g : g = Body(g)
           step == [p \in S \X V |-> plus(p[2], s[p[1]])]
           pick == [t \in SUBSET S |-> Max(t)]
<1>0. IsFiniteSet(S) /\ DOMAIN s = S /\ \A x \in S : s[x] \in Poly(m)
  BY FS_Interval
<1>1. FoldLeft(plus, << >>, s) = iter[S]
  BY <1>0 DEF FoldLeft, MapThenFoldSet
<1>2. \A t \in SUBSET S : t # {} => pick[t] \in t
  BY MaxIsIn
<1>3. << >> \in V
  OBVIOUS
<1>4. ASSUME NEW x \in S, NEW f \in V
      PROVE  plus(f, s[x]) \in Poly(m)
  <2>1. s[x] \in Poly(m) /\ (f = << >> \/ f \in Poly(m))
    BY <1>0
  <2> QED BY <2>1, PlusType
<1>5. step \in [S \X V -> V]
  BY <1>4
<1>6. PICK g \in [SUBSET S -> V] : \A t \in SUBSET S : FoldStep(g, t, pick, << >>, step)
  <2> HIDE DEF step, pick, V
  <2>1. CanFold(S, V, pick, << >>, step)
    BY <1>0, <1>2, <1>3, <1>5 DEF CanFold
  <2>2. PICK f1 : Folds(f1, S, V, pick, << >>, step)
    BY <2>1, FoldExists, Zenon
  <2> QED BY <2>2, Zenon DEF Folds
<1>7. g = Body(g)
  <2>1. ASSUME NEW t \in SUBSET S
        PROVE  g[t] = IF t = {} THEN << >> ELSE plus(g[t \ {Max(t)}], s[Max(t)])
    <3>1. t # {} => Max(t) \in S /\ t \ {Max(t)} \in SUBSET S
      BY <1>2
    <3>2. g[t] = IF t = {} THEN << >> ELSE step[<< pick[t], g[t \ {pick[t]}] >>]
      BY <1>6 DEF FoldStep
    <3>3. pick[t] = Max(t)
      OBVIOUS
    <3>4. t # {} => step[<< Max(t), g[t \ {Max(t)}] >>] = plus(g[t \ {Max(t)}], s[Max(t)])
      <4> HIDE DEF V
      <4> QED BY <3>1
    <3> HIDE DEF step, pick
    <3> QED BY <3>2, <3>3, <3>4
  <2> HIDE DEF V
  <2> QED BY <2>1
<1>8. iter = Body(iter)
  <2> HIDE DEF Body
  <2> QED BY <1>7
<1>9. \A t \in SUBSET S : iter[t] = IF t = {} THEN << >> ELSE plus(iter[t \ {Max(t)}], s[Max(t)])
  <2> HIDE DEF iter
  <2> QED BY <1>8
<1> HIDE DEF iter, pick, step, Body
<1> DEFINE run == [k \in 0 .. n |-> iter[1 .. k]]
<1>10. run[0] = << >>
  <2>1. 1 .. 0 = {} /\ 0 \in 0 .. n
    OBVIOUS
  <2>2. iter[{}] = << >>
    BY <1>9
  <2> QED BY <2>1, <2>2
<1>11. ASSUME NEW k \in 0 .. n - 1 PROVE run[k + 1] = plus(run[k], s[k + 1])
  <2>1. /\ (1 .. k + 1) \in SUBSET S /\ 1 .. k + 1 # {}
        /\ Max(1 .. k + 1) = k + 1 /\ (1 .. k + 1) \ {k + 1} = 1 .. k
    <3>1. k \in Nat /\ k + 1 =< n /\ 1 \in 1 .. k + 1
      OBVIOUS
    <3>2. \A i \in 1 .. k + 1 : i \in S
      BY <3>1
    <3>3. (1 .. k + 1) \in SUBSET S /\ 1 .. k + 1 # {}
      BY <3>1, <3>2, Zenon
    <3> QED BY <3>1, <3>3, MaxOfPlaces, Zenon
  <2>2. iter[1 .. k + 1] = plus(iter[1 .. k], s[k + 1])
    BY <1>9, <2>1
  <2>3. run[k + 1] = iter[1 .. k + 1] /\ run[k] = iter[1 .. k]
    OBVIOUS
  <2> QED BY <2>2, <2>3, Zenon
<1>12. run[n] = iter[S]
  OBVIOUS
<1> HIDE DEF run
<1> DEFINE I == { k \in 0 .. n : run[k] \in V /\ (k # 0 => run[k] \in Poly(m)) }
<1>13. 0 \in I
  BY <1>10
<1>14. ASSUME NEW k \in 0 .. n - 1, k \in I PROVE k + 1 \in I
  <2>1. k + 1 \in S /\ k + 1 \in 0 .. n
    OBVIOUS
  <2>2. plus(run[k], s[k + 1]) \in Poly(m)
    BY <1>4, <1>14, <2>1
  <2> QED BY <1>11, <2>1, <2>2
<1>15. 0 .. n \subseteq I
  <2> HIDE DEF I
  <2> QED BY <1>13, <1>14, BoundedInduction
<1>16. \A k \in 1 .. n : run[k] \in Poly(m)
  BY <1>15
<1>17. SumOfRun(run, s, n, m)
  BY <1>10, <1>11, <1>16 DEF SumOfRun
<1> QED BY <1>1, <1>12, <1>17

\* The sum of polynomials of the same length, if any.
LEMMA SumOfPolynomials ==
  ASSUME NEW n \in Nat, NEW m \in Nat, NEW s \in [1 .. n -> Poly(m)]
  PROVE  LET f == FoldLeft(plus, << >>, s) IN f \in Poly(m) \/ (n = 0 /\ f = << >>)
<1>1. PICK run : SumOfRun(run, s, n, m) /\ FoldLeft(plus, << >>, s) = run[n]
  BY SumOfRuns
<1>2. n = 0 \/ n \in 1 .. n
  OBVIOUS
<1> QED BY <1>1, <1>2 DEF SumOfRun

\* One of the polynomials has the value y, and the others 0.
OnlyOne(s, n, l, y, x) ==
  \A k \in 1 .. n : Same(eval(s[k], x), IF k = l THEN y ELSE 0)

\* Then it is the value of the sum.
LEMMA EvalSum ==
  ASSUME NEW n \in Nat, NEW m \in Nat, NEW s \in [1 .. n -> Poly(m)], NEW x \in Int,
         NEW l \in 1 .. n, NEW y \in Int, OnlyOne(s, n, l, y, x)
  PROVE  Same(eval(FoldLeft(plus, << >>, s), x), y)
<1>1. PICK run : SumOfRun(run, s, n, m) /\ FoldLeft(plus, << >>, s) = run[n]
  BY SumOfRuns
<1> PICK z \in Int : z = 0 /\ z + z = z /\ y + z = y /\ z + y = y
  OBVIOUS
<1> DEFINE v(k) == eval(run[k], x)
           w(k) == eval(s[k], x)
           want(k) == IF l =< k THEN y ELSE z
<1>2. \A k \in 1 .. n : v(k) \in Int /\ w(k) \in Int
  <2> SUFFICES ASSUME NEW k \in 1 .. n PROVE eval(run[k], x) \in Int /\ eval(s[k], x) \in Int
    OBVIOUS
  <2>1. run[k] \in Poly(m) /\ s[k] \in Poly(m)
    BY <1>1 DEF SumOfRun
  <2> QED BY <2>1, EvalType, FieldNumbers
<1>3. ASSUME 1 \in 1 .. n PROVE v(1) = w(1)
  <2>1. run[0] = << >> /\ 0 + 1 = 1 /\ 0 \in 0 .. n - 1
    BY <1>1, <1>3 DEF SumOfRun
  <2>2. run[1] = plus(<< >>, s[1])
    BY <1>1, <2>1 DEF SumOfRun
  <2>3. s[1] \in Poly(m)
    BY <1>3
  <2> QED BY <2>2, <2>3, PlusNone
<1>4. ASSUME NEW k \in 1 .. n, k + 1 \in 1 .. n PROVE Same(v(k + 1), v(k) + w(k + 1))
  <2>1. k \in 0 .. n - 1
    BY <1>4
  <2>2. run[k] \in Poly(m) /\ s[k + 1] \in Poly(m) /\ run[k + 1] = plus(run[k], s[k + 1])
    BY <1>1, <1>4, <2>1 DEF SumOfRun
  <2> QED BY <2>2, EvalPlus
<1>5. \A k \in 1 .. n : Same(w(k), IF k = l THEN y ELSE z)
  BY DEF OnlyOne
<1> HIDE DEF v, w
<1> DEFINE I == { k \in 0 .. n - 1 : Same(v(k + 1), want(k + 1)) }
<1>6. 0 \in I
  <2>1. 1 \in 1 .. n /\ 0 \in 0 .. n - 1 /\ 0 + 1 = 1 /\ (l =< 1 <=> 1 = l)
    OBVIOUS
  <2>2. Same(v(1), want(1))
    BY <1>3, <1>5, <2>1
  <2> QED BY <2>1, <2>2
<1>7. ASSUME NEW k \in 0 .. (n - 1) - 1, k \in I PROVE k + 1 \in I
  <2> PICK i \in 1 .. n, j \in 1 .. n : i = k + 1 /\ j = i + 1 /\ k + 1 \in 0 .. n - 1 /\ j = (k + 1) + 1
    OBVIOUS
  <2> PICK a \in Int, b \in Int, c \in Int, d \in Int, e \in Int, g \in Int :
        /\ a = v(i) /\ b = v(j) /\ c = w(j) /\ d = want(i) /\ g = want(j)
        /\ e = IF j = l THEN y ELSE z
    BY <1>2
  <2>1. Same(b, a + c) /\ Same(a, d) /\ Same(c, e)
    BY <1>4, <1>5, <1>7
  <2>2. Same(a + c, d + e)
    BY <2>1, SameAdd
  <2>3. d + e = g
    BY <2>1
  <2>4. Same(b, g)
    <3> PICK p \in Int : p = a + c
      OBVIOUS
    <3>1. Same(b, p) /\ Same(p, g)
      BY <2>1, <2>2, <2>3
    <3> QED BY <3>1, SameTransitive
  <2> QED BY <2>4
<1>8. n - 1 \in I
  <2>1. n - 1 \in Nat
    OBVIOUS
  <2>2. 0 .. n - 1 \subseteq I
    <3> HIDE DEF I
    <3> QED BY <1>6, <1>7, <2>1, BoundedInduction
  <2>3. n - 1 \in 0 .. n - 1
    OBVIOUS
  <2> QED BY <2>2, <2>3
<1>9. (n - 1) + 1 = n /\ want(n) = y
  OBVIOUS
<1> QED BY <1>1, <1>8, <1>9 DEF v

---------------------------------------------------------------------------
(* Interpolation.                                                          *)

\* Points that differ have a difference that is not 0.
LEMMA DifferenceNonzero ==
  ASSUME NEW x \in Field, NEW r \in Field, x # r
  PROVE  mod(x - r) \in Field \ {0} /\ Same(mod(x - r), x - r) /\ x - r \in Int
<1>1. x \in Int /\ r \in Int /\ x - r \in Int
  BY FieldNumbers
<1>2. mod(x - r) \in Field /\ Same(mod(x - r), x - r) /\ Same(x - r, mod(x - r))
  BY <1>1, ModIsSame
<1>3. ASSUME mod(x - r) = 0 PROVE FALSE
  <2>1. Same(x - r, 0)
    BY <1>2, <1>3
  <2>2. PICK k \in Int : (x - r) - 0 = k * BLS_MODULUS
    BY <2>1 DEF Same
  <2>3. (x - r) - 0 = x - r
    BY <1>1
  <2>4. Same(x, r)
    BY <2>2, <2>3 DEF Same
  <2> QED BY <2>4, SameInField
<1> QED BY <1>1, <1>2, <1>3

\* One factor of a base polynomial: 1 at the point p that is asked for, and 0 at the other, r.
factor(p, r) == << mod(- r * inverse[mod(p - r)]), inverse[mod(p - r)] >>

\* The value of a factor, with the multiple of the modulus named.
LEMMA FactorIdentity ==
  \A m, x, r, w, k \in Int : (- r * w + k * m) + x * w = (x - r) * w + k * m
OBVIOUS

\* The values of a factor.
LEMMA FactorValues ==
  ASSUME NEW p \in Field, NEW r \in Field, p # r
  PROVE  /\ factor(p, r) \in Poly(2)
         /\ Same(eval(factor(p, r), p), 1) /\ Same(eval(factor(p, r), r), 0)
<1> PICK e \in Int : e = p - r
  BY FieldNumbers
<1> PICK d \in Field \ {0} : d = mod(p - r) /\ Same(d, e)
  BY DifferenceNonzero
<1>1. inverse[d] \in Field /\ mod(d * inverse[d]) = 1
  <2>1. \E y \in Field : mod(d * y) = 1
    BY FieldAssumption DEF mod
  <2> QED BY <2>1 DEF inverse
<1> PICK w \in Field : w = inverse[d]
  BY <1>1
<1>2. w \in Int /\ p \in Int /\ r \in Int /\ d \in Int
  BY FieldNumbers
<1> PICK t \in Int : t = - r * w
  BY <1>2
<1>3. mod(t) \in Field /\ mod(t) \in Int /\ Same(mod(t), t)
  BY ModIsSame
<1> PICK f : f = << mod(t), w >> /\ f = factor(p, r)
  BY DEF factor
<1>4. f \in Poly(2) /\ f[1] = mod(t) /\ f[2] = w
  BY <1>3 DEF Poly
<1>5. ASSUME NEW x \in Int PROVE Same(eval(f, x), (x - r) * w)
  <2> PICK m \in Int : m = BLS_MODULUS
    BY FieldAssumption
  <2> PICK c \in Int : c = mod(t) /\ Same(c, t)
    BY <1>3
  <2>0. PICK k \in Int : c = t + k * BLS_MODULUS
    BY SameIs
  <2>1. c = t + k * m
    BY <2>0, Zenon
  <2> PICK v \in Int : v = (x - r) * w
    BY <1>2
  <2> PICK u \in Int : u = c + x * w
    BY <1>2
  <2>2. u = v + k * m
    <3>1. (- r * w + k * m) + x * w = (x - r) * w + k * m
      BY <1>2, FactorIdentity
    <3>2. c = - r * w + k * m
      BY <2>1, Zenon
    <3> QED BY <3>1, <3>2, Zenon
  <2>3. Same(u, v)
    BY <2>2, SameBy
  <2>4. Same(eval(f, x), u) /\ eval(f, x) \in Int
    <3>1. Same(eval(f, x), f[1] + x * f[2])
      BY <1>4, EvalOfLine
    <3>2. 2 \in Nat
      OBVIOUS
    <3>3. eval(f, x) \in Int
      BY <1>4, <3>2, EvalType, FieldNumbers
    <3>4. f[1] + x * f[2] = u
      BY <1>4
    <3> QED BY <3>1, <3>3, <3>4
  <2>5. Same(eval(f, x), v)
    BY <2>3, <2>4, SameTransitive
  <2> QED BY <2>5
<1>6. Same(eval(f, r), 0)
  <2>1. (r - r) * w = 0
    BY <1>2
  <2> QED BY <1>2, <1>5, <2>1
<1>7. Same(eval(f, p), 1)
  <2> PICK u \in Int, v \in Int : u = e * w /\ v = d * w /\ mod(v) = 1
    BY <1>1, <1>2
  <2>1. Same(eval(f, p), u)
    BY <1>2, <1>5
  <2>2. Same(v, u)
    BY <1>2, SameProduct
  <2>3. Same(v, 1)
    BY ModIsSame
  <2> PICK one \in Int : one = 1
    OBVIOUS
  <2>4. Same(u, v) /\ Same(v, one)
    BY <2>2, <2>3, SameSymmetric
  <2>5. Same(u, one)
    BY <2>4, SameTransitive
  <2>6. eval(f, p) \in Int
    <3>1. 2 \in Nat
      OBVIOUS
    <3> QED BY <1>2, <1>4, <3>1, EvalType, FieldNumbers
  <2>7. Same(eval(f, p), one)
    BY <2>1, <2>5, <2>6, SameTransitive
  <2> QED BY <2>7
<1> QED BY <1>4, <1>6, <1>7

\* Points no two of which are the same.
DistinctPoints(points, n) ==
  points \in Poly(n) /\ \A i, j \in 1 .. n : i # j => points[i] # points[j]

(***************************************************************************)
(* Interpolation: the polynomial has the values that are asked for at the  *)
(* points, and no more coefficients than there are points.                 *)
(***************************************************************************)
LEMMA Interpolates ==
  ASSUME NEW n \in Nat, NEW values \in Poly(n), NEW points, DistinctPoints(points, n)
  PROVE  /\ interpolate(values, points) \in Poly(n)
         /\ \A i \in 1 .. n : eval(interpolate(values, points), points[i]) = values[i]
<1>1. /\ Len(points) = n /\ DOMAIN points = 1 .. n
      /\ \A i \in 1 .. n : /\ points[i] \in Field /\ points[i] \in Int
                           /\ values[i] \in Field /\ values[i] \in Int
      /\ \A i, j \in 1 .. n : i # j => points[i] # points[j]
  BY PolyIsSequence DEF DistinctPoints
<1> DEFINE other(k, j) == IF k < j THEN k ELSE k + 1
           terms(j) == [k \in 1 .. Len(points) - 1 |-> factor(points[j], points[other(k, j)])]
           base(j) == FoldLeft(times, << values[j] >>, terms(j))
           bases == [j \in DOMAIN points |-> base(j)]
<1>2. interpolate(values, points) = FoldLeft(plus, << >>, bases)
  BY DEF interpolate, factor
<1>3. ASSUME NEW j \in 1 .. n
      PROVE  /\ n - 1 \in Nat /\ terms(j) \in [1 .. n - 1 -> Poly(2)]
             /\ \A k \in 1 .. n - 1 : /\ other(k, j) \in 1 .. n /\ other(k, j) # j
                                      /\ terms(j)[k] = factor(points[j], points[other(k, j)])
             /\ << values[j] >> \in Poly(1) /\ << values[j] >>[1] = values[j]
  <2>1. \A k \in 1 .. n - 1 : other(k, j) \in 1 .. n /\ other(k, j) # j
    OBVIOUS
  <2> HIDE DEF other
  <2>2. Len(points) - 1 = n - 1 /\ n - 1 \in Nat
    BY <1>1
  <2>3. terms(j) = [k \in 1 .. n - 1 |-> factor(points[j], points[other(k, j)])]
    BY <2>2
  <2>4. \A k \in 1 .. n - 1 : factor(points[j], points[other(k, j)]) \in Poly(2)
    BY <1>1, <2>1, FactorValues
  <2>5. << values[j] >> \in Poly(1) /\ << values[j] >>[1] = values[j]
    BY <1>1 DEF Poly
  <2> HIDE DEF terms
  <2> QED BY <2>1, <2>2, <2>3, <2>4, <2>5
<1>4. ASSUME NEW j \in 1 .. n PROVE base(j) \in Poly(n)
  <2> HIDE DEF terms
  <2>1. base(j) \in Poly((n - 1) + 1) /\ (n - 1) + 1 = n
    BY <1>3, ProductType
  <2> QED BY <2>1
<1>5. ASSUME NEW i \in 1 .. n, NEW j \in 1 .. n
      PROVE  Same(eval(base(j), points[i]), IF j = i THEN values[i] ELSE 0)
  <2> HIDE DEF terms, other
  <2>0. /\ Units(terms(j), n - 1, points[i]) => Same(eval(base(j), points[i]), << values[j] >>[1])
        /\ Vanishes(terms(j), n - 1, points[i]) => Same(eval(base(j), points[i]), 0)
    BY <1>1, <1>3, EvalProduct
  <2>1. CASE i = j
    <3>1. Units(terms(j), n - 1, points[i])
      <4> SUFFICES ASSUME NEW k \in 1 .. n - 1 PROVE Same(eval(terms(j)[k], points[i]), 1)
        BY DEF Units
      <4>1. other(k, j) \in 1 .. n /\ other(k, j) # j /\ terms(j)[k] = factor(points[j], points[other(k, j)])
        BY <1>3
      <4>2. points[j] \in Field /\ points[other(k, j)] \in Field /\ points[j] # points[other(k, j)]
        BY <1>1, <4>1
      <4> QED BY <2>1, <4>1, <4>2, FactorValues
    <3> QED BY <1>3, <2>0, <2>1, <3>1
  <2>2. CASE i # j
    <3>1. PICK k \in 1 .. n - 1 : other(k, j) = i
      <4>1. CASE i < j
        <5>1. i \in 1 .. n - 1 /\ other(i, j) = i
          BY <4>1 DEF other
        <5> QED BY <5>1
      <4>2. CASE j < i
        <5>1. i - 1 \in 1 .. n - 1 /\ other(i - 1, j) = i
          BY <4>2 DEF other
        <5> QED BY <5>1
      <4> QED BY <2>2, <4>1, <4>2
    <3>2. points[j] \in Field /\ points[i] \in Field /\ points[j] # points[i]
      BY <1>1, <2>2
    <3>3. Same(eval(terms(j)[k], points[i]), 0)
      BY <1>3, <3>1, <3>2, FactorValues
    <3>4. Vanishes(terms(j), n - 1, points[i])
      BY <3>3 DEF Vanishes
    <3> QED BY <2>0, <2>2, <3>4
  <2> QED BY <2>1, <2>2
<1> HIDE DEF base
<1>6. bases \in [1 .. n -> Poly(n)] /\ \A j \in 1 .. n : bases[j] = base(j)
  BY <1>1, <1>4
<1> HIDE DEF bases
<1>7. n = 0 => << >> \in Poly(n)
  BY DEF Poly
<1>8. interpolate(values, points) \in Poly(n)
  BY <1>2, <1>6, <1>7, SumOfPolynomials
<1>9. ASSUME NEW i \in 1 .. n
      PROVE  eval(interpolate(values, points), points[i]) = values[i]
  <2>1. OnlyOne(bases, n, i, values[i], points[i])
    BY <1>5, <1>6 DEF OnlyOne
  <2>2. Same(eval(interpolate(values, points), points[i]), values[i])
    BY <1>1, <1>2, <1>6, <2>1, EvalSum
  <2>3. eval(interpolate(values, points), points[i]) \in Field
    BY <1>1, <1>8, EvalType
  <2> QED BY <1>1, <2>2, <2>3, SameInField
<1> QED BY <1>8, <1>9

---------------------------------------------------------------------------
(* Rows, and the decoding of them.                                         *)

\* Places up to N are N.
LEMMA PlacesCount == \A N \in Nat : IsFiniteSet(1 .. N) /\ Cardinality(1 .. N) = N
<1> TAKE N \in Nat
<1>1. 1 \in Int /\ N \in Int
  OBVIOUS
<1>2. IsFiniteSet(1 .. N) /\ Cardinality(1 .. N) = IF 1 > N THEN 0 ELSE N - 1 + 1
  BY <1>1, FS_Interval
<1>3. (IF 1 > N THEN 0 ELSE N - 1 + 1) = N
  OBVIOUS
<1> QED BY <1>2, <1>3

\* A finite set of numbers can be sorted: each has a place of its own.
LEMMA Ascending ==
  ASSUME NEW S \in SUBSET Int, IsFiniteSet(S), NEW N \in Nat, N = Cardinality(S)
  PROVE  /\ ascending(S) \in [1 .. N -> S]
         /\ \A i, j \in 1 .. N : i < j => ascending(S)[i] < ascending(S)[j]
<1>0. IsFiniteSet(1 .. N) /\ Cardinality(1 .. N) = N
  BY PlacesCount
<1> DEFINE upto(n) == { m \in S : m =< n }
           rank == [n \in S |-> Cardinality(upto(n))]
           s == [i \in 1 .. N |-> CHOOSE n \in S : rank[n] = i]
<1>3. ASSUME NEW n \in S
      PROVE  IsFiniteSet(upto(n)) /\ Cardinality(upto(n)) \in 1 .. N
  <2>1. upto(n) \in SUBSET S /\ n \in upto(n)
    OBVIOUS
  <2> HIDE DEF upto
  <2>2. IsFiniteSet(upto(n)) /\ Cardinality(upto(n)) =< N
    BY <2>1, FS_Subset
  <2>3. Cardinality(upto(n)) \in Nat /\ Cardinality(upto(n)) # 0
    BY <2>1, <2>2, FS_CardinalityType, FS_EmptySet
  <2> QED BY <2>2, <2>3
<1>4. ASSUME NEW m \in S, NEW n \in S, m < n
      PROVE  rank[m] < rank[n]
  <2>1. upto(m) \in SUBSET upto(n) /\ n \in upto(n) /\ n \notin upto(m)
    <3>1. ASSUME NEW k \in upto(m) PROVE k \in upto(n)
      BY <1>4
    <3>2. n \in upto(n) /\ ~ n =< m
      BY <1>4
    <3> QED BY <3>1, <3>2
  <2>2. rank[m] = Cardinality(upto(m)) /\ rank[n] = Cardinality(upto(n))
    OBVIOUS
  <2> HIDE DEF upto, rank
  <2>3. Cardinality(upto(m)) =< Cardinality(upto(n)) /\ Cardinality(upto(m)) # Cardinality(upto(n))
    BY <1>3, <2>1, FS_Subset
  <2> QED BY <1>3, <2>2, <2>3
<1>5. rank \in [S -> 1 .. N]
  <2> HIDE DEF upto
  <2> QED BY <1>3
<1> HIDE DEF rank
<1>6. rank \in Surjection(S, 1 .. N)
  <2>1. ASSUME NEW m \in S, NEW n \in S, rank[m] = rank[n] PROVE m = n
    <3>1. ~ m < n /\ ~ n < m
      BY <1>4, <1>5, <2>1
    <3> QED BY <3>1
  <2>2. rank \in Injection(S, 1 .. N)
    BY <1>5, <2>1 DEF Injection, IsInjective
  <2> QED BY <1>0, <2>2, FS_Injection
<1>7. ASSUME NEW i \in 1 .. N PROVE s[i] \in S /\ rank[s[i]] = i
  <2>1. \E n \in S : rank[n] = i
    BY <1>6 DEF Surjection
  <2> QED BY <2>1
<1> HIDE DEF s
<1>8. ASSUME NEW i \in 1 .. N, NEW j \in 1 .. N, i < j PROVE s[i] < s[j]
  <2>1. s[i] \in S /\ s[j] \in S /\ s[i] \in Int /\ s[j] \in Int /\ rank[s[i]] = i /\ rank[s[j]] = j
    BY <1>7
  <2>2. ~ s[j] < s[i] /\ s[i] # s[j]
    BY <1>4, <1>8, <2>1
  <2> QED BY <2>1, <2>2
<1>9. s \in [1 .. N -> S]
  BY <1>7 DEF s
<1>10. ascending(S) = CHOOSE t \in [1 .. N -> S] : \A i, j \in 1 .. N : i < j => t[i] < t[j]
  BY DEF ascending
<1> QED BY <1>8, <1>9, <1>10

\* The polynomial of a row has the values of the row at the first roots.
LEMMA RowPolynomial ==
  ASSUME NEW n \in Nat, n =< RootsOrder, NEW row \in Poly(n)
  PROVE  /\ bytes_to_polynomial(row) \in Poly(n)
         /\ \A c \in 1 .. n : eval(bytes_to_polynomial(row), ROOTS_OF_UNITY[c]) = row[c]
<1> PICK points : points = SubSeq(ROOTS_OF_UNITY, 1, Len(row))
  OBVIOUS
<1>1. Len(row) = n
  BY PolyIsSequence
<1>2. points = [i \in 1 .. n |-> ROOTS_OF_UNITY[i]]
  <2>1. points = SubSeq(ROOTS_OF_UNITY, 1, n)
    BY <1>1
  <2> QED BY <2>1
<1>3. DistinctPoints(points, n) /\ \A c \in 1 .. n : points[c] = ROOTS_OF_UNITY[c]
  <2>1. \A c \in 1 .. n : c \in 1 .. RootsOrder
    BY FieldAssumption
  <2>2. \A c \in 1 .. n : ROOTS_OF_UNITY[c] \in Field
    BY <2>1, RootsType
  <2>3. \A i, j \in 1 .. n : i # j => ROOTS_OF_UNITY[i] # ROOTS_OF_UNITY[j]
    BY <2>1, RootsType
  <2> QED BY <1>2, <2>2, <2>3 DEF DistinctPoints, Poly
<1>4. bytes_to_polynomial(row) = interpolate(row, points)
  BY DEF bytes_to_polynomial
<1>5. /\ interpolate(row, points) \in Poly(n)
      /\ \A c \in 1 .. n : eval(interpolate(row, points), points[c]) = row[c]
  BY <1>3, Interpolates
<1> PICK f : f = bytes_to_polynomial(row)
  OBVIOUS
<1>6. f \in Poly(n) /\ \A c \in 1 .. n : eval(f, points[c]) = row[c]
  BY <1>4, <1>5
<1>7. \A c \in 1 .. n : eval(f, ROOTS_OF_UNITY[c]) = row[c]
  BY <1>3, <1>6
<1> QED BY <1>6, <1>7

\* What is known of an encoded row: its values at n places.
Known(encoded, f, n) ==
  /\ DOMAIN encoded \in SUBSET (1 .. RootsOrder)
  /\ IsFiniteSet(DOMAIN encoded) /\ Cardinality(DOMAIN encoded) = n
  /\ \A c \in DOMAIN encoded : encoded[c] = eval(f, ROOTS_OF_UNITY[c])

\* As many values as coefficients are enough to have the polynomial back.
LEMMA Decodes ==
  ASSUME NEW n \in Nat, NEW f \in Poly(n), NEW encoded, Known(encoded, f, n)
  PROVE  decode(encoded, n) \in Poly(n) /\ \A x \in Field : eval(decode(encoded, n), x) = eval(f, x)
<1> PICK S : S = DOMAIN encoded
  OBVIOUS
<1> PICK known : known = ascending(S)
  OBVIOUS
<1>1. /\ S \in SUBSET (1 .. RootsOrder) /\ IsFiniteSet(S) /\ Cardinality(S) = n
      /\ \A c \in S : encoded[c] = eval(f, ROOTS_OF_UNITY[c])
  BY DEF Known
<1>2. /\ known \in [1 .. n -> S]
      /\ \A i, j \in 1 .. n : i < j => known[i] < known[j]
  <2>1. S \in SUBSET Int
    BY <1>1, FieldAssumption
  <2> QED BY <1>1, <2>1, Ascending
<1>3. \A i \in 1 .. n : known[i] \in S /\ known[i] \in 1 .. RootsOrder /\ known[i] \in Int
  BY <1>1, <1>2
<1>4. \A i, j \in 1 .. n : i # j => known[i] # known[j]
  <2> SUFFICES ASSUME NEW i \in 1 .. n, NEW j \in 1 .. n, i # j PROVE known[i] # known[j]
    OBVIOUS
  <2>1. i < j \/ j < i
    OBVIOUS
  <2> PICK a \in Int, b \in Int : a = known[i] /\ b = known[j]
    BY <1>3
  <2>2. a < b \/ b < a
    BY <1>2, <2>1
  <2>3. a # b
    BY <2>2
  <2> QED BY <2>3
<1> DEFINE values == [i \in 1 .. n |-> encoded[known[i]]]
           points == [i \in 1 .. n |-> ROOTS_OF_UNITY[known[i]]]
<1>5. \A i \in 1 .. n : /\ ROOTS_OF_UNITY[known[i]] \in Field
                       /\ encoded[known[i]] = eval(f, ROOTS_OF_UNITY[known[i]])
  BY <1>1, <1>3, RootsType
<1>6. values \in Poly(n)
  <2> SUFFICES ASSUME NEW i \in 1 .. n PROVE encoded[known[i]] \in Field
    BY DEF Poly
  <2> QED BY <1>5, EvalType, FieldNumbers
<1>7. DistinctPoints(points, n)
  <2>1. \A i, j \in 1 .. n : i # j => ROOTS_OF_UNITY[known[i]] # ROOTS_OF_UNITY[known[j]]
    BY <1>3, <1>4, RootsType
  <2> QED BY <1>5, <2>1 DEF DistinctPoints, Poly
<1> PICK g \in Poly(n) : /\ g = interpolate(values, points)
                         /\ \A i \in 1 .. n : eval(g, points[i]) = values[i]
  <2> HIDE DEF values, points
  <2> QED BY <1>6, <1>7, Interpolates
<1>8. decode(encoded, n) = g
  <2>1. DOMAIN known = 1 .. n
    BY <1>2
  <2>2. Len(g) = n /\ g = [i \in 1 .. n |-> g[i]]
    BY PolyIsSequence DEF Poly
  <2>3. decode(encoded, n) = SubSeq(g, 1, n)
    <3>1. decode(encoded, n) = SubSeq(g, 1, IF n < Len(g) THEN n ELSE Len(g))
      BY <2>1 DEF decode
    <3>2. (IF n < Len(g) THEN n ELSE Len(g)) = n
      BY <2>2
    <3> QED BY <3>1, <3>2
  <2>4. SubSeq(g, 1, n) = [i \in 1 .. n |-> g[i]]
    BY <2>2
  <2> QED BY <2>2, <2>3, <2>4
<1> DEFINE D == { points[i] : i \in 1 .. n }
<1>9. D \in SUBSET Field /\ IsFiniteSet(D) /\ Cardinality(D) = n
  <2> HIDE DEF points
  <2>1. points \in [1 .. n -> D] /\ \A d \in D : \E i \in 1 .. n : points[i] = d
    BY <1>7 DEF DistinctPoints, Poly
  <2>2. \A i, j \in 1 .. n : points[i] = points[j] => i = j
    BY <1>7 DEF DistinctPoints
  <2>3. points \in Bijection(1 .. n, D)
    BY <2>1, <2>2 DEF Bijection, Injection, Surjection, IsInjective
  <2>4. ExistsBijection(1 .. n, D)
    BY <2>3 DEF ExistsBijection
  <2>5. D \in SUBSET Field
    BY <1>7 DEF DistinctPoints, Poly
  <2>6. IsFiniteSet(1 .. n) /\ Cardinality(1 .. n) = n
    BY PlacesCount
  <2> HIDE DEF D
  <2> QED BY <2>4, <2>5, <2>6, FS_Bijection
<1>10. AgreeOn(g, f, D)
  <2> SUFFICES ASSUME NEW i \in 1 .. n PROVE Same(eval(g, points[i]), eval(f, points[i]))
    BY DEF AgreeOn
  <2>1. eval(g, points[i]) = eval(f, points[i])
    BY <1>5
  <2>2. points[i] \in Field
    BY <1>5
  <2>3. eval(f, points[i]) \in Int
    BY <2>2, EvalType, FieldNumbers
  <2> QED BY <2>1, <2>3, SameReflexive
<1> HIDE DEF D
<1>11. AgreeOn(g, f, Field)
  BY <1>9, <1>10, Agree
<1>12. ASSUME NEW x \in Field PROVE eval(g, x) = eval(f, x)
  <2>1. eval(g, x) \in Field /\ eval(f, x) \in Field
    BY EvalType, FieldNumbers
  <2> QED BY <1>11, <2>1, SameInField DEF AgreeOn
<1> QED BY <1>8, <1>12

---------------------------------------------------------------------------
(* What is dispersed.                                                      *)

LEMMA QuotientType == \A l \in Nat, n \in Nat \ {0} : l \div n \in Nat
<1> TAKE l \in Nat, n \in Nat \ {0}
<1> QED OBVIOUS

LEMMA ProductGrows == \A q, n \in Nat : q * n \in Nat /\ (q + 1) * n = q * n + n
OBVIOUS

LEMMA SmallerOfTwo ==
  \A a, b \in Nat : /\ (IF a < b THEN a ELSE b) \in Nat
                    /\ (IF a < b THEN a ELSE b) =< a /\ (IF a < b THEN a ELSE b) =< b
OBVIOUS

\* A slice holds what the sequence holds, and is as long as its ends are apart.
LEMMA Slice ==
  ASSUME NEW S, NEW s \in Seq(S), NEW k \in Nat, NEW l \in Nat, l =< Len(s),
         NEW n \in Nat, l =< k + n
  PROVE  SubSeq(s, k + 1, l) \in Seq(S) /\ Len(SubSeq(s, k + 1, l)) =< n
<1>1. CASE k < l
  <2> PICK m \in Nat : m = l - k
    BY <1>1
  <2>1. m =< n /\ \A i \in 1 .. m : s[k + i] \in S
    <3>1. \A i \in 1 .. m : k + i \in 1 .. Len(s)
      OBVIOUS
    <3> QED BY <3>1
  <2>2. SubSeq(s, k + 1, l) = [i \in 1 .. m |-> s[k + i]]
    <3>1. 1 + l - (k + 1) = m
      OBVIOUS
    <3>2. \A i \in 1 .. m : i + (k + 1) - 1 = k + i
      OBVIOUS
    <3> QED BY <3>1, <3>2
  <2> QED BY <2>1, <2>2
<1>2. CASE l =< k
  <2>1. 1 .. 1 + l - (k + 1) = {}
    BY <1>2
  <2>2. SubSeq(s, k + 1, l) = << >>
    BY <2>1
  <2> QED BY <2>2
<1> QED BY <1>1, <1>2

\* The rows of the data are no longer than asked for.
LEMMA RowsType ==
  ASSUME NEW p \in Publications
  PROVE  \E R \in Nat : /\ DOMAIN _chunkify_data(p) = 1 .. R
                        /\ \A r \in 1 .. R : /\ _chunkify_data(p)[r] \in Seq(Field)
                                             /\ Len(_chunkify_data(p)[r]) =< p.column_count
<1> PICK n \in Nat \ {0} : n = p.column_count
  BY FlowAssumption
<1> PICK data \in Seq(Field) : data = p.data
  BY FlowAssumption
<1> PICK R \in Nat : R = (Len(data) + n - 1) \div n
  <2>1. Len(data) + n - 1 \in Nat
    OBVIOUS
  <2> QED BY <2>1, QuotientType
<1> DEFINE start(r) == (r - 1) * n + 1
           end(r) == IF r * n < Len(data) THEN r * n ELSE Len(data)
<1>1. _chunkify_data(p) = [r \in 1 .. R |-> SubSeq(data, start(r), end(r))]
  BY DEF _chunkify_data
<1>2. ASSUME NEW r \in 1 .. R
      PROVE  /\ SubSeq(data, start(r), end(r)) \in Seq(Field)
             /\ Len(SubSeq(data, start(r), end(r))) =< n
  <2>1. PICK k \in Nat : start(r) = k + 1 /\ r * n = k + n
    <3>1. PICK q \in Nat : q = r - 1
      OBVIOUS
    <3>2. q + 1 = r
      BY <3>1
    <3>3. q * n \in Nat /\ (q + 1) * n = q * n + n
      BY ProductGrows
    <3>4. PICK k \in Nat : k = q * n
      BY <3>3
    <3> QED BY <3>1, <3>2, <3>3, <3>4
  <2>2. PICK l \in Nat : l = end(r) /\ l =< Len(data) /\ l =< k + n
    <3>1. Len(data) \in Nat
      OBVIOUS
    <3>2. end(r) = IF k + n < Len(data) THEN k + n ELSE Len(data)
      BY <2>1
    <3>3. k + n \in Nat
      OBVIOUS
    <3> HIDE DEF start, end
    <3>4. end(r) \in Nat /\ end(r) =< Len(data) /\ end(r) =< k + n
      BY <3>1, <3>2, <3>3, SmallerOfTwo
    <3> QED BY <3>4
  <2>3. SubSeq(data, k + 1, l) \in Seq(Field) /\ Len(SubSeq(data, k + 1, l)) =< n
    BY <2>2, Slice
  <2> HIDE DEF start, end
  <2> QED BY <2>1, <2>2, <2>3
<1> HIDE DEF start, end
<1> QED BY <1>1, <1>2

\* The polynomials of the rows are no longer than the setup, and have as many roots.
LEMMA PolynomialsType ==
  ASSUME NEW p \in Publications
  PROVE  \E R \in Nat :
           /\ DOMAIN row_polynomials(p) = 1 .. R
           /\ \A r \in 1 .. R : \E m \in Nat : 2 * m =< RootsOrder /\ row_polynomials(p)[r] \in Poly(m)
<1> PICK rows : rows = _chunkify_data(p)
  OBVIOUS
<1>1. PICK R \in Nat : /\ DOMAIN rows = 1 .. R
                       /\ \A r \in 1 .. R : rows[r] \in Seq(Field) /\ Len(rows[r]) =< p.column_count
  BY RowsType
<1>2. row_polynomials(p) = [r \in 1 .. R |-> bytes_to_polynomial(rows[r])]
  BY <1>1 DEF row_polynomials
<1>3. ASSUME NEW r \in 1 .. R
      PROVE  \E m \in Nat : 2 * m =< RootsOrder /\ bytes_to_polynomial(rows[r]) \in Poly(m)
  <2>1. PICK m \in Nat : m = Len(rows[r]) /\ 2 * m =< RootsOrder /\ m =< RootsOrder
    <3> PICK n \in Nat : n = p.column_count /\ 2 * n =< RootsOrder
      BY FlowAssumption
    <3>1. Len(rows[r]) \in Nat /\ Len(rows[r]) =< n
      BY <1>1
    <3> QED BY <3>1, FieldAssumption
  <2>2. rows[r] \in Poly(m)
    BY <1>1, <2>1 DEF Poly
  <2> QED BY <2>1, <2>2, RowPolynomial
<1> QED BY <1>2, <1>3

\* A commitment names a point of the group.
LEMMA CommitmentType ==
  ASSUME NEW m \in Nat, m =< RootsOrder, NEW f \in Poly(m)
  PROVE  g1_linear_combination(f) \in Field
<1> DEFINE h == [i \in DOMAIN f |-> f[i] * GLOBAL_PARAMETERS[i]]
<1>1. DOMAIN f = 1 .. m /\ DOMAIN h = DOMAIN f /\ IsFiniteSet(DOMAIN h)
  BY PolyIsSequence
<1>2. ASSUME NEW i \in DOMAIN h PROVE h[i] \in Int
  <2>1. f[i] \in Int
    BY <1>1, <1>2, PolyIsSequence
  <2>2. i \in 1 .. RootsOrder
    BY <1>1, <1>2, FieldAssumption
  <2>3. GLOBAL_PARAMETERS[i] \in Int
    BY <2>2, ParametersType
  <2> QED BY <2>1, <2>3
<1> HIDE DEF h
<1>3. sum_of(h) \in Field
  BY <1>1, <1>2, SumType
<1> QED BY <1>3 DEF h, g1_linear_combination

\* A share holds a field element of every row, and a commitment to every row.
LEMMA ShareType ==
  ASSUME NEW p \in Publications, NEW share \in Range(shares_of(p))
  PROVE  /\ \E R \in Nat : share.column \in Poly(R) /\ share.row_commitments \in Poly(R)
         /\ share.row_commitments = commitments_of(row_polynomials(p))
         /\ share.column_idx \in DOMAIN shares_of(p) /\ share = shares_of(p)[share.column_idx]
         /\ share = [column |-> share.column, column_idx |-> share.column_idx,
                     proof |-> share.proof, row_commitments |-> share.row_commitments]
<1> PICK polys : polys = row_polynomials(p)
  OBVIOUS
<1>1. PICK R \in Nat :
        /\ DOMAIN polys = 1 .. R
        /\ \A r \in 1 .. R : \E m \in Nat : 2 * m =< RootsOrder /\ polys[r] \in Poly(m)
  BY PolynomialsType
<1> DEFINE matrix == [r \in DOMAIN polys |-> encode_row(polys[r], 2)]
           extended == columns(matrix)
           proof(c) == generate_element_proof(ROOTS_OF_UNITY[c], combined(polys))
<1>2. shares_of(p) = [c \in { c \in DOMAIN extended : c =< 2 * p.column_count } |->
         [column |-> extended[c], column_idx |-> c, proof |-> proof(c),
          row_commitments |-> commitments_of(polys)]]
  BY DEF shares_of
<1> HIDE DEF proof
<1>3. PICK c \in DOMAIN shares_of(p) : share = shares_of(p)[c]
  BY DEF Range
<1>4. c \in DOMAIN extended /\ share = [column |-> extended[c], column_idx |-> c, proof |-> proof(c),
                                        row_commitments |-> commitments_of(polys)]
  BY <1>2, <1>3
<1>5. ASSUME NEW r \in 1 .. R, NEW d \in DOMAIN matrix[r] PROVE matrix[r][d] \in Field
  <2>1. PICK m \in Nat : 2 * m =< RootsOrder /\ polys[r] \in Poly(m)
    BY <1>1
  <2>2. Len(polys[r]) = m
    BY <2>1, PolyIsSequence
  <2>3. matrix[r] = [i \in 1 .. m * 2 |-> eval(polys[r], ROOTS_OF_UNITY[i])]
    BY <1>1, <2>2 DEF encode_row
  <2>4. d \in 1 .. RootsOrder /\ matrix[r][d] = eval(polys[r], ROOTS_OF_UNITY[d])
    BY <1>5, <2>1, <2>3, FieldAssumption
  <2>5. ROOTS_OF_UNITY[d] \in Int
    BY <2>4, RootsType, FieldNumbers
  <2> QED BY <2>1, <2>4, <2>5, EvalType
<1>6. DOMAIN matrix = 1 .. R
  BY <1>1
<1> HIDE DEF matrix
<1>7. extended[c] \in Poly(R)
  <2>1. extended[c] = [r \in DOMAIN matrix |-> IF c \in DOMAIN matrix[r] THEN matrix[r][c] ELSE 0]
    BY <1>4 DEF columns
  <2> HIDE DEF extended
  <2> QED BY <1>5, <1>6, <2>1, FieldNumbers DEF Poly
<1>8. commitments_of(polys) \in Poly(R)
  <2> SUFFICES ASSUME NEW r \in 1 .. R PROVE g1_linear_combination(polys[r]) \in Field
    BY <1>1 DEF commitments_of, Poly
  <2>1. PICK m \in Nat : m =< RootsOrder /\ polys[r] \in Poly(m)
    BY <1>1, FieldAssumption
  <2> QED BY <2>1, CommitmentType
<1> HIDE DEF extended
<1>9. /\ share.column = extended[c] /\ share.row_commitments = commitments_of(polys)
      /\ share.column_idx = c /\ share.proof = proof(c)
  BY <1>4
<1>10. share = [column |-> share.column, column_idx |-> share.column_idx,
                proof |-> share.proof, row_commitments |-> share.row_commitments]
  BY <1>4, <1>9
<1> QED BY <1>3, <1>7, <1>8, <1>9, <1>10

\* A common factor is taken out.
LEMMA SameFactor ==
  ASSUME NEW x \in Int, NEW y \in Int, NEW P \in Int, Same(y * P, x * P)
  PROVE  Same((y - x) * P, 0)
<1> PICK m \in Nat \ {0} : m = BLS_MODULUS
  BY FieldAssumption
<1>1. PICK q \in Int : y * P - x * P = q * m
  BY DEF Same
<1>2. (y - x) * P - 0 = y * P - x * P
  OBVIOUS
<1>3. (y - x) * P - 0 = q * m
  BY <1>1, <1>2
<1> QED BY <1>3 DEF Same

\* Columns that differ in one chunk, in whatever way, do not both verify with the same proof: the
\* challenge is not 0.
LEMMA AlterationRejected ==
  ASSUME NEW p \in Publications, NEW share \in Range(shares_of(p)), verify(share),
         NEW a, a = [share EXCEPT !.column = a.column], verify(a),
         NEW R \in Nat, share.column \in Poly(R), a.column \in Poly(R),
         NEW r \in 1 .. R, \A i \in 1 .. R : i # r => a.column[i] = share.column[i]
  PROVE  a.column[r] = share.column[r]
<1>1. PICK S \in Nat : share.row_commitments \in Poly(S)
  BY ShareType
<1> PICK col \in Poly(R), new \in Poly(R) : col = share.column /\ new = a.column
  OBVIOUS
<1>2. /\ a.column_idx = share.column_idx /\ a.proof = share.proof
      /\ a.row_commitments = share.row_commitments
  BY ShareType
<1>3. DOMAIN col = 1 .. R /\ DOMAIN new = 1 .. R
  BY PolyIsSequence
<1>4. \A i \in 1 .. R : i # r => new[i] = col[i]
  OBVIOUS
<1> PICK h \in Field \ {0} : h = derive_challenge(share.row_commitments)
  BY ShareType, ChallengeAssumption
<1> DEFINE weighted(f) == [i \in DOMAIN f |-> f[i] * pow(h, i - 1)]
<1>5. ASSUME NEW T \in Nat, NEW f \in Poly(T)
      PROVE  /\ DOMAIN weighted(f) = 1 .. T /\ IsFiniteSet(1 .. T)
             /\ \A i \in 1 .. T : weighted(f)[i] \in Int /\ weighted(f)[i] = f[i] * pow(h, i - 1)
             /\ sum_of(weighted(f)) \in Field
  <2>1. DOMAIN f = 1 .. T /\ IsFiniteSet(1 .. T)
    BY PolyIsSequence
  <2>2. ASSUME NEW i \in 1 .. T PROVE f[i] * pow(h, i - 1) \in Int
    <3>1. f[i] \in Int
      BY <2>1, PolyIsSequence
    <3>2. pow(h, i - 1) \in Int
      <4>1. i - 1 \in Nat
        OBVIOUS
      <4> QED BY <4>1, PowNonzero
    <3> QED BY <3>1, <3>2
  <2>3. DOMAIN weighted(f) = 1 .. T /\ \A i \in 1 .. T : weighted(f)[i] = f[i] * pow(h, i - 1)
    BY <2>1
  <2> HIDE DEF weighted
  <2> QED BY <2>1, <2>2, <2>3, SumType
<1> PICK v \in Field, w \in Field, c \in Field :
      v = sum_of(weighted(col)) /\ w = sum_of(weighted(new)) /\ c = sum_of(weighted(share.row_commitments))
  BY <1>1, <1>5
<1>6. v = w
  <2>1. c \in Int /\ v \in Int /\ w \in Int /\ c - v \in Int /\ c - w \in Int
    BY FieldNumbers
  <2>2. mod(c - v) = mod(c - w)
    BY <1>2 DEF verify, verify_element_proof, compute_combined_evaluation, combine_commitments
  <2>3. Same(c - v, c - w)
    BY <2>1, <2>2, SameMod
  <2>4. Same(v, w)
    BY <2>1, <2>3, SameDifference
  <2> QED BY <2>4, SameInField
<1> HIDE DEF weighted
<1>7. Same(weighted(new)[r], weighted(col)[r])
  <2> PICK F, G : F = weighted(new) /\ G = weighted(col)
    OBVIOUS
  <2>1. DOMAIN F = 1 .. R /\ DOMAIN G = 1 .. R /\ IsFiniteSet(1 .. R)
        /\ (\A i \in 1 .. R : F[i] \in Int /\ G[i] \in Int) /\ sum_of(F) = sum_of(G)
    BY <1>5, <1>6
  <2>2. ASSUME NEW i \in 1 .. R, i # r PROVE F[i] = G[i]
    <3>1. F[i] = new[i] * pow(h, i - 1)
      BY <1>4, <1>5
    <3>2. G[i] = col[i] * pow(h, i - 1)
      BY <1>5
    <3> QED BY <1>4, <2>2, <3>1, <3>2
  <2>3. Same(F[r], G[r])
    BY <1>3, <2>1, <2>2, SumsDiffer
  <2> QED BY <2>3
<1> PICK P \in Field \ {0} : P = pow(h, r - 1)
  <2>1. r - 1 \in Nat
    OBVIOUS
  <2>2. pow(h, r - 1) \in Field
    BY <2>1, PowInField, FieldNumbers
  <2>3. pow(h, r - 1) # 0
    BY <2>1, PowNonzero, SameReflexive
  <2> QED BY <2>2, <2>3
<1> PICK x \in Field, y \in Field : x = col[r] /\ y = new[r]
  BY PolyIsSequence DEF Poly
<1>8. x \in Int /\ y \in Int /\ P \in Int /\ y - x \in Int
  BY FieldNumbers
<1>9. Same(y * P, x * P)
  BY <1>5, <1>7
<1>10. Same((y - x) * P, 0)
  BY <1>8, <1>9, SameFactor
<1>11. Same(y - x, 0)
  BY <1>8, <1>10, NoZeroDivisors
<1>12. Same(y, x)
  <2>1. (y - x) - 0 = y - x
    BY <1>8
  <2> QED BY <1>11, <2>1 DEF Same
<1>13. y = x
  BY <1>12, SameInField
<1> QED BY <1>13

---------------------------------------------------------------------------
\* Nodes are as many as their ids.
LEMMA NodesFinite == IsFiniteSet(Nodes) /\ Cardinality(Nodes) = Len(nodes_ids)
<1> PICK N \in Nat : N = Len(nodes_ids) /\ DOMAIN nodes_ids = 1 .. N
  BY FlowAssumption
<1>0. IsFiniteSet(1 .. N) /\ Cardinality(1 .. N) = N
  BY PlacesCount
<1>1. nodes_ids \in [1 .. N -> Nodes] /\ \A n \in Nodes : \E i \in 1 .. N : nodes_ids[i] = n
  BY FlowAssumption DEF Nodes, ToSet
<1>2. \A i, j \in 1 .. N : nodes_ids[i] = nodes_ids[j] => i = j
  BY FlowAssumption DEF IsInjective
<1>3. nodes_ids \in Bijection(1 .. N, Nodes)
  BY <1>1, <1>2 DEF Bijection, Injection, Surjection, IsInjective
<1>4. ExistsBijection(1 .. N, Nodes)
  BY <1>3 DEF ExistsBijection
<1> QED BY <1>0, <1>4, FS_Bijection

\* The node ids, no two of which are the same, sorted.
LEMMA Sorted ==
  /\ sorted_ids \in [DOMAIN nodes_ids -> Nodes]
  /\ \A i, j \in DOMAIN nodes_ids : i < j => sorted_ids[i] < sorted_ids[j]
<1> PICK N \in Nat : N = Len(nodes_ids) /\ DOMAIN nodes_ids = 1 .. N
  BY FlowAssumption
<1>1. Nodes \in SUBSET Int
  BY FlowAssumption DEF Nodes, ToSet
<1> QED BY <1>1, NodesFinite, Ascending DEF sorted_ids

\* Publications with the same polynomials have the same shares, as far as both have them.
LEMMA SameShares ==
  ASSUME NEW p, NEW q, row_polynomials(p) = row_polynomials(q),
         NEW c \in DOMAIN shares_of(p) \cap DOMAIN shares_of(q)
  PROVE  shares_of(p)[c] = shares_of(q)[c]
BY DEF shares_of

---------------------------------------------------------------------------
(* What the nodes store: all that the argument reads, well-typed.          *)

SendingTypes ==
  /\ DOMAIN blob_store = Nodes
  /\ \A b \in published :
       /\ b.pub \in Publications /\ b.shares = shares_of(b.pub)
       /\ b.blob_id = build_blob_id(commitments_of(row_polynomials(b.pub)))
  /\ DOMAIN sending = {"shares", "next"}
  /\ sending.shares = << >> \/ \E b \in published : sending.shares = b.shares

\* A share that is like the one that was sent, but for the values of its chunks.
ShareOf(sent, share) ==
  /\ share = [sent EXCEPT !.column = share.column]
  /\ share.column_idx = sent.column_idx /\ share.row_commitments = sent.row_commitments
  /\ \A R \in Nat : sent.column \in Poly(R) => share.column \in Poly(R)

(***************************************************************************)
(* What a node has stored is like a share that was sent to some node, and  *)
(* verifies.  This is more than StoredAsSent says, of which columns that   *)
(* verify it is what follows.                                              *)
(***************************************************************************)
SharesVerify ==
  \A n \in Nodes : \A id \in DOMAIN blob_store[n] :
    \E b \in published : \E sent \in Range(b.shares) :
      b.blob_id = id /\ ShareOf(sent, blob_store[n][id]) /\ verify(blob_store[n][id])

\* At the start nothing is stored.
LEMMA InitSending == FlowInit => SendingTypes /\ SharesVerify
<1> SUFFICES ASSUME FlowInit PROVE SendingTypes /\ SharesVerify
  OBVIOUS
<1>1. DOMAIN blob_store = Nodes /\ published = {} /\ sending = [shares |-> << >>, next |-> 1]
      /\ \A n \in Nodes : DOMAIN blob_store[n] = {}
  BY DEF FlowInit
<1> QED BY <1>1 DEF SendingTypes, SharesVerify

\* What arrives is like what was sent, whatever was changed.
LEMMA ShareArrives ==
  ASSUME NEW p \in Publications, NEW sent \in Range(shares_of(p)),
         NEW share \in {sent} \cup altered(sent)
  PROVE  ShareOf(sent, share)
<1>1. sent = [column |-> sent.column, column_idx |-> sent.column_idx,
              proof |-> sent.proof, row_commitments |-> sent.row_commitments]
  BY ShareType
<1>2. CASE share = sent
  BY <1>1, <1>2 DEF ShareOf
<1>3. CASE share \in altered(sent)
  <2>1. PICK change \in [DOMAIN sent.column -> Changes] :
          share = [sent EXCEPT !.column = [r \in DOMAIN sent.column |-> mod(sent.column[r] + change[r])]]
    BY <1>1, <1>3 DEF altered
  <2>2. /\ share.column = [r \in DOMAIN sent.column |-> mod(sent.column[r] + change[r])]
        /\ share.column_idx = sent.column_idx /\ share.row_commitments = sent.row_commitments
        /\ share = [sent EXCEPT !.column = share.column]
    BY <1>1, <2>1
  <2>3. ASSUME NEW R \in Nat, sent.column \in Poly(R) PROVE share.column \in Poly(R)
    <3>1. DOMAIN sent.column = 1 .. R
      BY <2>3, PolyIsSequence
    <3>2. ASSUME NEW r \in 1 .. R PROVE mod(sent.column[r] + change[r]) \in Field
      <4>1. sent.column[r] \in Int /\ change[r] \in Int
        BY <2>3, <3>1, PolyIsSequence, FlowAssumption
      <4>2. sent.column[r] + change[r] \in Int
        BY <4>1
      <4> QED BY <4>2, ModIsSame
    <3> QED BY <2>2, <3>1, <3>2 DEF Poly
  <2> QED BY <2>2, <2>3 DEF ShareOf
<1> QED BY <1>2, <1>3

\* A share that a node accepts is stored by its blob's id; any other leaves the store as it is.
LEMMA ReceiveKeepsStores ==
  ASSUME SendingTypes, SharesVerify, published' = published, NEW n \in Nodes,
         NEW b \in published, NEW sent \in Range(b.shares),
         NEW share \in {sent} \cup altered(sent), receive_blob(n, share)
  PROVE  DOMAIN blob_store' = Nodes /\ SharesVerify'
<1>1. /\ b.pub \in Publications /\ b.shares = shares_of(b.pub)
      /\ b.blob_id = build_blob_id(commitments_of(row_polynomials(b.pub)))
  BY DEF SendingTypes
<1>2. ShareOf(sent, share)
  BY <1>1, ShareArrives
<1>3. blob_id(share) = b.blob_id
  <2>1. sent.row_commitments = commitments_of(row_polynomials(b.pub))
    BY <1>1, ShareType
  <2> QED BY <1>1, <1>2, <2>1 DEF blob_id, ShareOf
<1>4. CASE blob_store' = blob_store
  <2>1. DOMAIN blob_store' = Nodes
    BY <1>4 DEF SendingTypes
  <2>2. SharesVerify'
    BY <1>4 DEF SharesVerify
  <2> QED BY <2>1, <2>2
<1>5. CASE verify(share) /\ blob_store' = [blob_store EXCEPT ![n] = put(@, blob_id(share), share)]
  <2>1. /\ DOMAIN blob_store' = Nodes
        /\ blob_store'[n] = put(blob_store[n], b.blob_id, share)
        /\ \A m \in Nodes \ {n} : blob_store'[m] = blob_store[m]
    BY <1>3, <1>5 DEF SendingTypes
  <2>2. /\ DOMAIN blob_store'[n] = DOMAIN blob_store[n] \cup {b.blob_id}
        /\ blob_store'[n][b.blob_id] = share
        /\ \A id \in DOMAIN blob_store[n] \ {b.blob_id} : blob_store'[n][id] = blob_store[n][id]
    BY <2>1 DEF put
  <2>0. DOMAIN blob_store' = Nodes
    BY <2>1
  <2> SUFFICES ASSUME NEW m \in Nodes, NEW id \in DOMAIN blob_store'[m]
               PROVE  \E d \in published : \E of \in Range(d.shares) :
                        d.blob_id = id /\ ShareOf(of, blob_store'[m][id]) /\ verify(blob_store'[m][id])
    BY <2>0 DEF SharesVerify
  <2>3. CASE m = n /\ id = b.blob_id
    BY <1>2, <1>5, <2>2, <2>3
  <2>4. CASE m # n \/ id # b.blob_id
    <3>1. id \in DOMAIN blob_store[m] /\ blob_store'[m][id] = blob_store[m][id]
      BY <2>1, <2>2, <2>4
    <3> QED BY <3>1 DEF SharesVerify
  <2> QED BY <2>3, <2>4
<1> QED BY <1>4, <1>5 DEF receive_blob

\* Each step keeps what the stores hold.
LEMMA StepSending == SendingTypes /\ SharesVerify /\ [FlowNext]_flow_vars => (SendingTypes /\ SharesVerify)'
<1> SUFFICES ASSUME SendingTypes, SharesVerify, [FlowNext]_flow_vars
             PROVE  SendingTypes' /\ SharesVerify'
  OBVIOUS
<1>1. ASSUME NEW p \in Publications, disperse(p) PROVE SendingTypes' /\ SharesVerify'
  <2>0. PICK shares \in {shares_of(p)} :
          /\ sending' = [shares |-> shares, next |-> 1]
          /\ published' = published \cup
               {[pub |-> p, shares |-> shares,
                 blob_id |-> build_blob_id(commitments_of(row_polynomials(p)))]}
    BY <1>1 DEF disperse
  <2> DEFINE d == [pub |-> p, shares |-> shares,
                   blob_id |-> build_blob_id(commitments_of(row_polynomials(p)))]
  <2>1. PICK b : /\ b.pub = p /\ b.shares = shares_of(p)
                 /\ b.blob_id = build_blob_id(commitments_of(row_polynomials(p)))
                 /\ published' = published \cup {b}
                 /\ sending' = [shares |-> b.shares, next |-> 1]
    <3> SUFFICES /\ d.pub = p /\ d.shares = shares_of(p)
                 /\ d.blob_id = build_blob_id(commitments_of(row_polynomials(p)))
                 /\ published' = published \cup {d}
                 /\ sending' = [shares |-> d.shares, next |-> 1]
      OBVIOUS
    <3> QED BY <2>0
  <2>2. blob_store' = blob_store
    BY <1>1 DEF disperse
  <2>3. SendingTypes'
    BY <2>1, <2>2 DEF SendingTypes
  <2>4. SharesVerify'
    BY <2>1, <2>2 DEF SharesVerify
  <2> QED BY <2>3, <2>4
<1>2. CASE send_and_await_response
  <2> PICK share : share = sending.shares[sending.next]
    OBVIOUS
  <2>1. /\ pairs_left /\ published' = published
        /\ sending' = [sending EXCEPT !.next = @ + 1]
        /\ \/ receive_blob(sorted_ids[sending.next], share)
           \/ blob_store' = blob_store
           \/ \E n \in Nodes, a \in altered(share) : receive_blob(n, a)
    BY <1>2 DEF send_and_await_response, go_astray
  <2>2. DOMAIN sending' = {"shares", "next"} /\ sending'.shares = sending.shares
    BY <2>1 DEF SendingTypes
  <2>3. PICK b \in published : share \in Range(b.shares)
    BY <2>1 DEF SendingTypes, pairs_left, Range
  <2>4. sorted_ids[sending.next] \in Nodes
    BY <2>1, Sorted DEF pairs_left
  <2>5. DOMAIN blob_store' = Nodes /\ SharesVerify'
    <3>1. CASE receive_blob(sorted_ids[sending.next], share)
      BY <2>1, <2>3, <2>4, <3>1, ReceiveKeepsStores
    <3>2. CASE blob_store' = blob_store
      BY <2>1, <3>2 DEF SendingTypes, SharesVerify
    <3>3. ASSUME NEW n \in Nodes, NEW a \in altered(share), receive_blob(n, a)
          PROVE  DOMAIN blob_store' = Nodes /\ SharesVerify'
      BY <2>1, <2>3, <3>3, ReceiveKeepsStores
    <3> QED BY <2>1, <3>1, <3>2, <3>3
  <2>6. SendingTypes'
    BY <2>1, <2>2, <2>5 DEF SendingTypes
  <2> QED BY <2>5, <2>6
<1>3. ASSUME UNCHANGED << sending, blob_store, published >> PROVE SendingTypes' /\ SharesVerify'
  <2>1. sending' = sending /\ blob_store' = blob_store /\ published' = published
    BY <1>3
  <2>2. SendingTypes'
    BY <2>1 DEF SendingTypes
  <2>3. SharesVerify'
    BY <2>1 DEF SharesVerify
  <2> QED BY <2>2, <2>3
<1>4. CASE certify
  BY <1>3, <1>4 DEF certify
<1>5. ASSUME NEW n \in Nodes, receive_metadata(n) PROVE SendingTypes' /\ SharesVerify'
  BY <1>3, <1>5 DEF receive_metadata
<1>6. CASE UNCHANGED flow_vars
  BY <1>3, <1>6 DEF flow_vars
<1> QED BY <1>1, <1>2, <1>4, <1>5, <1>6 DEF FlowNext

\* Of a share that is stored not a single chunk was changed, if it verified as it was sent.
LEMMA NotOneChanged ==
  ASSUME NEW p \in Publications, NEW sent \in Range(shares_of(p)), NEW share,
         ShareOf(sent, share), verify(share), verify(sent)
  PROVE  Cardinality(changed(sent, share)) # 1
<1> SUFFICES ASSUME Cardinality(changed(sent, share)) = 1 PROVE FALSE
  OBVIOUS
<1>1. PICK R \in Nat : sent.column \in Poly(R)
  BY ShareType
<1>2. share.column \in Poly(R) /\ DOMAIN sent.column = 1 .. R /\ share = [sent EXCEPT !.column = share.column]
  BY <1>1, PolyIsSequence DEF ShareOf
<1>3. IsFiniteSet(changed(sent, share))
  <2>1. changed(sent, share) \in SUBSET (1 .. R) /\ IsFiniteSet(1 .. R)
    BY <1>2, PlacesCount DEF changed
  <2> QED BY <2>1, FS_Subset
<1>4. PICK r : changed(sent, share) = {r}
  BY <1>3, FS_Singleton
<1>5. r \in 1 .. R /\ share.column[r] # sent.column[r]
      /\ \A i \in 1 .. R : i # r => share.column[i] = sent.column[i]
  BY <1>2, <1>4 DEF changed
<1> QED BY <1>1, <1>2, <1>5, AlterationRejected

\* What StoredAsSent says of a share that is stored.
AsSent(share, id) ==
  \E b \in published :
    /\ b.blob_id = id /\ share.column_idx \in DOMAIN b.shares
    /\ LET sent == b.shares[share.column_idx]
       IN  /\ share = [sent EXCEPT !.column = share.column]
           /\ Cardinality(changed(sent, share)) = 1 => ~ verify(sent)

LEMMA VerifiedAsSent == SendingTypes /\ SharesVerify => StoredAsSent
<1> SUFFICES ASSUME SendingTypes, SharesVerify, NEW n \in Nodes, NEW id \in DOMAIN blob_store[n]
             PROVE  AsSent(blob_store[n][id], id)
  BY DEF StoredAsSent, AsSent
<1> PICK share : share = blob_store[n][id]
  OBVIOUS
<1>1. PICK b \in published : \E sent \in Range(b.shares) :
        b.blob_id = id /\ ShareOf(sent, share) /\ verify(share)
  BY DEF SharesVerify
<1>2. PICK sent \in Range(b.shares) : b.blob_id = id /\ ShareOf(sent, share) /\ verify(share)
  BY <1>1
<1>3. b.pub \in Publications /\ b.shares = shares_of(b.pub)
  BY DEF SendingTypes
<1>4. share.column_idx \in DOMAIN b.shares /\ sent = b.shares[share.column_idx]
  BY <1>2, <1>3, ShareType DEF ShareOf
<1>5. share = [sent EXCEPT !.column = share.column]
  BY <1>2 DEF ShareOf
<1>6. Cardinality(changed(sent, share)) = 1 => ~ verify(sent)
  BY <1>2, <1>3, NotOneChanged
<1> QED BY <1>2, <1>4, <1>5, <1>6 DEF AsSent

LEMMA SendingInvariant == FlowSpec => [](SendingTypes /\ SharesVerify)
<1>1. FlowInit => SendingTypes /\ SharesVerify
  BY InitSending
<1>2. SendingTypes /\ SharesVerify /\ [FlowNext]_flow_vars => (SendingTypes /\ SharesVerify)'
  BY StepSending
<1> QED BY <1>1, <1>2, PTL DEF FlowSpec

\* Wherever shares are led and whatever is added to their chunks, a node stores under a blob's id
\* only shares of that blob with the proof of their column, and none that has a single chunk
\* changed of a share that verifies.
THEOREM StoredAsSentAlways == FlowSpec => []StoredAsSent
<1>1. SendingTypes /\ SharesVerify => StoredAsSent
  BY VerifiedAsSent
<1> QED BY <1>1, SendingInvariant, PTL

---------------------------------------------------------------------------
(* What is read.                                                           *)

\* A number that n divides is that many times n.
LEMMA DivisionExact ==
  ASSUME NEW l \in Nat, NEW n \in Nat \ {0}, l % n = 0
  PROVE  \E R \in Nat : l = R * n /\ l \div n = R
<1>1. l = n * (l \div n) + (l % n) /\ l \div n \in Nat
  OBVIOUS
<1> PICK R \in Nat : R = l \div n
  BY <1>1
<1>2. l = n * R + 0
  BY <1>1
<1>3. n * R + 0 = R * n
  OBVIOUS
<1> QED BY <1>2, <1>3

\* What n divides has the same quotient when the division rounds up.
LEMMA DivisionRoundsUp ==
  ASSUME NEW R \in Nat, NEW n \in Nat \ {0}
  PROVE  (R * n + n - 1) \div n = R
OBVIOUS

\* A row starts after the rows before it and ends in the data.
LEMMA RowBounds ==
  ASSUME NEW R \in Nat, NEW n \in Nat \ {0}, NEW r \in 1 .. R
  PROVE  /\ (r - 1) * n \in Nat /\ r * n = (r - 1) * n + n
         /\ r * n \in Nat /\ r * n =< R * n /\ R * n \in Nat
<1> PICK q \in Nat, d \in Nat : q + 1 = r /\ r + d = R
  <2>1. r - 1 \in Nat /\ R - r \in Nat /\ (r - 1) + 1 = r /\ r + (R - r) = R
    OBVIOUS
  <2> QED BY <2>1
<1>1. q * n \in Nat /\ (q + 1) * n = q * n + n
  BY ProductGrows
<1>2. d * n \in Nat
  OBVIOUS
<1>3. (r + d) * n = r * n + d * n
  OBVIOUS
<1>4. r - 1 = q
  OBVIOUS
<1> QED BY <1>1, <1>2, <1>3, <1>4

\* A slice that lies within a sequence.
LEMMA FullSlice ==
  ASSUME NEW S, NEW s \in Seq(S), NEW k \in Nat, NEW n \in Nat, k + n =< Len(s)
  PROVE  /\ SubSeq(s, k + 1, k + n) = [c \in 1 .. n |-> s[k + c]]
         /\ \A c \in 1 .. n : s[k + c] \in S
<1>1. SubSeq(s, k + 1, k + n) = [c \in 1 .. n |-> s[k + c]]
  <2>1. 1 + (k + n) - (k + 1) = n
    OBVIOUS
  <2>2. \A i \in 1 .. n : i + (k + 1) - 1 = k + i
    OBVIOUS
  <2> QED BY <2>1, <2>2
<1>2. \A c \in 1 .. n : k + c \in 1 .. Len(s)
  OBVIOUS
<1> QED BY <1>1, <1>2

\* Row r of data that is R rows of n chunks.
RowOf(data, n, r) == [c \in 1 .. n |-> data[(r - 1) * n + c]]

RowsOf(p, data, n, R) ==
  /\ Len(data) = R * n /\ Len(data) \div n = R
  /\ _chunkify_data(p) = [r \in 1 .. R |-> RowOf(data, n, r)]
  /\ \A r \in 1 .. R : RowOf(data, n, r) \in Poly(n)

\* Whole rows are cut from the data one after the other, all of column_count chunks.
LEMMA WholeRows ==
  ASSUME NEW p \in Publications, whole_rows(p),
         NEW n \in Nat \ {0}, n = p.column_count, NEW data \in Seq(Field), data = p.data
  PROVE  \E R \in Nat \ {0} : RowsOf(p, data, n, R)
<1>5. \A k \in Nat : k + n =< Len(data) =>
        /\ SubSeq(data, k + 1, k + n) = [c \in 1 .. n |-> data[k + c]]
        /\ \A c \in 1 .. n : data[k + c] \in Field
  <2> TAKE k \in Nat
  <2> HAVE k + n =< Len(data)
  <2>1. n \in Nat
    OBVIOUS
  <2> QED BY <2>1, FullSlice
<1> PICK l \in Nat : l = Len(data) /\ l # 0
  BY FlowAssumption
<1>0. l % n = 0
  BY DEF whole_rows
<1> PICK R \in Nat : R = l \div n
  BY QuotientType
<1>9. l = R * n /\ l \div n = R
  <2>1. PICK q \in Nat : l = q * n /\ l \div n = q
    BY <1>0, DivisionExact
  <2>2. q = R
    BY <2>1
  <2> QED BY <2>1, <2>2
<1>1. R # 0
  <2>1. 0 * n = 0
    OBVIOUS
  <2> QED BY <1>9, <2>1
<1>2. (l + n - 1) \div n = R
  <2>1. (R * n + n - 1) \div n = R
    BY DivisionRoundsUp
  <2> QED BY <1>9, <2>1, Zenon
<1>3. _chunkify_data(p) =
        [r \in 1 .. R |-> SubSeq(data, (r - 1) * n + 1, IF r * n < l THEN r * n ELSE l)]
  BY <1>2 DEF _chunkify_data
<1>4. ASSUME NEW r \in 1 .. R
      PROVE  /\ SubSeq(data, (r - 1) * n + 1, IF r * n < l THEN r * n ELSE l) = RowOf(data, n, r)
             /\ RowOf(data, n, r) \in Poly(n)
  <2>0. /\ (r - 1) * n \in Nat /\ r * n = (r - 1) * n + n
        /\ r * n \in Nat /\ r * n =< R * n /\ R * n \in Nat
    BY RowBounds
  <2> PICK k \in Nat : k = (r - 1) * n
    BY <2>0
  <2>9. r * n = k + n /\ k + n =< l
    BY <1>9, <2>0
  <2>1. (IF r * n < l THEN r * n ELSE l) = k + n
    BY <2>9
  <2>2. SubSeq(data, k + 1, k + n) = [c \in 1 .. n |-> data[k + c]]
        /\ \A c \in 1 .. n : data[k + c] \in Field
    <3>1. k + n =< Len(data) /\ n \in Nat
      BY <2>9
    <3> QED BY <1>5, <3>1
  <2>3. RowOf(data, n, r) = [c \in 1 .. n |-> data[k + c]]
    BY DEF RowOf
  <2> QED BY <2>1, <2>2, <2>3 DEF Poly
<1>6. RowsOf(p, data, n, R)
  BY <1>3, <1>4, <1>9 DEF RowsOf
<1> QED BY <1>1, <1>6

\* The first k elements.
begin_of(s, k) == [j \in 1 .. k |-> s[j]]

\* A beginning and the slice that follows it are a longer beginning.
LEMMA BeginAndMore ==
  ASSUME NEW s, NEW k \in Nat, NEW n \in Nat
  PROVE  begin_of(s, k) \o [c \in 1 .. n |-> s[k + c]] = begin_of(s, k + n)
<1> PICK t : t = [c \in 1 .. n |-> s[k + c]]
  OBVIOUS
<1> PICK f : f = begin_of(s, k)
  OBVIOUS
<1> PICK g : g = begin_of(s, k + n)
  OBVIOUS
<1>1. /\ Len(f) = k /\ Len(t) = n
      /\ f = [j \in 1 .. k |-> f[j]] /\ t = [j \in 1 .. n |-> t[j]]
  BY DEF begin_of
<1>2. f \o t = [j \in 1 .. k + n |-> IF j <= k THEN f[j] ELSE t[j - k]]
  <2>1. f \in Seq({ f[j] : j \in 1 .. k } \cup { t[j] : j \in 1 .. n })
    BY <1>1
  <2>2. t \in Seq({ f[j] : j \in 1 .. k } \cup { t[j] : j \in 1 .. n })
    BY <1>1
  <2> QED BY <1>1, <2>1, <2>2
<1>3. ASSUME NEW j \in 1 .. k + n PROVE (IF j <= k THEN f[j] ELSE t[j - k]) = s[j]
  <2>1. CASE j <= k
    BY <2>1 DEF begin_of
  <2>2. CASE ~ j <= k
    <3>1. j - k \in 1 .. n /\ k + (j - k) = j
      BY <2>2
    <3> QED BY <2>2, <3>1
  <2> QED BY <2>1, <2>2
<1>4. f \o t = [j \in 1 .. k + n |-> s[j]]
  BY <1>2, <1>3
<1> QED BY <1>4 DEF begin_of

\* The rows one after the other are the data.
LEMMA JoinRows ==
  ASSUME NEW S, NEW data \in Seq(S), NEW n \in Nat \ {0}, NEW R \in Nat \ {0}, Len(data) = R * n
  PROVE  FlattenSeq([r \in 1 .. R |-> RowOf(data, n, r)]) = data
<1> DEFINE rows == [r \in 1 .. R |-> RowOf(data, n, r)]
           Joins(f) == f = [i \in 1 .. R |-> IF i = 1 THEN rows[i] ELSE f[i - 1] \o rows[i]]
           part == [i \in 1 .. R |-> begin_of(data, i * n)]
           flatten == CHOOSE f : Joins(f)
<1>1. \A i \in 1 .. R : part[i] = IF i = 1 THEN rows[i] ELSE part[i - 1] \o rows[i]
  <2> TAKE i \in 1 .. R
  <2>0. /\ (i - 1) * n \in Nat /\ i * n = (i - 1) * n + n
    BY RowBounds
  <2>1. begin_of(data, (i - 1) * n) \o rows[i] = part[i]
    <3>1. rows[i] = [c \in 1 .. n |-> data[(i - 1) * n + c]]
      BY DEF RowOf
    <3>2. part[i] = begin_of(data, (i - 1) * n + n)
      BY <2>0
    <3> HIDE DEF rows, part
    <3>3. n \in Nat
      OBVIOUS
    <3>4. begin_of(data, (i - 1) * n) \o [c \in 1 .. n |-> data[(i - 1) * n + c]]
            = begin_of(data, (i - 1) * n + n)
      BY <2>0, <3>3, BeginAndMore, Zenon
    <3> QED BY <3>1, <3>2, <3>4, Zenon
  <2>2. CASE i = 1
    <3>1. (i - 1) * n = 0
      BY <2>2
    <3>2. n \in Nat /\ i * n = n
      BY <2>2
    <3>3. \A c \in 1 .. n : (i - 1) * n + c = c
      BY <3>1
    <3>4. rows[i] = [c \in 1 .. n |-> data[c]]
      BY <3>3 DEF RowOf
    <3>5. part[i] = [c \in 1 .. n |-> data[c]]
      BY <3>2 DEF begin_of
    <3> QED BY <2>2, <3>4, <3>5
  <2>3. CASE i # 1
    <3>1. i - 1 \in 1 .. R
      BY <2>3
    <3>2. part[i - 1] = begin_of(data, (i - 1) * n)
      BY <3>1
    <3> HIDE DEF rows, part
    <3> QED BY <2>1, <2>3, <3>2, Zenon
  <2> QED BY <2>2, <2>3
<1>2. Joins(part)
  <2> HIDE DEF part, rows
  <2>1. part = [i \in 1 .. R |-> part[i]]
    BY DEF part
  <2> QED BY <1>1, <2>1
<1>3. Joins(flatten)
  <2> HIDE DEF Joins, part
  <2> QED BY <1>2
<1> DEFINE last == R - 1
           I == { i \in 0 .. last : flatten[i + 1] = part[i + 1] }
<1>4. last \in Nat /\ R = last + 1
  OBVIOUS
<1> HIDE DEF last
<1>5. 0 .. last \subseteq I
  <2> HIDE DEF part, rows
  <2>1. \A i \in 1 .. R : flatten[i] = IF i = 1 THEN rows[i] ELSE flatten[i - 1] \o rows[i]
    <3> HIDE DEF flatten
    <3> QED BY <1>3
  <2> HIDE DEF flatten
  <2>2. 0 \in I
    <3>1. 0 \in 0 .. last /\ 0 + 1 = 1 /\ 1 \in 1 .. R
      BY <1>4
    <3>2. flatten[1] = part[1]
      BY <1>1, <2>1, <3>1
    <3> QED BY <3>1, <3>2
  <2>3. ASSUME NEW i \in 0 .. last - 1, i \in I PROVE i + 1 \in I
    <3>1. i + 1 \in 0 .. last /\ (i + 1) + 1 \in 1 .. R /\ (i + 1) + 1 # 1 /\ ((i + 1) + 1) - 1 = i + 1
      BY <1>4
    <3>2. flatten[i + 1] = part[i + 1]
      BY <2>3
    <3>3. flatten[(i + 1) + 1] = part[(i + 1) + 1]
      BY <1>1, <2>1, <3>1, <3>2
    <3> QED BY <3>1, <3>3
  <2> HIDE DEF I
  <2> QED BY <1>4, <2>2, <2>3, BoundedInduction
<1>6. flatten[R] = data
  <2>1. last \in I
    <3> HIDE DEF I
    <3> QED BY <1>4, <1>5
  <2>2. flatten[R] = part[R]
    <3> HIDE DEF flatten, part
    <3> QED BY <1>4, <2>1
  <2>3. part[R] = begin_of(data, Len(data))
    OBVIOUS
  <2>4. begin_of(data, Len(data)) = data
    BY DEF begin_of
  <2> HIDE DEF flatten, part
  <2> QED BY <2>2, <2>3, <2>4
<1>7. Len(rows) = R
  OBVIOUS
<1>8. FlattenSeq(rows) = flatten[R]
  <2>1. Len(rows) # 0
    BY <1>7
  <2> QED BY <1>7, <2>1 DEF FlattenSeq
<1> QED BY <1>6, <1>8 DEF rows

\* A polynomial that has the values of a row at the first roots.
Carries(f, row, n) == \A c \in 1 .. n : eval(f, ROOTS_OF_UNITY[c]) = row[c]

\* What a polynomial is extended to begins with the row that it carries.
LEMMA EncodesRow ==
  ASSUME NEW n \in Nat, NEW f \in Poly(n), NEW row \in Poly(n), Carries(f, row, n)
  PROVE  SubSeq(encode_row(f, 1), 1, n) = row
<1>1. Len(f) = n /\ Len(f) * 1 = n
  BY PolyIsSequence
<1>2. encode_row(f, 1) = [c \in 1 .. n |-> eval(f, ROOTS_OF_UNITY[c])]
  BY <1>1 DEF encode_row
<1>3. row = [c \in 1 .. n |-> row[c]]
  BY DEF Poly
<1>4. encode_row(f, 1) = row
  BY <1>2, <1>3 DEF Carries
<1>5. row \in Seq(Field) /\ Len(row) = n
  BY PolyIsSequence
<1>6. SubSeq(row, 1, n) = row
  BY <1>3, <1>5
<1> QED BY <1>4, <1>6

\* The polynomials of whole rows: of n coefficients each, they carry the rows.
PolynomialsOf(polys, data, n, R) ==
  /\ DOMAIN polys = 1 .. R
  /\ \A r \in 1 .. R : /\ polys[r] \in Poly(n) /\ RowOf(data, n, r) \in Poly(n)
                       /\ Carries(polys[r], RowOf(data, n, r), n)

\* Whole rows have such polynomials.
LEMMA WholePolynomials ==
  ASSUME NEW p \in Publications, whole_rows(p),
         NEW n \in Nat \ {0}, n = p.column_count, NEW data \in Seq(Field), data = p.data
  PROVE  \E R \in Nat \ {0} :
           RowsOf(p, data, n, R) /\ PolynomialsOf(row_polynomials(p), data, n, R)
<1>0. PICK R \in Nat \ {0} : RowsOf(p, data, n, R)
  BY WholeRows
<1>1. /\ Len(data) = R * n /\ Len(data) \div n = R
      /\ _chunkify_data(p) = [r \in 1 .. R |-> RowOf(data, n, r)]
      /\ \A r \in 1 .. R : RowOf(data, n, r) \in Poly(n)
  BY <1>0 DEF RowsOf
<1> PICK rows : rows = _chunkify_data(p)
  OBVIOUS
<1>2. DOMAIN rows = 1 .. R /\ \A r \in 1 .. R : rows[r] = RowOf(data, n, r)
  BY <1>1
<1>3. row_polynomials(p) = [r \in 1 .. R |-> bytes_to_polynomial(rows[r])]
  BY <1>2 DEF row_polynomials
<1>4. n \in Nat /\ n =< RootsOrder
  BY FlowAssumption, FieldAssumption
<1>5. ASSUME NEW r \in 1 .. R
      PROVE  /\ bytes_to_polynomial(rows[r]) \in Poly(n)
             /\ Carries(bytes_to_polynomial(rows[r]), RowOf(data, n, r), n)
  BY <1>1, <1>2, <1>4, RowPolynomial DEF Carries
<1>6. PolynomialsOf(row_polynomials(p), data, n, R)
  BY <1>1, <1>3, <1>5 DEF PolynomialsOf
<1> QED BY <1>0, <1>6

\* The share of column c of a publication with these polynomials holds their values at root c.
LEMMA ShareColumn ==
  ASSUME NEW q \in Publications, NEW n \in Nat \ {0}, 2 * n =< RootsOrder,
         NEW R \in Nat \ {0}, NEW polys, polys = row_polynomials(q),
         NEW data, PolynomialsOf(polys, data, n, R),
         NEW c \in DOMAIN shares_of(q)
  PROVE  /\ c \in 1 .. RootsOrder /\ shares_of(q)[c].column_idx = c
         /\ \A r \in 1 .. R : shares_of(q)[c].column[r] = eval(polys[r], ROOTS_OF_UNITY[c])
<1>0. DOMAIN polys = 1 .. R /\ \A r \in 1 .. R : polys[r] \in Poly(n)
  BY DEF PolynomialsOf
<1> DEFINE matrix == [r \in DOMAIN polys |-> encode_row(polys[r], 2)]
           extended == columns(matrix)
           proof(d) == generate_element_proof(ROOTS_OF_UNITY[d], combined(polys))
<1>1. shares_of(q) = [d \in { d \in DOMAIN extended : d =< 2 * q.column_count } |->
         [column |-> extended[d], column_idx |-> d, proof |-> proof(d),
          row_commitments |-> commitments_of(polys)]]
  BY DEF shares_of
<1> HIDE DEF proof
<1>2. ASSUME NEW r \in 1 .. R
      PROVE  /\ matrix[r] = [i \in 1 .. 2 * n |-> eval(polys[r], ROOTS_OF_UNITY[i])]
             /\ Len(matrix[r]) = 2 * n
  <2>1. Len(polys[r]) = n
    BY <1>0, PolyIsSequence
  <2>2. n * 2 = 2 * n /\ 2 * n \in Nat
    OBVIOUS
  <2>3. matrix[r] = [i \in 1 .. 2 * n |-> eval(polys[r], ROOTS_OF_UNITY[i])]
    BY <1>0, <2>1, <2>2 DEF encode_row
  <2> QED BY <2>2, <2>3
<1>3. DOMAIN matrix = 1 .. R
  BY <1>0
<1> HIDE DEF matrix
<1>4. DOMAIN extended = 1 .. 2 * n
  <2> DEFINE lengths == { Len(matrix[r]) : r \in DOMAIN matrix }
  <2>1. lengths = {2 * n}
    <3>1. 1 \in 1 .. R
      OBVIOUS
    <3> QED BY <1>2, <1>3, <3>1
  <2>2. Max({2 * n}) = 2 * n
    BY DEF Max
  <2>3. DOMAIN extended = 1 .. Max(lengths)
    BY DEF columns
  <2> QED BY <2>1, <2>2, <2>3
<1>5. \A d \in 1 .. 2 * n :
        extended[d] = [r \in 1 .. R |-> IF d \in DOMAIN matrix[r] THEN matrix[r][d] ELSE 0]
  BY <1>3, <1>4 DEF columns
<1> HIDE DEF extended
<1>6. c \in 1 .. 2 * n /\ shares_of(q)[c] =
         [column |-> extended[c], column_idx |-> c, proof |-> proof(c),
          row_commitments |-> commitments_of(polys)]
  BY <1>1, <1>4
<1>7. shares_of(q)[c].column_idx = c /\ shares_of(q)[c].column = extended[c]
  BY <1>6
<1>8. c \in 1 .. RootsOrder
  BY <1>6, FieldAssumption
<1>9. ASSUME NEW r \in 1 .. R PROVE extended[c][r] = eval(polys[r], ROOTS_OF_UNITY[c])
  <2>1. c \in DOMAIN matrix[r] /\ matrix[r][c] = eval(polys[r], ROOTS_OF_UNITY[c])
    BY <1>2, <1>6
  <2>2. extended[c][r] = IF c \in DOMAIN matrix[r] THEN matrix[r][c] ELSE 0
    BY <1>5, <1>6
  <2> QED BY <2>1, <2>2
<1> QED BY <1>7, <1>8, <1>9

\* A node that answers does so with a share of the blob that the chain certified first, and the
\* share verifies.
LEMMA AnswersAreCertified ==
  ASSUME IndexTypes, IndexesFollowTheChain, SharesVerify,
         NEW key \in Keys, NEW b \in published, certified(b, key), NEW n \in answers(key)
  PROVE  \E d \in published : \E sent \in Range(d.shares) :
           d.blob_id = b.blob_id /\ ShareOf(sent, read(n, key)) /\ verify(read(n, key))
<1>1. n \in Nodes /\ read(n, key) # None
  BY DEF answers
<1> PICK id : id = app_id_store[n][key]
  OBVIOUS
<1>2. key \in DOMAIN app_id_store[n] /\ id \in DOMAIN blob_store[n] /\ read(n, key) = blob_store[n][id]
  BY <1>1 DEF read
<1>3. PICK m \in certificates(n, key) : \A j \in certificates(n, key) : m =< j
  <2>1. certificates(n, key) # {}
    BY <1>1, <1>2 DEF IndexesFollowTheChain
  <2>2. certificates(n, key) \in SUBSET Nat
    BY <1>1 DEF certificates, IndexTypes
  <2> QED BY <2>1, <2>2, LeastExists
<1>4. id = chain[m].blob_id
  BY <1>1, <1>3 DEF IndexesFollowTheChain
<1>5. PICK i \in DOMAIN chain :
        /\ chain[i] = [blob_id |-> b.blob_id, key |-> key]
        /\ \A j \in 1 .. i - 1 : chain[j].key # key
  BY DEF certified
<1>6. m = i
  <2>1. /\ m \in Nat /\ m >= 1 /\ m =< seen[n] /\ chain[m].key = key
        /\ i \in Nat /\ i >= 1 /\ seen[n] \in Nat
    BY <1>1, <1>3 DEF certificates, IndexTypes
  <2>2. i =< m
    BY <1>5, <2>1
  <2>3. i \in certificates(n, key)
    <3>1. chain[i].key = key
      BY <1>5
    <3> QED BY <2>1, <2>2, <3>1 DEF certificates
  <2> QED BY <1>3, <2>1, <2>2, <2>3
<1>7. id = b.blob_id
  BY <1>4, <1>5, <1>6
<1> QED BY <1>1, <1>2, <1>7 DEF SharesVerify

\* The answer of a node: the values of the polynomials at the place of the column.
Answer(n, key, polys, R) ==
  LET c == read(n, key).column_idx
  IN  /\ c \in 1 .. RootsOrder
      /\ \A r \in 1 .. R : read(n, key).column[r] = eval(polys[r], ROOTS_OF_UNITY[c])

\* A node that answers with a share in which nothing was changed, or a single chunk of one that
\* would have verified, does so with such values, of the blob's own polynomials.
LEMMA AnswersAreColumns ==
  ASSUME IndexTypes, IndexesFollowTheChain, SendingTypes, SharesVerify,
         NEW key \in Keys, NEW b \in published, certified(b, key), NEW n \in answers(key),
         nearly_sent(read(n, key)),
         NEW k \in Nat \ {0}, 2 * k =< RootsOrder, NEW R \in Nat \ {0},
         NEW polys, polys = row_polynomials(b.pub), NEW data, PolynomialsOf(polys, data, k, R)
  PROVE  Answer(n, key, polys, R)
<1> PICK share : share = read(n, key)
  OBVIOUS
<1>1. PICK d \in published : \E sent \in Range(d.shares) :
        d.blob_id = b.blob_id /\ ShareOf(sent, share) /\ verify(share)
  BY AnswersAreCertified
<1>2. PICK sent \in Range(d.shares) : d.blob_id = b.blob_id /\ ShareOf(sent, share) /\ verify(share)
  BY <1>1
<1>3. ASSUME NEW e \in published, e.blob_id = b.blob_id
      PROVE  e.pub \in Publications /\ e.shares = shares_of(e.pub) /\ row_polynomials(e.pub) = polys
  <2>1. /\ b.pub \in Publications /\ e.pub \in Publications /\ e.shares = shares_of(e.pub)
        /\ b.blob_id = commitments_of(row_polynomials(b.pub))
        /\ e.blob_id = commitments_of(row_polynomials(e.pub))
    BY DEF SendingTypes, build_blob_id
  <2> QED BY <1>3, <2>1, BindingAssumption
<1> PICK c : c = share.column_idx
  OBVIOUS
<1> PICK p \in Publications : p = d.pub /\ d.shares = shares_of(p) /\ row_polynomials(p) = polys
  BY <1>2, <1>3
<1>4. /\ c \in DOMAIN shares_of(p) /\ sent = shares_of(p)[c] /\ sent \in Range(shares_of(p))
      /\ sent.row_commitments = commitments_of(polys)
  BY <1>2, ShareType DEF ShareOf
<1>5. blob_id(share) = b.blob_id
  <2>1. d.blob_id = commitments_of(polys)
    BY DEF SendingTypes, build_blob_id
  <2> QED BY <1>2, <1>4, <2>1 DEF ShareOf, blob_id, build_blob_id
<1>6. PICK e \in published :
        /\ e.blob_id = blob_id(share) /\ c \in DOMAIN e.shares
        /\ \/ changed(e.shares[c], share) = {}
           \/ Cardinality(changed(e.shares[c], share)) = 1 /\ verify(e.shares[c])
  BY DEF nearly_sent
<1>7. e.shares[c] = sent
  <2>1. e.shares = shares_of(e.pub) /\ row_polynomials(e.pub) = row_polynomials(p)
    BY <1>3, <1>5, <1>6
  <2> QED BY <1>4, <1>6, <2>1, SameShares
<1>8. changed(sent, share) = {}
  BY <1>2, <1>4, <1>6, <1>7, NotOneChanged
<1>9. /\ c \in 1 .. RootsOrder
      /\ \A r \in 1 .. R : sent.column[r] = eval(polys[r], ROOTS_OF_UNITY[c])
  BY <1>4, ShareColumn
<1>10. DOMAIN sent.column = 1 .. R
  <2>1. PICK S \in Nat : sent.column \in Poly(S) /\ sent.row_commitments \in Poly(S)
    BY <1>4, ShareType
  <2>2. DOMAIN polys = 1 .. R
    BY DEF PolynomialsOf
  <2>3. DOMAIN sent.row_commitments = 1 .. R
    BY <1>4, <2>2 DEF commitments_of
  <2> QED BY <2>1, <2>3, PolyIsSequence
<1>11. \A r \in 1 .. R : share.column[r] = sent.column[r]
  BY <1>8, <1>10 DEF changed
<1> QED BY <1>9, <1>11 DEF Answer

\* The answers of as many nodes as a row has chunks.
LEMMA AnswersAreKnown ==
  ASSUME NEW N \in SUBSET Nodes, NEW k \in Nat, Cardinality(N) = k,
         NEW key, NEW polys, NEW R, NEW r \in 1 .. R, \A n \in N : Answer(n, key, polys, R),
         \A m, n \in N : read(m, key).column_idx = read(n, key).column_idx => m = n
  PROVE  Known([c \in { read(n, key).column_idx : n \in N } |->
                  (CHOOSE s \in { read(n, key) : n \in N } : s.column_idx = c).column[r]], polys[r], k)
<1> DEFINE place == [n \in N |-> read(n, key).column_idx]
           C == { read(n, key).column_idx : n \in N }
           row == [c \in C |-> (CHOOSE s \in { read(n, key) : n \in N } : s.column_idx = c).column[r]]
<1>1. IsFiniteSet(N)
  <2>1. N \in SUBSET Nodes /\ IsFiniteSet(Nodes)
    BY NodesFinite
  <2> QED BY <2>1, FS_Subset
<1>2. IsFiniteSet(C) /\ Cardinality(C) = k
  <2>1. place \in [N -> C] /\ \A c \in C : \E n \in N : place[n] = c
    OBVIOUS
  <2>2. \A n, m \in N : place[n] = place[m] => n = m
    OBVIOUS
  <2> HIDE DEF place, C
  <2>3. place \in Bijection(N, C)
    BY <2>1, <2>2 DEF Bijection, Injection, Surjection, IsInjective
  <2>4. ExistsBijection(N, C)
    BY <2>3 DEF ExistsBijection
  <2> QED BY <1>1, <2>4, FS_Bijection
<1>3. C \in SUBSET (1 .. RootsOrder)
  BY DEF Answer
<1>4. ASSUME NEW c \in C PROVE row[c] = eval(polys[r], ROOTS_OF_UNITY[c])
  <2> DEFINE chosen == CHOOSE s \in { read(n, key) : n \in N } : s.column_idx = c
  <2>1. chosen \in { read(n, key) : n \in N } /\ chosen.column_idx = c
    <3>1. \E s \in { read(n, key) : n \in N } : s.column_idx = c
      OBVIOUS
    <3> QED BY <3>1
  <2>2. row[c] = chosen.column[r]
    OBVIOUS
  <2> HIDE DEF chosen, row
  <2>3. PICK n \in N : chosen = read(n, key)
    BY <2>1
  <2> QED BY <2>1, <2>2, <2>3 DEF Answer
<1>5. DOMAIN row = C
  OBVIOUS
<1>6. Known(row, polys[r], k)
  <2> HIDE DEF row, C
  <2> QED BY <1>2, <1>3, <1>4, <1>5 DEF Known
<1> QED BY <1>6

\* A row is decoded from them.
LEMMA RowDecoded ==
  ASSUME NEW k \in Nat, k =< RootsOrder, NEW f \in Poly(k), NEW row \in Poly(k), Carries(f, row, k),
         NEW encoded, Known(encoded, f, k)
  PROVE  SubSeq(encode_row(decode(encoded, k), 1), 1, k) = row
<1> PICK g : g = decode(encoded, k)
  OBVIOUS
<1>1. g \in Poly(k) /\ \A x \in Field : eval(g, x) = eval(f, x)
  BY Decodes
<1>2. \A c \in 1 .. k : ROOTS_OF_UNITY[c] \in Field
  <2>1. \A c \in 1 .. k : c \in 1 .. RootsOrder
    BY FieldAssumption
  <2> QED BY <2>1, RootsType
<1>3. Carries(g, row, k)
  BY <1>1, <1>2 DEF Carries
<1>4. SubSeq(encode_row(g, 1), 1, k) = row
  BY <1>1, <1>3, EncodesRow
<1> QED BY <1>4

\* As many answers as a row has chunks give the data, if they are of different columns.
LEMMA EnoughAnswers ==
  ASSUME IndexTypes, IndexesFollowTheChain, SendingTypes, SharesVerify,
         NEW key \in Keys, NEW b \in published, certified(b, key), whole_rows(b.pub),
         NEW N \in kSubset(b.pub.column_count, answers(key)), complementary(N, key)
  PROVE  recovered(b.pub, N, key) = b.pub.data
<1>0. b.pub \in Publications
  BY DEF SendingTypes
<1> PICK k \in Nat \ {0} : k = b.pub.column_count /\ k \in Nat /\ 2 * k =< RootsOrder /\ k =< RootsOrder
  BY <1>0, FlowAssumption, FieldAssumption
<1> PICK data \in Seq(Field) : data = b.pub.data
  BY <1>0, FlowAssumption
<1> PICK polys : polys = row_polynomials(b.pub)
  OBVIOUS
<1>1. PICK R \in Nat \ {0} : RowsOf(b.pub, data, k, R) /\ PolynomialsOf(polys, data, k, R)
  BY <1>0, WholePolynomials
<1>2. N \in SUBSET Nodes /\ Cardinality(N) = k /\ \A n \in N : n \in answers(key)
  BY DEF kSubset, answers
<1>3. /\ \A n \in N : Answer(n, key, polys, R)
      /\ \A m, n \in N : read(m, key).column_idx = read(n, key).column_idx => m = n
  BY <1>1, <1>2, AnswersAreColumns DEF complementary
<1> DEFINE row(r) == [c \in { read(n, key).column_idx : n \in N } |->
                        (CHOOSE s \in { read(n, key) : n \in N } : s.column_idx = c).column[r]]
<1>4. \A r \in 1 .. R : Known(row(r), polys[r], k)
  BY <1>2, <1>3, AnswersAreKnown
<1>5. recovered(b.pub, N, key) =
        FlattenSeq([r \in 1 .. R |-> SubSeq(encode_row(decode(row(r), k), 1), 1, k)])
  BY <1>1 DEF recovered, RowsOf
<1> HIDE DEF row
<1>6. \A r \in 1 .. R : SubSeq(encode_row(decode(row(r), k), 1), 1, k) = RowOf(data, k, r)
  <2> TAKE r \in 1 .. R
  <2>1. polys[r] \in Poly(k) /\ RowOf(data, k, r) \in Poly(k) /\ Carries(polys[r], RowOf(data, k, r), k)
    BY <1>1 DEF PolynomialsOf
  <2>2. Known(row(r), polys[r], k)
    BY <1>4
  <2> QED BY <2>1, <2>2, RowDecoded
<1>7. FlattenSeq([r \in 1 .. R |-> RowOf(data, k, r)]) = data
  <2>1. Len(data) = R * k
    BY <1>1 DEF RowsOf
  <2>2. data \in Seq(Field) /\ k \in Nat \ {0} /\ R \in Nat \ {0}
    OBVIOUS
  <2> QED BY <2>1, <2>2, JoinRows
<1> QED BY <1>5, <1>6, <1>7

\* Any column_count nodes that answer for a key, with different columns in no more than one chunk
\* of which anything was changed on the way, give back together the data that the chain certified
\* first for it, however far each node has read, wherever the shares were led and whatever was
\* dispersed or certified besides.
THEOREM ReadsDecodeAlways == FlowSpec => []ReadsDecode
<1>1. (IndexTypes /\ IndexesFollowTheChain) /\ (SendingTypes /\ SharesVerify) => ReadsDecode
  BY EnoughAnswers DEF ReadsDecode
<1> QED BY <1>1, IndexesInvariant, SendingInvariant, PTL
===========================================================================
