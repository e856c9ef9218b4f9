--------------------------- MODULE TreeTheorems ---------------------------
(***************************************************************************)
(* The theorems about the tree of committees, for every list of nodes,     *)
(* number of committees and shuffle.                                       *)
(***************************************************************************)
EXTENDS TreeOverlay, Lemmas

\* `tree' cuts the members into k committees of s or s+1, the first of them not empty.
Cut(tree, k, s, members) ==
  /\ k \in Nat \ {0} /\ s \in Nat
  /\ IsFiniteSet(members)
  /\ \A c \in 0 .. k - 1 : tree[c] \subseteq members
  /\ \A x \in members : \E c \in 0 .. k - 1 : x \in tree[c]
  /\ \A c, d \in 0 .. k - 1 : c # d => tree[c] \cap tree[d] = {}
  /\ \A c \in 0 .. k - 1 : Cardinality(tree[c]) \in {s, s + 1}
  /\ tree[0] # {}

---------------------------------------------------------------------------
\* The positions of the list that committee c gets.
Positions(c, k, s, r) ==
  (c * s + 1 .. (c + 1) * s) \cup IF c < r THEN {k * s + c + 1} ELSE {}

\* They share out the list's.
SharedOut(n, k, s, r) ==
  /\ \A c \in 0 .. k - 1 :
       /\ Positions(c, k, s, r) \subseteq 1 .. n
       /\ Cardinality(Positions(c, k, s, r)) = IF c < r THEN s + 1 ELSE s
  /\ \A p \in 1 .. n : \E c \in 0 .. k - 1 : p \in Positions(c, k, s, r)
  /\ \A c, d \in 0 .. k - 1 : c # d => Positions(c, k, s, r) \cap Positions(d, k, s, r) = {}

LEMMA Quotient ==
  ASSUME NEW n \in Nat, NEW k \in Nat \ {0}
  PROVE  LET s == n \div k
             r == n % k
         IN  /\ s \in Nat /\ r \in Nat /\ r < k /\ n = k * s + r
             /\ k =< n => s >= 1
<1> DEFINE s == n \div k
           r == n % k
<1>1. s \in Nat /\ r \in Nat /\ r < k
  OBVIOUS
<1>2. n = k * s + r
  OBVIOUS
<1> HIDE DEF s, r
<1>3. s = 0 => n < k
  BY <1>1, <1>2
<1> QED BY <1>1, <1>2, <1>3 DEF s, r

LEMMA Products ==
  ASSUME NEW c \in Nat, NEW d \in Nat, NEW s \in Nat
  PROVE  /\ c * s \in Nat /\ (c + 1) * s = c * s + s
         /\ c < d => (c + 1) * s =< d * s
         /\ c =< d => c * s =< d * s
<1>1. c * s \in Nat /\ d * s \in Nat /\ (c + 1) * s = c * s + s
  OBVIOUS
<1>2. ASSUME NEW a \in Nat, NEW b \in Nat, a =< b PROVE a * s =< b * s
  <2>1. (b - a) \in Nat /\ b * s = a * s + (b - a) * s
    BY <1>2
  <2>2. (b - a) * s \in Nat /\ a * s \in Nat
    BY <2>1
  <2> HIDE <1>2
  <2> QED BY <2>1, <2>2
<1>3. c < d => (c + 1) * s =< d * s
  <2>1. c + 1 \in Nat /\ (c < d => c + 1 =< d)
    OBVIOUS
  <2> QED BY <1>2, <2>1
<1>4. c =< d => c * s =< d * s
  BY <1>2
<1> QED BY <1>1, <1>3, <1>4

LEMMA PositionsCut ==
  ASSUME NEW k \in Nat \ {0}, NEW s \in Nat, NEW r \in Nat, r < k,
         NEW n, n = k * s + r
  PROVE  SharedOut(n, k, s, r)
<1> DEFINE m == k * s
           P(c) == Positions(c, k, s, r)
<1>0. m \in Nat /\ n \in Nat /\ n = m + r
  OBVIOUS
<1>1. ASSUME NEW c \in 0 .. k - 1
      PROVE  /\ c * s \in Nat /\ (c + 1) * s = c * s + s /\ c * s + s =< m
             /\ P(c) = (c * s + 1 .. c * s + s) \cup IF c < r THEN {m + c + 1} ELSE {}
  <2>1. c * s \in Nat /\ (c + 1) * s = c * s + s /\ (c + 1) * s =< m
    BY Products
  <2> QED BY <2>1 DEF Positions
<1> HIDE DEF m
<1>2. ASSUME NEW c \in 0 .. k - 1
      PROVE  /\ P(c) \subseteq 1 .. n
             /\ IsFiniteSet(P(c))
             /\ Cardinality(P(c)) = IF c < r THEN s + 1 ELSE s
  <2> DEFINE a == c * s
             Q == a + 1 .. a + s
  <2>1. a \in Nat /\ a + s =< m /\ P(c) = Q \cup IF c < r THEN {m + c + 1} ELSE {}
    BY <1>1
  <2> HIDE DEF a, P
  <2>2. P(c) \subseteq 1 .. n
    BY <1>0, <2>1
  <2>3. IsFiniteSet(Q) /\ Cardinality(Q) = s
    <3>1. IsFiniteSet(Q) /\ Cardinality(Q) = IF a + 1 > a + s THEN 0 ELSE (a + s) - (a + 1) + 1
      BY <2>1, FS_Interval
    <3> QED BY <2>1, <3>1
  <2>4. m + c + 1 \notin Q
    BY <1>0, <2>1
  <2> HIDE DEF Q
  <2>5. CASE c < r
    BY <2>1, <2>2, <2>3, <2>4, <2>5, FS_AddElement
  <2>6. CASE ~ (c < r)
    BY <2>1, <2>2, <2>3, <2>6
  <2> QED BY <2>5, <2>6
<1>3. ASSUME NEW p \in 1 .. n PROVE \E c \in 0 .. k - 1 : p \in P(c)
  <2>1. CASE p > m
    <3>1. p - m - 1 \in 0 .. k - 1 /\ p - m - 1 < r /\ p = m + (p - m - 1) + 1
      BY <1>0, <2>1
    <3> HIDE DEF P
    <3> QED BY <1>1, <3>1
  <2>2. CASE ~ (p > m)
    <3>1. s # 0
      BY <1>0, <2>2 DEF m
    <3> DEFINE c == (p - 1) \div s
               q == (p - 1) % s
    <3>2. c \in Nat /\ q \in 0 .. s - 1 /\ p - 1 = s * c + q
      BY <1>0, <3>1
    <3> HIDE DEF c, q
    <3>3. p - 1 = c * s + q /\ c * s \in Nat
      BY <3>2
    <3>4. c < k
      <4> SUFFICES ASSUME k =< c PROVE FALSE
        BY <3>2
      <4>1. m =< c * s
        BY <3>2, Products DEF m
      <4> QED BY <1>0, <2>2, <3>2, <3>3, <4>1
    <3>5. c \in 0 .. k - 1 /\ p \in c * s + 1 .. c * s + s
      BY <3>2, <3>3, <3>4
    <3> HIDE DEF P
    <3> QED BY <1>1, <3>5
  <2> QED BY <2>1, <2>2
<1>4. ASSUME NEW c \in 0 .. k - 1, NEW d \in 0 .. k - 1, c < d PROVE P(c) \cap P(d) = {}
  <2> DEFINE a == c * s
             b == d * s
  <2>1. /\ a \in Nat /\ a + s =< m /\ P(c) = (a + 1 .. a + s) \cup IF c < r THEN {m + c + 1} ELSE {}
        /\ b \in Nat /\ b + s =< m /\ P(d) = (b + 1 .. b + s) \cup IF d < r THEN {m + d + 1} ELSE {}
    BY <1>1
  <2>2. a + s =< b
    <3>1. (c + 1) * s =< b /\ (c + 1) * s = a + s
      BY <1>1, <1>4, Products
    <3> QED BY <3>1
  <2> HIDE DEF a, b, P
  <2> QED BY <1>0, <1>4, <2>1, <2>2
<1>5. \A c, d \in 0 .. k - 1 : c # d => P(c) \cap P(d) = {}
  <2> SUFFICES ASSUME NEW c \in 0 .. k - 1, NEW d \in 0 .. k - 1, c # d PROVE P(c) \cap P(d) = {}
    OBVIOUS
  <2>1. c < d \/ d < c
    OBVIOUS
  <2> HIDE DEF P
  <2> QED BY <1>4, <2>1
<1> HIDE DEF P
<1> QED BY <1>2, <1>3, <1>5 DEF P, SharedOut

---------------------------------------------------------------------------
\* A list of n different nodes.
Distinct(list, n) ==
  /\ n \in Nat \ {0} /\ Len(list) = n /\ DOMAIN list = 1 .. n
  /\ \A i, j \in 1 .. n : list[i] = list[j] => i = j

LEMMA ImageSize ==
  ASSUME NEW n, NEW list, Distinct(list, n), NEW P \in SUBSET (1 .. n)
  PROVE  /\ IsFiniteSet(P) /\ IsFiniteSet({ list[p] : p \in P })
         /\ Cardinality({ list[p] : p \in P }) = Cardinality(P)
<1> DEFINE S == { list[p] : p \in P }
           f == [p \in P |-> list[p]]
<1>1. IsFiniteSet(P)
  <2>1. IsFiniteSet(1 .. n)
    BY FS_Interval DEF Distinct
  <2> QED BY <2>1, FS_Subset
<1>2. f \in Bijection(P, S)
  <2>1. f \in [P -> S] /\ \A x \in S : \E p \in P : f[p] = x
    OBVIOUS
  <2>2. \A p, q \in P : f[p] = f[q] => p = q
    BY DEF Distinct
  <2> HIDE DEF S, f
  <2> QED BY <2>1, <2>2 DEF Bijection, Injection, Surjection, IsInjective
<1>3. ExistsBijection(P, S)
  <2> HIDE DEF S, f
  <2> QED BY <1>2 DEF ExistsBijection
<1> HIDE DEF S
<1> QED BY <1>1, <1>3, FS_Bijection DEF S

LEMMA CommitteeOf ==
  ASSUME NEW n, NEW list, Distinct(list, n), NEW k \in Nat \ {0}, NEW c \in 0 .. k - 1
  PROVE  build_committee_from_nodes_with_size(list, k)[c]
           = { list[p] : p \in Positions(c, k, n \div k, n % k) }
<1> DEFINE s == n \div k
           r == n % k
<1>1. s \in Nat /\ r \in Nat /\ n \in Nat /\ n = k * s + r
  BY Quotient DEF Distinct
<1>2. n - r = k * s /\ k * s \in Nat
  BY <1>1
<1>3. build_committee_from_nodes_with_size(list, k)[c]
        = { list[i] : i \in c * s + 1 .. (c + 1) * s }
            \cup IF c < r THEN { list[i] : i \in (n - r + c) + 1 .. n - r + c + 1 } ELSE {}
  BY DEF build_committee_from_nodes_with_size, Distinct
<1>4. (n - r + c) + 1 .. n - r + c + 1 = {k * s + c + 1}
  <2> DEFINE m == k * s
  <2>1. m \in Nat /\ n - r = m
    BY <1>2
  <2> HIDE DEF m, r
  <2> QED BY <2>1 DEF m
<1>5. Positions(c, k, s, r) = (c * s + 1 .. (c + 1) * s) \cup IF c < r THEN {k * s + c + 1} ELSE {}
  BY DEF Positions
<1> DEFINE Q == c * s + 1 .. (c + 1) * s
           e == k * s + c + 1
<1>6. build_committee_from_nodes_with_size(list, k)[c]
        = { list[i] : i \in Q } \cup IF c < r THEN { list[i] : i \in {e} } ELSE {}
  BY <1>3, <1>4
<1> HIDE DEF Q, e, s, r
<1>7. { list[i] : i \in Q } \cup (IF c < r THEN { list[i] : i \in {e} } ELSE {})
        = { list[p] : p \in Q \cup (IF c < r THEN {e} ELSE {}) }
  BY Zenon
<1> QED BY <1>5, <1>6, <1>7 DEF Q, e, s, r

(***************************************************************************)
(* Cutting a list gives every node to one committee, and committees of two *)
(* sizes at most.                                                          *)
(***************************************************************************)
LEMMA BuildCuts ==
  ASSUME NEW n, NEW list, Distinct(list, n), NEW k \in Nat \ {0}
  PROVE  Cut(build_committee_from_nodes_with_size(list, k), k, n \div k, ToSet(list))
<1> DEFINE s == n \div k
           r == n % k
           P(c) == Positions(c, k, s, r)
           tree == build_committee_from_nodes_with_size(list, k)
<1>1. s \in Nat /\ r \in Nat /\ r < k /\ n \in Nat \ {0} /\ n = k * s + r
  BY Quotient DEF Distinct
<1>2. \A c \in 0 .. k - 1 : tree[c] = { list[p] : p \in P(c) }
  BY CommitteeOf
<1> HIDE DEF s, r, tree
<1>3. /\ \A c \in 0 .. k - 1 :
           P(c) \subseteq 1 .. n /\ Cardinality(P(c)) = IF c < r THEN s + 1 ELSE s
      /\ \A p \in 1 .. n : \E c \in 0 .. k - 1 : p \in P(c)
      /\ \A c, d \in 0 .. k - 1 : c # d => P(c) \cap P(d) = {}
  <2>1. SharedOut(n, k, s, r)
    BY <1>1, PositionsCut
  <2> QED BY <2>1 DEF SharedOut
<1> HIDE DEF P
<1>4. ToSet(list) = { list[p] : p \in 1 .. n } /\ \A p, q \in 1 .. n : list[p] = list[q] => p = q
  BY DEF ToSet, Distinct
<1>5. IsFiniteSet(ToSet(list))
  <2>1. 1 .. n \in SUBSET (1 .. n)
    OBVIOUS
  <2>2. PICK A \in SUBSET (1 .. n) : A = 1 .. n
    BY <2>1
  <2>3. IsFiniteSet({ list[p] : p \in A })
    BY ImageSize
  <2> QED BY <1>4, <2>2, <2>3, Zenon
<1>6. \A c \in 0 .. k - 1 : tree[c] \subseteq ToSet(list)
  BY <1>2, <1>3, <1>4
<1>7. \A x \in ToSet(list) : \E c \in 0 .. k - 1 : x \in tree[c]
  BY <1>2, <1>3, <1>4
<1>8. \A c, d \in 0 .. k - 1 : c # d => tree[c] \cap tree[d] = {}
  <2> SUFFICES ASSUME NEW c \in 0 .. k - 1, NEW d \in 0 .. k - 1, c # d,
                      NEW x \in tree[c], x \in tree[d]
               PROVE  FALSE
    OBVIOUS
  <2>1. PICK p \in P(c) : x = list[p]
    BY <1>2
  <2>2. PICK q \in P(d) : x = list[q]
    BY <1>2
  <2>3. p = q
    BY <1>3, <1>4, <2>1, <2>2
  <2> QED BY <1>3, <2>1, <2>2, <2>3
<1>9. \A c \in 0 .. k - 1 : Cardinality(tree[c]) \in {s, s + 1}
  <2> SUFFICES ASSUME NEW c \in 0 .. k - 1 PROVE Cardinality(tree[c]) \in {s, s + 1}
    OBVIOUS
  <2>1. Cardinality({ list[p] : p \in P(c) }) = Cardinality(P(c))
    <3>1. PICK A \in SUBSET (1 .. n) : A = P(c)
      BY <1>3
    <3>2. Cardinality({ list[p] : p \in A }) = Cardinality(A)
      BY ImageSize
    <3> QED BY <3>1, <3>2, Zenon
  <2>2. Cardinality(tree[c]) = Cardinality(P(c))
    BY <1>2, <2>1
  <2> QED BY <1>3, <2>2
<1>10. tree[0] # {}
  <2>1. 0 \in 0 .. k - 1 /\ (0 < r \/ s # 0)
    BY <1>1
  <2>2. P(0) # {}
    <3>1. CASE 0 < r
      BY <3>1 DEF P, Positions
    <3>2. CASE s # 0
      <4>1. 1 \in 0 * s + 1 .. (0 + 1) * s
        BY <1>1, <3>2
      <4> QED BY <4>1 DEF P, Positions
    <3> QED BY <2>1, <3>1, <3>2
  <2> QED BY <1>2, <2>1, <2>2
<1> QED BY <1>1, <1>5, <1>6, <1>7, <1>8, <1>9, <1>10 DEF Cut, s, tree

---------------------------------------------------------------------------
(***************************************************************************)
(* The invariant: the committees were cut from some order of the nodes.    *)
(***************************************************************************)
OverlayInv ==
  /\ number_of_committees \in Nat \ {0}
  /\ \E list \in Lists : Len(list) = Len(nodes)
  /\ Distinct(nodes, Len(nodes))
  /\ \E list : Distinct(list, Len(nodes)) /\ ToSet(list) = ToSet(nodes)
               /\ carnot_tree = build_committee_from_nodes_with_size(list, number_of_committees)

LEMMA ListIsDistinct ==
  ASSUME NEW list \in Lists
  PROVE  Distinct(list, Len(list))
BY ListsAssumption DEF Distinct

LEMMA ShuffleProperties ==
  ASSUME NEW list, NEW n, Distinct(list, n), \E l \in Lists : Len(l) = n, NEW e \in Entropies(n)
  PROVE  LET shuffled == fisher_yates_shuffle(list, e) IN
         Distinct(shuffled, n) /\ ToSet(shuffled) = ToSet(list)
<1> PICK l \in Lists : Len(l) = n
  OBVIOUS
<1> DEFINE o == e.order
           shuffled == [i \in 1 .. n |-> list[o[i]]]
<1>1. n \in Nat \ {0} /\ DOMAIN list = 1 .. n /\ \A i, j \in 1 .. n : list[i] = list[j] => i = j
  BY DEF Distinct
<1>2. DOMAIN l = 1 .. n
  BY ListIsDistinct DEF Distinct
<1>3. /\ \A k \in 1 .. n : \E i \in 1 .. n : o[i] = k
      /\ \A i, j \in 1 .. n : o[i] \in 1 .. n /\ (o[i] = o[j] => i = j)
  <2>1. o \in Shuffles(Len(l))
    BY DEF Entropies
  <2>2. /\ DOMAIN o = DOMAIN l
        /\ \A k \in DOMAIN l : \E i \in DOMAIN l : o[i] = k
        /\ \A i, j \in DOMAIN l : o[i] \in DOMAIN l /\ (o[i] = o[j] => i = j)
    <3> HIDE DEF o
    <3> QED BY <2>1, ShufflesAssumption, Zenon
  <2> QED BY <1>2, <2>2, Zenon
<1>4. fisher_yates_shuffle(list, e) = shuffled
  BY <1>1 DEF fisher_yates_shuffle
<1> HIDE DEF o
<1>5. Len(shuffled) = n /\ DOMAIN shuffled = 1 .. n
  BY <1>1
<1>6. \A i \in 1 .. n : shuffled[i] = list[o[i]]
  OBVIOUS
<1> HIDE DEF shuffled
<1>7. \A i, j \in 1 .. n : shuffled[i] = shuffled[j] => i = j
  <2> SUFFICES ASSUME NEW i \in 1 .. n, NEW j \in 1 .. n, shuffled[i] = shuffled[j] PROVE i = j
    OBVIOUS
  <2>1. list[o[i]] = list[o[j]]
    BY <1>6
  <2>2. o[i] \in 1 .. n /\ o[j] \in 1 .. n
    BY <1>3
  <2>3. o[i] = o[j]
    BY <1>1, <2>1, <2>2
  <2> QED BY <1>3, <2>3
<1>8. ToSet(shuffled) = ToSet(list)
  <2>1. \A x \in ToSet(shuffled) : x \in ToSet(list)
    <3> SUFFICES ASSUME NEW i \in 1 .. n PROVE shuffled[i] \in ToSet(list)
      BY <1>5 DEF ToSet
    <3>1. shuffled[i] = list[o[i]] /\ o[i] \in 1 .. n
      BY <1>3, <1>6
    <3> QED BY <1>1, <3>1 DEF ToSet
  <2>2. \A x \in ToSet(list) : x \in ToSet(shuffled)
    <3> SUFFICES ASSUME NEW k \in 1 .. n PROVE list[k] \in ToSet(shuffled)
      BY <1>1 DEF ToSet
    <3>1. PICK i \in 1 .. n : o[i] = k
      BY <1>3
    <3> QED BY <1>5, <1>6, <3>1 DEF ToSet
  <2> QED BY <2>1, <2>2
<1> QED BY <1>1, <1>4, <1>5, <1>7, <1>8 DEF Distinct

THEOREM OverlayInvariant == Spec => []OverlayInv
<1>1. Init => OverlayInv
  <2> SUFFICES ASSUME NEW list \in Lists, NEW count \in Counts, NEW e \in Entropies(Len(list)),
                      nodes = fisher_yates_shuffle(list, e),
                      number_of_committees = count,
                      carnot_tree = build_committee_from_nodes_with_size(list, count)
               PROVE  OverlayInv
    BY DEF Init
  <2>1. Distinct(list, Len(list))
    BY ListIsDistinct
  <2>2. Distinct(nodes, Len(list)) /\ ToSet(nodes) = ToSet(list)
    BY <2>1, ShuffleProperties
  <2>3. Len(nodes) = Len(list)
    BY <2>2 DEF Distinct
  <2> QED BY <2>1, <2>2, <2>3, CountsAssumption DEF OverlayInv
<1>2. OverlayInv /\ [Next]_vars => OverlayInv'
  <2> SUFFICES ASSUME OverlayInv, [Next]_vars PROVE OverlayInv'
    OBVIOUS
  <2>1. CASE UNCHANGED vars
    BY <2>1 DEF OverlayInv, vars
  <2>2. ASSUME NEW e \in Entropies(Len(nodes)), advance(e) PROVE OverlayInv'
    <3>1. /\ nodes' = fisher_yates_shuffle(nodes, e)
          /\ carnot_tree' = build_committee_from_nodes_with_size(nodes, number_of_committees)
          /\ number_of_committees' = number_of_committees
      BY <2>2 DEF advance
    <3>2. Distinct(nodes', Len(nodes)) /\ ToSet(nodes') = ToSet(nodes)
      BY <3>1, ShuffleProperties DEF OverlayInv
    <3>3. Len(nodes') = Len(nodes)
      BY <3>2 DEF Distinct
    <3> QED BY <3>1, <3>2, <3>3 DEF OverlayInv
  <2> QED BY <2>1, <2>2 DEF Next
<1> QED BY <1>1, <1>2, PTL DEF Spec

---------------------------------------------------------------------------
\* What follows of the committees, whatever the list they were cut from.

TreeCut(s) == Cut(carnot_tree, number_of_committees, s, ToSet(nodes))

LEMMA TreeIsCut ==
  ASSUME OverlayInv
  PROVE  \E s \in Nat : TreeCut(s) /\ (sized_as_computed => s >= 1)
<1> DEFINE n == Len(nodes)
           k == number_of_committees
<1>1. PICK list : /\ Distinct(list, n) /\ ToSet(list) = ToSet(nodes)
                  /\ carnot_tree = build_committee_from_nodes_with_size(list, k)
  BY DEF OverlayInv
<1>2. k \in Nat \ {0} /\ n \in Nat
  BY DEF OverlayInv, Distinct
<1>3. Cut(carnot_tree, k, n \div k, ToSet(nodes))
  BY <1>1, <1>2, BuildCuts
<1>4. n \div k \in Nat /\ (k =< n => n \div k >= 1)
  BY <1>2, Quotient
<1> QED BY <1>3, <1>4 DEF sized_as_computed, TreeCut

\* A node is in one committee; a committee that is not empty has an index of its own.
LEMMA OneCommittee ==
  ASSUME NEW s, TreeCut(s), NEW i \in indices, NEW x \in carnot_tree[i]
  PROVE  /\ \A j \in indices : x \in carnot_tree[j] => j = i
         /\ \A j \in indices : carnot_tree[j] = carnot_tree[i] => j = i
         /\ committees_by_member(x) = i
         /\ committee_id_to_index(carnot_tree[i]) = i
<1>1. \A j \in indices : x \in carnot_tree[j] => j = i
  BY DEF TreeCut, Cut, indices
<1>2. \A j \in indices : carnot_tree[j] = carnot_tree[i] => j = i
  BY <1>1
<1>3. committees_by_member(x) = i
  BY <1>1 DEF committees_by_member
<1>4. i <= i
  BY DEF TreeCut, Cut, indices
<1>5. committee_id_to_index(carnot_tree[i]) = i
  BY <1>2, <1>4 DEF committee_id_to_index
<1> QED BY <1>1, <1>2, <1>3, <1>5

LEMMA CommitteeTypes ==
  ASSUME NEW s, TreeCut(s)
  PROVE  /\ number_of_committees \in Nat \ {0} /\ s \in Nat /\ 0 \in indices
         /\ \A i \in indices : /\ i \in Nat /\ IsFiniteSet(carnot_tree[i])
                               /\ Cardinality(carnot_tree[i]) \in {s, s + 1}
                               /\ s >= 1 => carnot_tree[i] # {}
         /\ \A S \in SUBSET indices : IsFiniteSet(members_of(S)) /\ Cardinality(members_of(S)) \in Nat
<1>1. number_of_committees \in Nat \ {0} /\ s \in Nat /\ 0 \in indices
  BY DEF TreeCut, Cut, indices
<1>2. ASSUME NEW i \in indices
      PROVE  /\ i \in Nat /\ IsFiniteSet(carnot_tree[i])
             /\ Cardinality(carnot_tree[i]) \in {s, s + 1}
             /\ s >= 1 => carnot_tree[i] # {}
  <2>1. i \in Nat /\ Cardinality(carnot_tree[i]) \in {s, s + 1}
    BY DEF TreeCut, Cut, indices
  <2>2. IsFiniteSet(ToSet(nodes)) /\ carnot_tree[i] \in SUBSET ToSet(nodes)
    BY DEF TreeCut, Cut, indices
  <2>3. IsFiniteSet(carnot_tree[i])
    BY <2>2, FS_Subset
  <2>4. s >= 1 => carnot_tree[i] # {}
    BY <1>1, <2>1, FS_EmptySet
  <2> QED BY <2>1, <2>3, <2>4
<1>3. ASSUME NEW S \in SUBSET indices
      PROVE  IsFiniteSet(members_of(S)) /\ Cardinality(members_of(S)) \in Nat
  <2>1. IsFiniteSet(ToSet(nodes)) /\ members_of(S) \in SUBSET ToSet(nodes)
    BY DEF TreeCut, Cut, indices, members_of
  <2> QED BY <2>1, FS_Subset, FS_CardinalityType
<1> QED BY <1>1, <1>2, <1>3

LEMMA CommitteesPartition ==
  ASSUME NEW s, TreeCut(s)
  PROVE  committees_partition
<1>1. /\ \A x \in ToSet(nodes) : \E i \in indices : x \in carnot_tree[i]
      /\ \A i \in indices : carnot_tree[i] \subseteq ToSet(nodes)
  BY DEF TreeCut, Cut, indices
<1>2. ASSUME NEW x \in ToSet(nodes) PROVE Cardinality({ i \in indices : x \in carnot_tree[i] }) = 1
  <2>1. PICK i \in indices : x \in carnot_tree[i]
    BY <1>1
  <2>2. { j \in indices : x \in carnot_tree[j] } = {i}
    BY <2>1, OneCommittee
  <2> QED BY <2>2, FS_Singleton
<1>3. members_of(indices) = ToSet(nodes)
  BY <1>1 DEF members_of
<1>4. ASSUME NEW i \in indices, NEW j \in indices
      PROVE  Cardinality(carnot_tree[i]) <= Cardinality(carnot_tree[j]) + 1
  <2>1. s \in Nat /\ Cardinality(carnot_tree[i]) \in {s, s + 1} /\ Cardinality(carnot_tree[j]) \in {s, s + 1}
    BY CommitteeTypes
  <2> QED BY <2>1
<1> QED BY <1>2, <1>3, <1>4 DEF committees_partition

LEMMA ParentOfChild ==
  ASSUME NEW s, TreeCut(s), s >= 1, number_of_committees % 2 = 1, number_of_committees <= 3
  PROVE  parent_of_child
<1>1. number_of_committees \in {1, 3}
  BY CommitteeTypes
<1>2. ASSUME NEW i \in indices PROVE committee_id_to_index(carnot_tree[i]) = i
  <2>1. PICK x : x \in carnot_tree[i]
    BY CommitteeTypes
  <2> QED BY <2>1, OneCommittee
<1>3. ASSUME NEW i \in indices, NEW c \in child_committees(i)
      PROVE  parent_committee(c) = carnot_tree[i]
  <2>1. c \in {i * 2 + 1, i * 2 + 2} /\ c \in indices
    BY <1>2 DEF child_committees
  <2>2. i = 0 /\ c \in {1, 2}
    BY <1>1, <2>1 DEF indices
  <2>3. carnot_tree[c] # carnot_tree[0]
    <3>1. PICK x : x \in carnot_tree[c]
      BY <2>1, CommitteeTypes
    <3>2. c # 0
      BY <2>2
    <3> QED BY <2>1, <2>2, <3>1, <3>2, OneCommittee
  <2>4. (IF c \div 2 > 0 THEN c \div 2 - 1 ELSE 0) = 0
    BY <2>2
  <2> QED BY <2>2, <2>3, <2>4 DEF parent_committee
<1> QED BY <1>3 DEF parent_of_child

LEMMA LeaderQuorums ==
  ASSUME NEW s, TreeCut(s)
  PROVE  leader_quorums_intersect
<1> DEFINE children == child_committees(0)
           a == Cardinality(root_committee)
           b == Cardinality(members_of(children))
           v == Cardinality(members_of({0} \cup children))
           t == leader_super_majority_threshold
<1>1. PICK x : x \in carnot_tree[0]
  BY DEF TreeCut, Cut
<1>2. committee_id_to_index(carnot_tree[0]) = 0 /\ 0 \in indices
  BY <1>1, CommitteeTypes, OneCommittee
<1>3. children \in SUBSET indices /\ 0 \notin children
  BY <1>2 DEF child_committees
<1> HIDE DEF children
<1>4. IsFiniteSet(root_committee) /\ IsFiniteSet(members_of(children)) /\ a \in Nat /\ b \in Nat
  BY <1>2, <1>3, CommitteeTypes, FS_CardinalityType DEF root_committee
<1>5. root_committee \cap members_of(children) = {}
  <2> SUFFICES ASSUME NEW y \in root_committee, NEW j \in children, y \in carnot_tree[j] PROVE FALSE
    BY DEF members_of
  <2> QED BY <1>2, <1>3, OneCommittee DEF root_committee
<1>6. members_of({0} \cup children) = root_committee \cup members_of(children)
  BY DEF members_of, root_committee
<1>7. v = a + b
  <2>1. v = a + b - Cardinality({})
    BY <1>4, <1>5, <1>6, FS_Union
  <2> QED BY <1>4, <2>1, FS_EmptySet
<1>8. a >= 1
  <2>1. root_committee # {}
    BY <1>1 DEF root_committee
  <2> QED BY <1>4, <2>1, FS_EmptySet
<1>9. t = ((a + b) * 2) \div 3 + 1
  BY DEF leader_super_majority_threshold, two_thirds_and_one, children
<1> HIDE DEF a, b, v, t
<1>10. t <= v /\ 3 * (2 * t - v) > v
  BY <1>4, <1>7, <1>8, <1>9
<1> QED BY <1>10 DEF leader_quorums_intersect, children, v, t

LEMMA QuorumsReachable ==
  ASSUME NEW s, TreeCut(s), s >= 1, number_of_committees % 2 = 1
  PROVE  quorums_reachable
<1> SUFFICES ASSUME NEW x \in ToSet(nodes)
             PROVE  super_majority_threshold(x)
                      <= Cardinality(members_of(child_committees(committees_by_member(x))))
  BY DEF quorums_reachable
<1>0. number_of_committees \in Nat \ {0} /\ s \in Nat
  BY CommitteeTypes
<1>1. PICK i \in indices : x \in carnot_tree[i]
  BY DEF TreeCut, Cut, indices
<1>2. committees_by_member(x) = i /\ committee_id_to_index(carnot_tree[i]) = i
  BY <1>1, OneCommittee
<1> DEFINE children == child_committees(i)
           votes == Cardinality(members_of(children))
<1>3. children = {i * 2 + 1, i * 2 + 2} \cap indices
  BY <1>2 DEF child_committees
<1>4. votes \in Nat
  <2>1. children \in SUBSET indices
    BY <1>3
  <2> HIDE DEF children
  <2> QED BY <2>1, CommitteeTypes
<1>5. CASE is_member_of_leaf_committee(x)
  BY <1>2, <1>4, <1>5 DEF super_majority_threshold
<1>6. CASE ~ is_member_of_leaf_committee(x)
  <2> DEFINE k == number_of_committees
  <2>1. i < k - (k + 1) \div 2
    <3> SUFFICES ASSUME i >= k - (k + 1) \div 2 PROVE FALSE
      BY <1>0 DEF indices
    <3>1. i \in k - (k + 1) \div 2 .. k - 1
      BY <1>0 DEF indices
    <3> QED BY <1>1, <1>6, <3>1 DEF is_member_of_leaf_committee, leaf_committees
  <2> DEFINE l == i * 2 + 1
             r == i * 2 + 2
  <2>2. l \in indices /\ r \in indices /\ l # r
    BY <1>0, <2>1 DEF indices
  <2>3. children = {l, r}
    BY <1>3, <2>2
  <2> HIDE DEF l, r, k, children
  <2> DEFINE A == carnot_tree[l]
             B == carnot_tree[r]
             c == Cardinality(carnot_tree[i])
  <2>4. /\ IsFiniteSet(A) /\ Cardinality(A) \in {s, s + 1}
        /\ IsFiniteSet(B) /\ Cardinality(B) \in {s, s + 1}
        /\ c \in {s, s + 1}
    BY <2>2, CommitteeTypes
  <2>5. A \cap B = {}
    BY <2>2, OneCommittee
  <2>6. members_of(children) = A \cup B
    BY <2>3 DEF members_of
  <2> HIDE DEF A, B
  <2>7. votes = Cardinality(A) + Cardinality(B)
    <3>1. votes = Cardinality(A) + Cardinality(B) - Cardinality({})
      BY <2>4, <2>5, <2>6, FS_Union
    <3> QED BY <1>0, <2>4, <3>1, FS_EmptySet
  <2>8. super_majority_threshold(x) = (c * 2) \div 3 + 1
    BY <1>2, <1>6 DEF super_majority_threshold, committee_by_member_id, two_thirds_and_one
  <2> HIDE DEF c
  <2>9. (c * 2) \div 3 + 1 <= 2 * s
    BY <1>0, <2>4
  <2>10. super_majority_threshold(x) <= votes
    <3> HIDE DEF votes
    <3> QED BY <1>0, <2>4, <2>7, <2>8, <2>9
  <2> QED BY <1>2, <2>10 DEF children
<1> QED BY <1>5, <1>6

(***************************************************************************)
(* Every node is in one committee, the committees' sizes differ by one at  *)
(* most, and in trees of up to three committees the parent of a committee  *)
(* is the one whose child it is (CarnotTree).                              *)
(***************************************************************************)
THEOREM TreeWellFormedAlways == Spec => []TreeWellFormed
<1>1. OverlayInv => TreeWellFormed
  <2> SUFFICES ASSUME OverlayInv PROVE TreeWellFormed
    OBVIOUS
  <2>1. PICK s \in Nat : TreeCut(s) /\ (sized_as_computed => s >= 1)
    BY TreeIsCut
  <2>2. sized_as_computed /\ number_of_committees <= 3 => parent_of_child
    BY <2>1, ParentOfChild DEF sized_as_computed
  <2> QED BY <2>1, <2>2, CommitteesPartition DEF TreeWellFormed
<1> QED BY <1>1, OverlayInvariant, PTL

(***************************************************************************)
(* Nobody waits for more votes than the committees below can send, and two *)
(* leaders' quorums share more than a third of the voters                  *)
(* (super_majority_threshold, leader_super_majority_threshold).            *)
(***************************************************************************)
THEOREM ThresholdsSoundAlways == Spec => []ThresholdsSound
<1>1. OverlayInv => ThresholdsSound
  <2> SUFFICES ASSUME OverlayInv PROVE ThresholdsSound
    OBVIOUS
  <2>1. PICK s \in Nat : TreeCut(s) /\ (sized_as_computed => s >= 1)
    BY TreeIsCut
  <2>2. sized_as_computed => quorums_reachable
    BY <2>1, QuorumsReachable DEF sized_as_computed
  <2> QED BY <2>1, <2>2, LeaderQuorums DEF ThresholdsSound
<1> QED BY <1>1, OverlayInvariant, PTL
===========================================================================
