-------------------------- MODULE MixnetTheorems --------------------------
(***************************************************************************)
(* The theorems about the mixnet, for messages of any length, any number   *)
(* of them, of layers and of nodes, and any redundancy.                    *)
(***************************************************************************)
EXTENDS Mixnet, Lemmas, SequenceTheorems

Bytes == {MESSAGE_FLAG_REAL, MESSAGE_FLAG_DROP_COVER} \cup UNION { ToSet(msg) : msg \in Messages }
Fragments == [set_id : Nat, total_fragments : Nat, fragment_id : Nat, body : Seq(Bytes)]
Packets == [fragment : Fragments, route : Seq(Mixnode)]

\* The fragments of the messages published, numbered from 0, and that of any cover message.
DataOf(id) == << MESSAGE_FLAG_REAL >> \o published[id].msg
Parts(id) == Len(chunks(DataOf(id)))
Part(id, i) ==
  [set_id |-> id, total_fragments |-> Parts(id), fragment_id |-> i, body |-> chunks(DataOf(id))[i + 1]]
Cover ==
  [set_id |-> CoverSet, total_fragments |-> 1, fragment_id |-> 0, body |-> << MESSAGE_FLAG_DROP_COVER >>]

Types ==
  /\ topology \in [1 .. NumLayers -> SUBSET Mixnode]
  /\ published \in Seq([msg : Messages, destination : Mixnode])
  /\ \A id \in DOMAIN published : Parts(id) < ByteValues
  /\ real_packet_queue \in Seq(Packets) /\ redundant_real_packet_queue \in Seq(Packets)
  /\ IsABag(packets) /\ IsABag(delivered)
  /\ DOMAIN fragmentSets = Mixnode

\* A packet carries a part of a message, to where all of that message goes.
IsPart(p) ==
  \E id \in DOMAIN published : \E i \in 0 .. Parts(id) - 1 :
    p.fragment = Part(id, i) /\ p.route[Len(p.route)] = published[id].destination
OnRoute(p) == p \in Packets /\ Len(p.route) \in 1 .. NumLayers

PacketsOK ==
  /\ \A p \in ToSet(real_packet_queue) \cup ToSet(redundant_real_packet_queue) : OnRoute(p) /\ IsPart(p)
  /\ \A p \in BagToSet(packets) : OnRoute(p) /\ (p.fragment = Cover \/ IsPart(p))

\* An open set has some of the parts of a message, at its destination, but not all.
SetOK(n, id) ==
  /\ id \in DOMAIN published /\ n = published[id].destination
  /\ DOMAIN fragmentSets[n][id] \subseteq 0 .. Parts(id) - 1
  /\ DOMAIN fragmentSets[n][id] # 0 .. Parts(id) - 1
  /\ \A i \in DOMAIN fragmentSets[n][id] : fragmentSets[n][id][i] = Part(id, i).body
SetsOK == \A n \in Mixnode : \A id \in DOMAIN fragmentSets[n] : SetOK(n, id)

AsPublished(id) == [at |-> published[id].destination, set_id |-> id, msg |-> published[id].msg]
DeliveredOK == \A d \in BagToSet(delivered) : \E id \in DOMAIN published : d = AsPublished(id)

\* What the delivery at a destination needs.
FlowInv == Types /\ PacketsOK /\ SetsOK /\ DeliveredOK

HowMany(e, B) == IF BagIn(e, B) THEN B[e] ELSE 0

\* The copies of a fragment in a bag of packets, told apart by numbers.
Copies(f, B) == { t \in BagToSet(B) \X (Nat \ {0}) : t[1].fragment = f /\ t[2] <= HowMany(t[1], B) }

\* Of each message the copies of the first part are counted: in the queues, on their way and in
\* its destination's open set.
First(id) == Part(id, 0)
Waits(id) == \E k \in DOMAIN real_packet_queue : real_packet_queue[k].fragment = First(id)
Queued(id) ==
  { k \in DOMAIN redundant_real_packet_queue : redundant_real_packet_queue[k].fragment = First(id) }
Holds(id) ==
  LET n == published[id].destination
  IN  id \in DOMAIN fragmentSets[n] /\ 0 \in DOMAIN fragmentSets[n][id]
Stored(id) == IF Holds(id) THEN 1 ELSE 0

CopiesOf(id) == Copies(First(id), packets)

\* Before its first part is taken there is nothing of a message; then never more than its copies.
Balance(id) ==
  /\ IsFiniteSet(CopiesOf(id))
  /\ Waits(id) => CopiesOf(id) = {} /\ Queued(id) = {} /\ ~ Holds(id) /\ times_delivered(id) = 0
  /\ Cardinality(CopiesOf(id)) + Cardinality(Queued(id)) + Stored(id) + times_delivered(id)
       <= 2 * (Redundancy - 1)

CopiesOK == \A id \in DOMAIN published : Balance(id)

\* No fragment is in the queue twice, so its copies are made once.
NoneTwice ==
  \A k, l \in DOMAIN real_packet_queue :
    real_packet_queue[k].fragment = real_packet_queue[l].fragment => k = l

\* The inductive invariant.
MixInv == FlowInv /\ CopiesOK /\ NoneTwice

---------------------------------------------------------------------------
(* Cutting and joining.                                                    *)

\* Where the first i chunks of n bytes end.
End(i, n) == IF i * MAX_PAYLOAD_SIZE < n THEN i * MAX_PAYLOAD_SIZE ELSE n

\* There is a chunk if there is a byte; the last chunk, and no other, ends where the bytes do.
LEMMA ChunkCount ==
  ASSUME NEW n \in Nat \ {0}
  PROVE  LET count == (n + MAX_PAYLOAD_SIZE - 1) \div MAX_PAYLOAD_SIZE
         IN  /\ count \in Nat \ {0} /\ End(count, n) = n
             /\ \A i \in 1 .. count : (i - 1) * MAX_PAYLOAD_SIZE < n
<1> DEFINE M == MAX_PAYLOAD_SIZE
           count == (n + M - 1) \div M
           p == count * M
<1>1. M \in Nat \ {0}
  BY PacketAssumption
<1> HIDE DEF M
<1>2. count \in Int /\ M * count <= n + M - 1 /\ n + M - 1 < M * count + M
  BY <1>1
<1> HIDE DEF count
<1>3. p = M * count /\ p \in Int /\ p >= n /\ p - M < n
  BY <1>1, <1>2
<1>4. count > 0
  <2> SUFFICES ASSUME count <= 0 PROVE FALSE
    BY <1>2
  <2>1. M * count <= 0
    BY <1>1, <1>2
  <2> QED BY <1>1, <1>3, <2>1
<1>5. ASSUME NEW i \in 1 .. count PROVE (i - 1) * M < n
  <2>1. (i - 1) * M <= (count - 1) * M
    BY <1>1, <1>2
  <2>2. (count - 1) * M = p - M
    BY <1>1, <1>2
  <2>3. (i - 1) * M \in Int
    BY <1>1, <1>2
  <2> QED BY <1>1, <1>3, <2>1, <2>2, <2>3
<1>6. End(count, n) = n
  BY <1>3 DEF End, M
<1> QED BY <1>2, <1>4, <1>5, <1>6 DEF count, M

\* The chunks of at least one byte are at least one, each a part of the bytes.
LEMMA ChunksType ==
  ASSUME NEW S, NEW data \in Seq(S), data # << >>
  PROVE  /\ chunks(data) \in Seq(Seq(S)) /\ Len(chunks(data)) \in Nat \ {0}
         /\ DOMAIN chunks(data) = 1 .. Len(chunks(data))
         /\ \A i \in DOMAIN chunks(data) :
              chunks(data)[i] = SubSeq(data, End(i - 1, Len(data)) + 1, End(i, Len(data)))
         /\ End(Len(chunks(data)), Len(data)) = Len(data)
<1> DEFINE M == MAX_PAYLOAD_SIZE
           n == Len(data)
           count == (n + M - 1) \div M
<1>1. n \in Nat \ {0} /\ M \in Nat \ {0}
  BY EmptySeq, PacketAssumption
<1> HIDE DEF M, n
<1>2. /\ count \in Nat \ {0} /\ End(count, n) = n
      /\ \A i \in 1 .. count : (i - 1) * M < n
  BY <1>1, ChunkCount DEF M
<1> HIDE DEF count
<1>3. chunks(data) = [i \in 1 .. count |-> SubSeq(data, (i - 1) * M + 1, IF i * M < n THEN i * M ELSE n)]
  BY DEF chunks, count, M, n
<1>4. ASSUME NEW i \in 1 .. count
      PROVE  /\ chunks(data)[i] = SubSeq(data, End(i - 1, n) + 1, End(i, n))
             /\ chunks(data)[i] \in Seq(S)
  <2>1. End(i - 1, n) = (i - 1) * M
    BY <1>2 DEF End, M
  <2>2. End(i, n) = IF i * M < n THEN i * M ELSE n
    BY DEF End, M
  <2>3. chunks(data)[i] = SubSeq(data, End(i - 1, n) + 1, End(i, n))
    BY <1>3, <2>1, <2>2
  <2>4. End(i - 1, n) \in Nat /\ End(i, n) \in Int /\ End(i, n) <= n
    BY <1>1, <1>2, <2>1, <2>2
  <2>5. \A j \in End(i - 1, n) + 1 .. End(i, n) : data[j] \in S
    BY <1>1, <2>4, ElementOfSeq DEF n
  <2> QED BY <2>3, <2>4, <2>5, SubSeqProperties
<1>5. chunks(data) \in Seq(Seq(S)) /\ Len(chunks(data)) = count
  BY <1>2, <1>3, <1>4
<1> QED BY <1>2, <1>3, <1>4, <1>5 DEF n

\* Joining all chunks gives the bytes back.
LEMMA JoinChunks ==
  ASSUME NEW S, NEW data \in Seq(S), data # << >>
  PROVE  FlattenSeq(chunks(data)) = data
<1> DEFINE cs == chunks(data)
           n == Len(data)
           count == Len(cs)
           Joins(f) == f = [i \in 1 .. count |-> IF i = 1 THEN cs[i] ELSE f[i - 1] \o cs[i]]
           part == [i \in 1 .. count |-> SubSeq(data, 1, End(i, n))]
           flatten == CHOOSE f : Joins(f)
<1>1. /\ cs \in Seq(Seq(S)) /\ count \in Nat \ {0} /\ DOMAIN cs = 1 .. count
      /\ \A i \in 1 .. count : cs[i] = SubSeq(data, End(i - 1, n) + 1, End(i, n))
      /\ End(count, n) = n
  BY ChunksType
<1>2. n \in Nat
  BY LenProperties
<1> HIDE DEF cs, n, count
<1>3. \A i \in 1 .. count : End(i - 1, n) \in 0 .. n /\ End(i, n) \in End(i - 1, n) .. n
  BY <1>1, <1>2, PacketAssumption DEF End
<1>4. End(0, n) = 0
  BY <1>2, PacketAssumption DEF End
<1>5. \A i \in 1 .. count : part[i] = IF i = 1 THEN cs[i] ELSE part[i - 1] \o cs[i]
  <2> TAKE i \in 1 .. count
  <2>1. CASE i = 1
    <3>1. End(i - 1, n) + 1 = 1
      BY <1>4, <2>1
    <3>2. cs[i] = SubSeq(data, 1, End(i, n))
      BY <1>1, <3>1
    <3> QED BY <2>1, <3>2
  <2>2. CASE i # 1
    <3>1. ASSUME NEW a \in 0 .. n, NEW b \in a .. n
          PROVE  SubSeq(data, 1, a) \o SubSeq(data, a + 1, b) = SubSeq(data, 1, b)
      <4>1. 1 \in 1 .. Len(data) + 1 /\ a \in 1 - 1 .. Len(data) /\ b \in a .. Len(data)
        BY <1>2 DEF n
      <4> QED BY <4>1, ConcatAdjacentSubSeq, Zenon
    <3>2. i - 1 \in 1 .. count
      BY <1>1, <2>2
    <3> QED BY <1>1, <1>3, <2>2, <3>1, <3>2
  <2> QED BY <2>1, <2>2
<1>6. Joins(part)
  <2> HIDE DEF part
  <2>1. part = [i \in 1 .. count |-> part[i]]
    BY DEF part
  <2> QED BY <1>5, <2>1
<1>7. Joins(flatten)
  <2> HIDE DEF Joins, part
  <2> QED BY <1>6
<1> DEFINE last == count - 1
           I == { i \in 0 .. last : flatten[i + 1] = part[i + 1] }
<1>8. last \in Nat /\ count = last + 1
  BY <1>1
<1> HIDE DEF last
<1>9. 0 .. last \subseteq I
  <2> HIDE DEF part
  <2>1. \A i \in 1 .. count : flatten[i] = IF i = 1 THEN cs[i] ELSE flatten[i - 1] \o cs[i]
    <3> HIDE DEF flatten
    <3> QED BY <1>7
  <2> HIDE DEF flatten
  <2>2. 0 \in I
    BY <1>8, <1>5, <2>1
  <2>3. ASSUME NEW i \in 0 .. last - 1, i \in I PROVE i + 1 \in I
    BY <1>8, <1>5, <2>1, <2>3
  <2> HIDE DEF I
  <2> QED BY <1>8, <2>2, <2>3, BoundedInduction
<1>10. flatten[count] = data
  <2>1. last \in I
    <3> HIDE DEF I
    <3> QED BY <1>8, <1>9
  <2>2. flatten[count] = part[count]
    <3> HIDE DEF flatten, part
    <3> QED BY <1>8, <2>1
  <2>3. count \in 1 .. count
    BY <1>1
  <2>4. part[count] = SubSeq(data, 1, End(count, n))
    BY <2>3, Zenon
  <2> HIDE DEF flatten, part
  <2> QED BY <1>1, <2>2, <2>4, SubSeqFull DEF n
<1>11. FlattenSeq(cs) = flatten[count]
  BY <1>1 DEF FlattenSeq, count
<1> QED BY <1>10, <1>11 DEF cs

---------------------------------------------------------------------------
(* Bags.                                                                   *)

LEMMA BagCounts ==
  ASSUME NEW B, IsABag(B), NEW e
  PROVE  HowMany(e, B) \in Nat /\ (BagIn(e, B) <=> HowMany(e, B) > 0)
BY DEF HowMany, BagIn, BagToSet, IsABag

LEMMA BagAdds ==
  ASSUME NEW B, IsABag(B), NEW q, NEW n \in Nat
  PROVE  /\ IsABag(B (+) copies(q, n))
         /\ BagToSet(B (+) copies(q, n)) = BagToSet(B) \cup (IF n = 0 THEN {} ELSE {q})
         /\ \A e : HowMany(e, B (+) copies(q, n)) = IF e = q THEN HowMany(e, B) + n ELSE HowMany(e, B)
<1>1. CASE n = 0
  <2>1. copies(q, n) = EmptyBag /\ DOMAIN EmptyBag = {}
    BY <1>1 DEF copies, EmptyBag, SetToBag
  <2> HIDE DEF copies
  <2>2. DOMAIN (B (+) EmptyBag) = DOMAIN B /\ \A e \in DOMAIN B : (B (+) EmptyBag)[e] = B[e]
    BY <2>1 DEF (+), IsABag
  <2>3. IsABag(B (+) EmptyBag)
    BY <2>1 DEF (+), IsABag
  <2> QED BY <1>1, <2>1, <2>2, <2>3, BagCounts DEF HowMany, BagIn, BagToSet
<1>2. CASE n # 0
  <2> DEFINE C == [p \in {q} |-> n]
  <2>1. copies(q, n) = C
    BY <1>2 DEF copies
  <2>2. DOMAIN C = {q} /\ C[q] = n
    OBVIOUS
  <2> HIDE DEF C
  <2>3. DOMAIN (B (+) C) = DOMAIN B \cup {q}
    BY <2>2 DEF (+)
  <2>4. \A e \in DOMAIN B : B[e] \in Nat \ {0}
    BY DEF IsABag
  <2>5. \A e \in DOMAIN B \cup {q} :
          (B (+) C)[e] = (IF e \in DOMAIN B THEN B[e] ELSE 0) + (IF e = q THEN n ELSE 0)
    BY <2>2 DEF (+)
  <2>6. \A e \in DOMAIN B \cup {q} : (B (+) C)[e] \in { m \in Nat : m > 0 }
    BY <1>2, <2>4, <2>5
  <2>7. B (+) C = [e \in DOMAIN B \cup {q} |-> (B (+) C)[e]]
    BY <2>2 DEF (+)
  <2>8. IsABag(B (+) C)
    BY <2>3, <2>6, <2>7 DEF IsABag
  <2>9. \A e : HowMany(e, B (+) C) = IF e = q THEN HowMany(e, B) + n ELSE HowMany(e, B)
    BY <1>2, <2>3, <2>4, <2>5 DEF HowMany, BagIn, BagToSet
  <2> QED BY <1>2, <2>1, <2>3, <2>8, <2>9 DEF BagToSet
<1> QED BY <1>1, <1>2

LEMMA BagRemoves ==
  ASSUME NEW B, IsABag(B), NEW q, BagIn(q, B)
  PROVE  /\ IsABag(B (-) copies(q, 1))
         /\ BagToSet(B (-) copies(q, 1)) \subseteq BagToSet(B)
         /\ \A e : HowMany(e, B (-) copies(q, 1)) = IF e = q THEN HowMany(e, B) - 1 ELSE HowMany(e, B)
<1> DEFINE C == [p \in {q} |-> 1]
           D == [e \in DOMAIN B |-> IF e \in DOMAIN C THEN B[e] - C[e] ELSE B[e]]
           R == B (-) C
<1>1. copies(q, 1) = C
  BY DEF copies
<1>2. DOMAIN C = {q} /\ C[q] = 1
  OBVIOUS
<1> HIDE DEF C
<1>3. DOMAIN D = DOMAIN B /\ \A e \in DOMAIN B : D[e] = IF e = q THEN B[e] - 1 ELSE B[e]
  BY <1>2
<1>4. R = [e \in { d \in DOMAIN D : D[d] > 0 } |-> D[e]]
  BY DEF (-)
<1> HIDE DEF D, R
<1>5. \A e \in DOMAIN B : B[e] \in Nat \ {0}
  BY DEF IsABag
<1>6. q \in DOMAIN B
  BY DEF BagIn, BagToSet
<1>7. DOMAIN R = { d \in DOMAIN D : D[d] > 0 } /\ \A e \in DOMAIN R : R[e] = D[e]
  BY <1>4
<1>8. \A e \in DOMAIN R : R[e] \in { m \in Nat : m > 0 }
  BY <1>3, <1>5, <1>7
<1>9. IsABag(R)
  BY <1>4, <1>7, <1>8 DEF IsABag
<1>10. \A e : HowMany(e, R) = IF e = q THEN HowMany(e, B) - 1 ELSE HowMany(e, B)
  BY <1>3, <1>5, <1>6, <1>7 DEF HowMany, BagIn, BagToSet
<1>11. BagToSet(R) \subseteq BagToSet(B)
  BY <1>3, <1>7 DEF BagToSet
<1> QED BY <1>1, <1>9, <1>10, <1>11 DEF R

LEMMA NoCopies ==
  ASSUME NEW B, IsABag(B), NEW f
  PROVE  Copies(f, B) = {} <=> \A p \in BagToSet(B) : p.fragment # f
<1>1. ASSUME NEW p \in BagToSet(B), p.fragment = f PROVE << p, 1 >> \in Copies(f, B)
  <2>1. HowMany(p, B) \in Nat /\ HowMany(p, B) > 0
    BY BagCounts DEF BagIn
  <2> QED BY <1>1, <2>1 DEF Copies
<1> QED BY <1>1 DEF Copies

LEMMA CopyAdded ==
  ASSUME NEW B, IsABag(B), NEW q, NEW f, IsFiniteSet(Copies(f, B))
  PROVE  LET A == B (+) copies(q, 1)
         IN  /\ IsFiniteSet(Copies(f, A))
             /\ q.fragment # f => Copies(f, A) = Copies(f, B)
             /\ q.fragment = f => Cardinality(Copies(f, A)) = Cardinality(Copies(f, B)) + 1
<1> DEFINE A == B (+) copies(q, 1)
           new == << q, HowMany(q, B) + 1 >>
<1>1. /\ BagToSet(A) = BagToSet(B) \cup {q}
      /\ \A e : HowMany(e, A) = IF e = q THEN HowMany(e, B) + 1 ELSE HowMany(e, B)
  BY BagAdds
<1>2. \A e : HowMany(e, B) \in Nat /\ (e \in BagToSet(B) <=> HowMany(e, B) > 0)
  BY BagCounts DEF BagIn
<1> HIDE DEF A
<1>3. ASSUME q.fragment # f PROVE Copies(f, A) = Copies(f, B)
  BY <1>1, <1>2, <1>3 DEF Copies
<1>4. ASSUME q.fragment = f
      PROVE  IsFiniteSet(Copies(f, A)) /\ Cardinality(Copies(f, A)) = Cardinality(Copies(f, B)) + 1
  <2>1. Copies(f, A) = Copies(f, B) \cup {new}
    <3>1. ASSUME NEW t \in Copies(f, A), t # new PROVE t \in Copies(f, B)
      <4>1. t = << t[1], t[2] >> /\ t[1] \in BagToSet(A) /\ t[2] \in Nat \ {0}
            /\ t[1].fragment = f /\ t[2] <= HowMany(t[1], A)
        BY DEF Copies
      <4>2. CASE t[1] = q
        <5>1. t[2] # HowMany(q, B) + 1
          BY <3>1, <4>1, <4>2
        <5>2. t[2] <= HowMany(q, B) /\ q \in BagToSet(B)
          BY <1>1, <1>2, <4>1, <4>2, <5>1
        <5> QED BY <4>1, <4>2, <5>2 DEF Copies
      <4>3. CASE t[1] # q
        BY <1>1, <4>1, <4>3 DEF Copies
      <4> QED BY <4>2, <4>3
    <3>2. Copies(f, B) \subseteq Copies(f, A)
      BY <1>1, <1>2 DEF Copies
    <3>3. new \in Copies(f, A)
      BY <1>1, <1>2, <1>4 DEF Copies
    <3> QED BY <3>1, <3>2, <3>3
  <2>2. new \notin Copies(f, B)
    BY <1>2 DEF Copies
  <2> HIDE DEF new
  <2>3. IsFiniteSet(Copies(f, A)) /\ Cardinality(Copies(f, A)) = Cardinality(Copies(f, B)) + 1
    BY <2>1, <2>2, FS_AddElement
  <2> QED BY <2>3
<1> QED BY <1>3, <1>4 DEF A

LEMMA CopiesAdded ==
  ASSUME NEW B, IsABag(B), NEW q, NEW f, NEW n \in Nat, IsFiniteSet(Copies(f, B))
  PROVE  LET A == B (+) copies(q, n)
         IN  /\ q.fragment # f => Copies(f, A) = Copies(f, B)
             /\ Copies(f, B) = {} => IsFiniteSet(Copies(f, A)) /\ Cardinality(Copies(f, A)) <= n
<1> DEFINE A == B (+) copies(q, n)
<1>1. /\ BagToSet(A) = BagToSet(B) \cup (IF n = 0 THEN {} ELSE {q})
      /\ \A e : HowMany(e, A) = IF e = q THEN HowMany(e, B) + n ELSE HowMany(e, B)
  BY BagAdds
<1>2. \A e : HowMany(e, B) \in Nat /\ (e \in BagToSet(B) <=> HowMany(e, B) > 0)
  BY BagCounts DEF BagIn
<1> HIDE DEF A
<1>3. q.fragment # f => Copies(f, A) = Copies(f, B)
  BY <1>1, <1>2 DEF Copies
<1>4. ASSUME Copies(f, B) = {} PROVE IsFiniteSet(Copies(f, A)) /\ Cardinality(Copies(f, A)) <= n
  <2> DEFINE F == [j \in 1 .. n |-> << q, j >>]
             T == { F[j] : j \in 1 .. n }
  <2>1. \A p \in BagToSet(B) : p.fragment # f
    BY <1>4, NoCopies
  <2>2. Copies(f, A) \subseteq T
    <3> SUFFICES ASSUME NEW t \in Copies(f, A) PROVE t \in T
      OBVIOUS
    <3>1. t = << t[1], t[2] >> /\ t[1] \in BagToSet(A) /\ t[2] \in Nat \ {0}
          /\ t[1].fragment = f /\ t[2] <= HowMany(t[1], A)
      BY DEF Copies
    <3>2. t[1] \notin BagToSet(B) /\ t[1] = q
      BY <1>1, <2>1, <3>1
    <3>3. t[2] \in 1 .. n
      BY <1>1, <1>2, <3>1, <3>2
    <3> QED BY <3>1, <3>2, <3>3
  <2>3. F \in Surjection(1 .. n, T)
    BY DEF Surjection
  <2>4. IsFiniteSet(1 .. n) /\ Cardinality(1 .. n) = n
    BY FS_Interval
  <2> HIDE DEF F, T
  <2>5. IsFiniteSet(T) /\ Cardinality(T) <= n
    BY <2>3, <2>4, FS_Surjection
  <2>6. IsFiniteSet(Copies(f, A)) /\ Cardinality(Copies(f, A)) <= Cardinality(T)
    BY <2>2, <2>5, FS_Subset
  <2>7. Cardinality(T) \in Nat /\ Cardinality(Copies(f, A)) \in Nat
    BY <2>5, <2>6, FS_CardinalityType
  <2> QED BY <2>5, <2>6, <2>7
<1> QED BY <1>3, <1>4 DEF A

LEMMA CopyRemoved ==
  ASSUME NEW B, IsABag(B), NEW q, BagIn(q, B), NEW f, IsFiniteSet(Copies(f, B))
  PROVE  LET A == B (-) copies(q, 1)
         IN  /\ IsFiniteSet(Copies(f, A))
             /\ q.fragment # f => Copies(f, A) = Copies(f, B)
             /\ q.fragment = f => Cardinality(Copies(f, A)) = Cardinality(Copies(f, B)) - 1
<1> DEFINE A == B (-) copies(q, 1)
           old == << q, HowMany(q, B) >>
<1>1. /\ BagToSet(A) \subseteq BagToSet(B) /\ IsABag(A)
      /\ \A e : HowMany(e, A) = IF e = q THEN HowMany(e, B) - 1 ELSE HowMany(e, B)
  BY BagRemoves
<1> HIDE DEF A
<1>2. /\ \A e : HowMany(e, B) \in Nat /\ (e \in BagToSet(B) <=> HowMany(e, B) > 0)
      /\ \A e : HowMany(e, A) \in Nat /\ (e \in BagToSet(A) <=> HowMany(e, A) > 0)
      /\ HowMany(q, B) > 0
  BY <1>1, BagCounts DEF BagIn
<1>3. ASSUME q.fragment # f PROVE Copies(f, A) = Copies(f, B)
  BY <1>1, <1>2, <1>3 DEF Copies
<1>4. ASSUME q.fragment = f
      PROVE  IsFiniteSet(Copies(f, A)) /\ Cardinality(Copies(f, A)) = Cardinality(Copies(f, B)) - 1
  <2>1. Copies(f, A) = Copies(f, B) \ {old}
    <3>1. ASSUME NEW t \in Copies(f, B), t # old PROVE t \in Copies(f, A)
      <4>1. t = << t[1], t[2] >> /\ t[1] \in BagToSet(B) /\ t[2] \in Nat \ {0}
            /\ t[1].fragment = f /\ t[2] <= HowMany(t[1], B)
        BY DEF Copies
      <4>2. CASE t[1] = q
        <5>1. t[2] # HowMany(q, B)
          BY <3>1, <4>1, <4>2
        <5>2. t[2] <= HowMany(q, A) /\ q \in BagToSet(A)
          BY <1>1, <1>2, <4>1, <4>2, <5>1
        <5> QED BY <4>1, <4>2, <5>2 DEF Copies
      <4>3. CASE t[1] # q
        BY <1>1, <1>2, <4>1, <4>3 DEF Copies
      <4> QED BY <4>2, <4>3
    <3>2. Copies(f, A) \subseteq Copies(f, B)
      BY <1>1, <1>2 DEF Copies
    <3>3. old \notin Copies(f, A)
      BY <1>1, <1>2 DEF Copies
    <3> QED BY <3>1, <3>2, <3>3
  <2>2. old \in Copies(f, B)
    BY <1>2, <1>4 DEF Copies
  <2> HIDE DEF old
  <2>3. IsFiniteSet(Copies(f, A)) /\ Cardinality(Copies(f, A)) = Cardinality(Copies(f, B)) - 1
    BY <2>1, <2>2, FS_RemoveElement
  <2> QED BY <2>3
<1> QED BY <1>3, <1>4 DEF A

---------------------------------------------------------------------------
(* Fragments and routes.                                                   *)

LEMMA Sizes == {NumLayers, NumMixnodesPerLayer, Redundancy} \subseteq Nat \ {0}
  BY SizeAssumption

\* The data of a message, with its flag.
LEMMA DataType ==
  ASSUME NEW msg \in Messages
  PROVE  LET data == << MESSAGE_FLAG_REAL >> \o msg
         IN  /\ data \in Seq(Bytes) /\ data # << >>
             /\ Head(data) = MESSAGE_FLAG_REAL /\ Tail(data) = msg
<1> DEFINE flag == << MESSAGE_FLAG_REAL >>
           data == flag \o msg
<1>1. msg \in Seq(Bytes)
  <2>1. msg \in Seq(ToSet(msg)) /\ ToSet(msg) \subseteq Bytes
    BY MessagesAssumption DEF Bytes
  <2> HIDE DEF Bytes
  <2> QED BY <2>1
<1>2. flag \in Seq(Bytes) /\ Len(flag) = 1 /\ flag[1] = MESSAGE_FLAG_REAL
  BY DEF Bytes
<1> HIDE DEF flag
<1>3. /\ data \in Seq(Bytes) /\ Len(data) = 1 + Len(msg)
      /\ \A i \in 1 .. 1 + Len(msg) : data[i] = IF i <= 1 THEN flag[i] ELSE msg[i - 1]
  <2>1. /\ data \in Seq(Bytes) /\ Len(data) = Len(flag) + Len(msg)
        /\ \A i \in 1 .. Len(flag) + Len(msg) : data[i] = IF i <= Len(flag) THEN flag[i] ELSE msg[i - Len(flag)]
    BY <1>1, <1>2, ConcatProperties
  <2> HIDE DEF data
  <2> QED BY <1>2, <2>1
<1>4. Len(msg) \in Nat
  BY <1>1, LenProperties
<1> HIDE DEF data
<1>5. data # << >>
  BY <1>3, <1>4, EmptySeq
<1>6. Head(data) = data[1]
  BY <1>3, <1>5
<1>7. /\ Tail(data) \in Seq(Bytes) /\ Len(Tail(data)) = Len(data) - 1
      /\ \A i \in 1 .. Len(Tail(data)) : Tail(data)[i] = data[i + 1]
  BY <1>3, <1>5, HeadTailProperties
<1>8. Len(Tail(data)) = Len(msg) /\ \A i \in 1 .. Len(Tail(data)) : Tail(data)[i] = msg[i]
  BY <1>3, <1>4, <1>7
<1>9. Tail(data) = msg
  BY <1>1, <1>7, <1>8, SeqEqual
<1> QED BY <1>2, <1>3, <1>4, <1>5, <1>6, <1>9 DEF data, flag

\* The fragments that a message is cut into.
LEMMA FragmentsOf ==
  ASSUME NEW id \in Nat, NEW data \in Seq(Bytes), data # << >>
  PROVE  LET out == fragments_of(id, data)
             count == Len(chunks(data))
         IN  /\ count \in Nat \ {0} /\ out \in Seq(Fragments) /\ DOMAIN out = 1 .. count /\ Len(out) = count
             /\ \A i \in 1 .. count :
                  out[i] = [set_id |-> id, total_fragments |-> count, fragment_id |-> i - 1,
                            body |-> chunks(data)[i]]
<1> DEFINE out == fragments_of(id, data)
           count == Len(chunks(data))
<1>1. chunks(data) \in Seq(Seq(Bytes)) /\ count \in Nat \ {0} /\ DOMAIN chunks(data) = 1 .. count
  BY ChunksType
<1>2. \A i \in 1 .. count : chunks(data)[i] \in Seq(Bytes)
  BY <1>1, ElementOfSeq
<1> HIDE DEF count
<1>3. out = [i \in 1 .. count |->
               [set_id |-> id, total_fragments |-> count, fragment_id |-> i - 1, body |-> chunks(data)[i]]]
  BY <1>1 DEF fragments_of, count
<1>4. ASSUME NEW i \in 1 .. count
      PROVE  [set_id |-> id, total_fragments |-> count, fragment_id |-> i - 1, body |-> chunks(data)[i]] \in Fragments
  BY <1>1, <1>2 DEF Fragments
<1> HIDE DEF out
<1>5. out \in Seq(Fragments) /\ Len(out) = count
  BY <1>1, <1>3, <1>4
<1> QED BY <1>1, <1>3, <1>5 DEF out, count

LEMMA PartType ==
  ASSUME Types, NEW id \in DOMAIN published
  PROVE  /\ published[id].msg \in Messages /\ published[id].destination \in Mixnode /\ id \in Nat \ {0}
         /\ DataOf(id) \in Seq(Bytes) /\ DataOf(id) # << >>
         /\ Head(DataOf(id)) = MESSAGE_FLAG_REAL /\ Tail(DataOf(id)) = published[id].msg
         /\ Parts(id) \in Nat \ {0}
         /\ \A i \in 0 .. Parts(id) - 1 : Part(id, i) \in Fragments
<1>1. id \in Nat \ {0} /\ published[id] \in [msg : Messages, destination : Mixnode]
  <2>1. DOMAIN published = 1 .. Len(published) /\ Len(published) \in Nat
    BY LenProperties DEF Types
  <2>2. id \in 1 .. Len(published) /\ published \in Seq([msg : Messages, destination : Mixnode])
    BY <2>1 DEF Types
  <2>3. published[id] \in [msg : Messages, destination : Mixnode]
    BY <2>2, ElementOfSeq
  <2> QED BY <2>1, <2>2, <2>3
<1>2. published[id].msg \in Messages /\ published[id].destination \in Mixnode
  BY <1>1
<1>3. /\ DataOf(id) \in Seq(Bytes) /\ DataOf(id) # << >>
      /\ Head(DataOf(id)) = MESSAGE_FLAG_REAL /\ Tail(DataOf(id)) = published[id].msg
  BY <1>2, DataType DEF DataOf
<1>4. chunks(DataOf(id)) \in Seq(Seq(Bytes)) /\ Parts(id) \in Nat \ {0}
  BY <1>3, ChunksType DEF Parts
<1>5. ASSUME NEW i \in 0 .. Parts(id) - 1 PROVE Part(id, i) \in Fragments
  <2>1. i + 1 \in 1 .. Len(chunks(DataOf(id)))
    BY <1>4 DEF Parts
  <2>2. chunks(DataOf(id))[i + 1] \in Seq(Bytes)
    BY <1>4, <2>1, ElementOfSeq
  <2> QED BY <1>1, <1>4, <2>2 DEF Part, Fragments
<1> QED BY <1>1, <1>2, <1>3, <1>4, <1>5

\* Parts are told apart by their message and number, and a cover message is none.
LEMMA PartsDiffer ==
  /\ \A id1, id2, i, j : Part(id1, i) = Part(id2, j) => id1 = id2 /\ i = j
  /\ \A id, i : Part(id, i) = Cover => id = CoverSet
<1>1. ASSUME NEW id1, NEW id2, NEW i, NEW j, Part(id1, i) = Part(id2, j)
      PROVE  id1 = id2 /\ i = j
  <2>1. Part(id1, i).set_id = Part(id2, j).set_id /\ Part(id1, i).fragment_id = Part(id2, j).fragment_id
    BY <1>1
  <2> QED BY <2>1 DEF Part
<1>2. ASSUME NEW id, NEW i, Part(id, i) = Cover PROVE id = CoverSet
  <2>1. Part(id, i).set_id = Cover.set_id
    BY <1>2
  <2> QED BY <2>1 DEF Part, Cover
<1> QED BY <1>1, <1>2

\* A route has a node of each layer, and ends at the destination.
LEMMA RouteType ==
  ASSUME Types, NEW destination \in choose_mix_destination, NEW r \in routes(destination)
  PROVE  /\ r \in Seq(Mixnode) /\ Len(r) = NumLayers /\ r[Len(r)] = destination
         /\ destination \in Mixnode
<1>1. NumLayers \in Nat \ {0}
  BY Sizes
<1>2. r \in [1 .. NumLayers -> Mixnode] /\ r[NumLayers] = destination
  BY DEF routes
<1>3. r \in Seq(Mixnode) /\ Len(r) = NumLayers
  BY <1>1, <1>2
<1>4. destination \in Mixnode
  BY <1>1, <1>2
<1> QED BY <1>2, <1>3, <1>4

\* A cover message is one chunk.
LEMMA CoverChunks ==
  LET data == << MESSAGE_FLAG_DROP_COVER >>
  IN  chunks(data) = [k \in 1 .. 1 |-> data] /\ Len(chunks(data)) = 1 /\ chunks(data)[1] = data
<1> DEFINE data == << MESSAGE_FLAG_DROP_COVER >>
<1>1. data \in Seq(Bytes) /\ data # << >> /\ Len(data) = 1
  BY DEF Bytes
<1>2. (1 + MAX_PAYLOAD_SIZE - 1) \div MAX_PAYLOAD_SIZE = 1
  BY PacketAssumption
<1> HIDE DEF data
<1>3. chunks(data) = [i \in 1 .. 1 |->
     SubSeq(data, (i - 1) * MAX_PAYLOAD_SIZE + 1,
            IF i * MAX_PAYLOAD_SIZE < Len(data) THEN i * MAX_PAYLOAD_SIZE ELSE Len(data))]
  BY <1>1, <1>2 DEF chunks
<1>4. Len(chunks(data)) = 1
  BY <1>3
<1>5. chunks(data)[1] = SubSeq(data, End(0, 1) + 1, End(1, 1)) /\ End(1, 1) = 1
  BY <1>1, <1>4, ChunksType
<1>6. End(0, 1) = 0
  BY PacketAssumption DEF End
<1>7. chunks(data)[1] = data
  BY <1>1, <1>5, <1>6, SubSeqFull
<1>8. chunks(data) = [k \in 1 .. 1 |-> data]
  BY <1>3, <1>7
<1> QED BY <1>4, <1>7, <1>8 DEF data

\* A cover message is one fragment, which is sent to any last node.
LEMMA CoverType ==
  ASSUME Types, NEW out \in drop_cover_packets
  PROVE  out[1] \in Packets /\ OnRoute(out[1]) /\ out[1].fragment = Cover
<1> DEFINE data == << MESSAGE_FLAG_DROP_COVER >>
           fragments == fragments_of(CoverSet, data)
<1>1. data \in Seq(Bytes) /\ data # << >> /\ Len(data) = 1 /\ CoverSet \in Nat
  BY DEF Bytes, CoverSet
<1>2. Len(chunks(data)) = 1 /\ chunks(data)[1] = data
  BY CoverChunks
<1> HIDE DEF data
<1>3. DOMAIN fragments = 1 .. 1 /\ fragments[1] = Cover /\ Cover \in Fragments
  <2>1. DOMAIN fragments = 1 .. 1 /\ fragments \in Seq(Fragments)
        /\ fragments[1] = [set_id |-> CoverSet, total_fragments |-> 1, fragment_id |-> 1 - 1, body |-> data]
    BY <1>1, <1>2, FragmentsOf
  <2>2. fragments[1] = Cover
    BY <2>1 DEF Cover, data
  <2> QED BY <1>1, <2>1, <2>2 DEF Cover, Fragments, data
<1> HIDE DEF fragments
<1>4. PICK destination \in choose_mix_destination : out \in build_packets(fragments, destination)
  BY DEF drop_cover_packets, data, fragments
<1>5. PICK route \in [1 .. 1 -> routes(destination)] :
        out = [i \in 1 .. 1 |-> [fragment |-> fragments[i], route |-> route[i]]]
  BY <1>3, <1>4 DEF build_packets
<1>6. out[1] = [fragment |-> Cover, route |-> route[1]] /\ route[1] \in routes(destination)
  BY <1>3, <1>5
<1>7. route[1] \in Seq(Mixnode) /\ Len(route[1]) = NumLayers
  BY <1>6, RouteType
<1> QED BY <1>3, <1>6, <1>7, Sizes DEF OnRoute, Packets

\* What was published stays as it is while more is published.
LEMMA OldParts ==
  ASSUME Types, published' = published \/ \E e \in [msg : Messages, destination : Mixnode] : published' = Append(published, e)
  PROVE  /\ \A id \in DOMAIN published :
              /\ id \in DOMAIN published' /\ published'[id] = published[id]
              /\ Parts(id)' = Parts(id) /\ AsPublished(id)' = AsPublished(id)
              /\ \A i : Part(id, i)' = Part(id, i)
         /\ \A p : IsPart(p) => IsPart(p)'
<1>1. \A id \in DOMAIN published : id \in DOMAIN published' /\ published'[id] = published[id]
  <2>1. CASE published' = published
    BY <2>1
  <2>2. ASSUME NEW e \in [msg : Messages, destination : Mixnode], published' = Append(published, e)
        PROVE  \A id \in DOMAIN published : id \in DOMAIN published' /\ published'[id] = published[id]
    <3> DEFINE T == [msg : Messages, destination : Mixnode]
    <3>1. published \in Seq(T) /\ e \in T
      BY DEF Types
    <3> HIDE DEF T
    <3>2. DOMAIN published = 1 .. Len(published) /\ Len(published) \in Nat
      BY <3>1, LenProperties
    <3>3. /\ published' \in Seq(T) /\ Len(published') = Len(published) + 1
          /\ \A i \in 1 .. Len(published) : published'[i] = published[i]
      BY <2>2, <3>1, AppendProperties
    <3>4. DOMAIN published' = 1 .. Len(published')
      BY <3>3, LenProperties
    <3> QED BY <3>2, <3>3, <3>4
  <2> QED BY <2>1, <2>2
<1>2. ASSUME NEW id \in DOMAIN published
      PROVE  /\ Parts(id)' = Parts(id) /\ AsPublished(id)' = AsPublished(id)
             /\ \A i : Part(id, i)' = Part(id, i)
  <2>1. DataOf(id)' = DataOf(id)
    BY <1>1 DEF DataOf
  <2>2. Parts(id)' = Parts(id)
    BY <2>1 DEF Parts, chunks
  <2>3. \A i : Part(id, i)' = Part(id, i)
    BY <2>1, <2>2 DEF Part, chunks
  <2> QED BY <1>1, <2>2, <2>3 DEF AsPublished
<1>3. ASSUME NEW p, IsPart(p) PROVE IsPart(p)'
  <2>1. PICK id \in DOMAIN published : \E i \in 0 .. Parts(id) - 1 :
          p.fragment = Part(id, i) /\ p.route[Len(p.route)] = published[id].destination
    BY <1>3 DEF IsPart
  <2>2. PICK i \in 0 .. Parts(id) - 1 :
          p.fragment = Part(id, i) /\ p.route[Len(p.route)] = published[id].destination
    BY <2>1
  <2>3. id \in DOMAIN published' /\ i \in 0 .. Parts(id)' - 1
        /\ p.fragment = Part(id, i)' /\ p.route[Len(p.route)] = published'[id].destination
    BY <1>1, <1>2, <2>2
  <2> QED BY <2>3 DEF IsPart
<1> QED BY <1>1, <1>2, <1>3

---------------------------------------------------------------------------
(* A fragment at its destination.                                          *)

KnownIn(sets, id) == IF id \in DOMAIN sets THEN DOMAIN sets[id] ELSE {}

\* A set is opened, gains a part, or is complete, put together and deleted.
LEMMA PartAdded ==
  ASSUME Types, NEW id \in DOMAIN published, NEW i \in 0 .. Parts(id) - 1, NEW sets,
         KnownIn(sets, id) \subseteq 0 .. Parts(id) - 1,
         \A k \in KnownIn(sets, id) : sets[id][k] = Part(id, k).body
  PROVE  LET r == add(sets, Part(id, i))
             now == KnownIn(sets, id) \cup {i}
         IN  /\ \A x \in DOMAIN sets \ {id} : r.sets[x] = sets[x]
             /\ now # 0 .. Parts(id) - 1 =>
                  /\ r.message = << >>
                  /\ DOMAIN r.sets = DOMAIN sets \cup {id}
                  /\ DOMAIN r.sets[id] = now
                  /\ \A k \in now : r.sets[id][k] = Part(id, k).body
             /\ now = 0 .. Parts(id) - 1 =>
                  /\ r.message = DataOf(id)
                  /\ DOMAIN r.sets = DOMAIN sets \ {id}
<1> DEFINE f == Part(id, i)
           all == 0 .. Parts(id) - 1
           known == IF id \in DOMAIN sets THEN sets[id] ELSE << >>
           bodies == put(known, i, f.body)
           now == KnownIn(sets, id) \cup {i}
           r == add(sets, f)
           complete == Cardinality(DOMAIN bodies) = Parts(id)
<1>1. Parts(id) \in Nat \ {0} /\ DataOf(id) \in Seq(Bytes) /\ DataOf(id) # << >>
  BY PartType
<1>2. f.set_id = id /\ f.total_fragments = Parts(id) /\ f.fragment_id = i
  BY DEF Part
<1>3. DOMAIN known = KnownIn(sets, id)
  BY DEF KnownIn
<1>4. r = [sets |-> IF complete THEN Restrict(sets, DOMAIN sets \ {id}) ELSE put(sets, id, bodies),
           message |-> IF complete THEN build_message(Parts(id), bodies) ELSE << >>]
  BY <1>2 DEF add
<1>5. \A k \in KnownIn(sets, id) : known[k] = Part(id, k).body
  BY DEF KnownIn
<1> HIDE DEF f, known, r
<1>6. DOMAIN bodies = now /\ \A k \in now : bodies[k] = Part(id, k).body
  BY <1>3, <1>5 DEF put, f
<1>7. complete <=> now = all
  <2>1. now \subseteq all
    OBVIOUS
  <2>2. IsFiniteSet(all) /\ Cardinality(all) = Parts(id)
    BY <1>1, FS_Interval
  <2> HIDE DEF now, all
  <2> QED BY <1>6, <2>1, <2>2, FS_Subset
<1> HIDE DEF bodies, complete, now
<1>8. /\ r.sets = IF complete THEN Restrict(sets, DOMAIN sets \ {id}) ELSE put(sets, id, bodies)
      /\ r.message = IF complete THEN build_message(Parts(id), bodies) ELSE << >>
  BY <1>4
<1>9. CASE complete
  <2>1. DOMAIN r.sets = DOMAIN sets \ {id} /\ \A x \in DOMAIN sets \ {id} : r.sets[x] = sets[x]
    BY <1>8, <1>9 DEF Restrict
  <2>2. r.message = DataOf(id)
    <3> DEFINE cs == chunks(DataOf(id))
    <3>1. cs \in Seq(Seq(Bytes)) /\ DOMAIN cs = 1 .. Len(cs) /\ Len(cs) = Parts(id)
      BY <1>1, ChunksType DEF Parts
    <3> HIDE DEF cs
    <3>2. \A k \in 1 .. Parts(id) : bodies[k - 1] = cs[k]
      <4> TAKE k \in 1 .. Parts(id)
      <4>1. k - 1 \in now /\ k - 1 + 1 = k
        BY <1>1, <1>7, <1>9
      <4>2. bodies[k - 1] = chunks(DataOf(id))[k - 1 + 1]
        BY <1>6, <4>1 DEF Part
      <4> QED BY <4>1, <4>2 DEF cs
    <3>3. [k \in 1 .. Parts(id) |-> bodies[k - 1]] = cs
      BY <3>1, <3>2
    <3>4. build_message(Parts(id), bodies) = FlattenSeq(cs)
      BY <3>3 DEF build_message
    <3> QED BY <1>1, <1>8, <1>9, <3>4, JoinChunks DEF cs
  <2> QED BY <1>7, <1>9, <2>1, <2>2 DEF r, f, now
<1>10. CASE ~ complete
  <2>1. /\ DOMAIN r.sets = DOMAIN sets \cup {id} /\ r.sets[id] = bodies
        /\ \A x \in DOMAIN sets \ {id} : r.sets[x] = sets[x]
    BY <1>8, <1>10 DEF put
  <2> QED BY <1>6, <1>7, <1>8, <1>10, <2>1 DEF r, f, now
<1> QED BY <1>9, <1>10

\* A cover message is complete at once, and thrown away.
LEMMA CoverAdded ==
  ASSUME NEW sets, CoverSet \notin DOMAIN sets
  PROVE  LET r == add(sets, Cover)
         IN  /\ DOMAIN r.sets = DOMAIN sets
             /\ \A x \in DOMAIN sets : r.sets[x] = sets[x]
             /\ r.message = << MESSAGE_FLAG_DROP_COVER >>
<1> DEFINE data == << MESSAGE_FLAG_DROP_COVER >>
           bodies == put(<< >>, 0, data)
           r == add(sets, Cover)
<1>1. /\ Cover.set_id = CoverSet /\ Cover.total_fragments = 1 /\ Cover.fragment_id = 0
      /\ Cover.body = data
  BY DEF Cover
<1>2. DOMAIN bodies = {0} /\ bodies[0] = data
  BY DEF put
<1>3. Cardinality(DOMAIN bodies) = 1
  BY <1>2, FS_Singleton
<1> HIDE DEF data, bodies
<1>4. r = [sets |-> Restrict(sets, DOMAIN sets \ {CoverSet}), message |-> build_message(1, bodies)]
  BY <1>1, <1>3 DEF add, bodies
<1>5. build_message(1, bodies) = data
  <2>1. chunks(data) = [k \in 1 .. 1 |-> bodies[k - 1]]
    BY <1>2, CoverChunks DEF data
  <2>2. FlattenSeq(chunks(data)) = data
    <3>1. data \in Seq(Bytes) /\ data # << >>
      BY DEF data, Bytes
    <3> QED BY <3>1, JoinChunks
  <2> QED BY <2>1, <2>2 DEF build_message
<1>6. r.sets = Restrict(sets, DOMAIN sets \ {CoverSet}) /\ r.message = data
  BY <1>4, <1>5
<1> QED BY <1>6 DEF Restrict, data

---------------------------------------------------------------------------
(* Each step delivers what was published.                                  *)

\* The packets of a new message.
LEMMA SentPackets ==
  ASSUME Types, NEW msg \in Messages, NEW id \in Nat, NEW destination \in choose_mix_destination,
         NEW out \in build_packets(fragments_of(id, << MESSAGE_FLAG_REAL >> \o msg), destination)
  PROVE  LET cs == chunks(<< MESSAGE_FLAG_REAL >> \o msg)
         IN  /\ Len(cs) \in Nat \ {0} /\ out \in Seq(Packets) /\ Len(out) = Len(cs)
             /\ destination \in Mixnode
             /\ \A i \in 1 .. Len(cs) :
                  /\ OnRoute(out[i]) /\ out[i].route[Len(out[i].route)] = destination
                  /\ out[i].fragment = [set_id |-> id, total_fragments |-> Len(cs), fragment_id |-> i - 1,
                                         body |-> cs[i]]
<1> DEFINE data == << MESSAGE_FLAG_REAL >> \o msg
           cs == chunks(data)
           count == Len(cs)
           fs == fragments_of(id, data)
<1>1. data \in Seq(Bytes) /\ data # << >>
  BY DataType
<1> HIDE DEF data
<1>2. /\ count \in Nat \ {0} /\ fs \in Seq(Fragments) /\ DOMAIN fs = 1 .. count /\ Len(fs) = count
      /\ \A i \in 1 .. count :
           fs[i] = [set_id |-> id, total_fragments |-> count, fragment_id |-> i - 1, body |-> cs[i]]
  BY <1>1, FragmentsOf
<1>3. \A i \in 1 .. count : fs[i] \in Fragments
  BY <1>2, ElementOfSeq
<1>4. out \in build_packets(fs, destination)
  BY DEF data
<1> HIDE DEF fs, count, cs
<1>5. PICK route \in [1 .. count -> routes(destination)] :
        out = [i \in 1 .. count |-> [fragment |-> fs[i], route |-> route[i]]]
  BY <1>2, <1>4 DEF build_packets
<1>6. ASSUME NEW i \in 1 .. count
      PROVE  /\ route[i] \in Seq(Mixnode) /\ Len(route[i]) = NumLayers
             /\ route[i][Len(route[i])] = destination
  BY <1>5, RouteType
<1>7. ASSUME NEW i \in 1 .. count
      PROVE  /\ out[i] \in Packets /\ OnRoute(out[i]) /\ out[i].route[Len(out[i].route)] = destination
             /\ out[i].fragment = fs[i]
  <2>1. out[i] = [fragment |-> fs[i], route |-> route[i]]
    BY <1>5
  <2> QED BY <1>3, <1>6, <2>1, Sizes DEF OnRoute, Packets
<1>8. out \in Seq(Packets) /\ Len(out) = count
  BY <1>2, <1>5, <1>7
<1>9. destination \in Mixnode
  <2>1. 1 \in 1 .. count /\ route[1] \in routes(destination)
    BY <1>2, <1>5
  <2> QED BY <2>1, RouteType
<1> QED BY <1>2, <1>7, <1>8, <1>9 DEF count, cs, data

\* Taking the first of a queue.
LEMMA HeadTail ==
  ASSUME NEW q \in Seq(Packets), q # << >>
  PROVE  /\ Head(q) \in Packets /\ Head(q) = q[1] /\ Len(q) \in Nat \ {0} /\ DOMAIN q = 1 .. Len(q)
         /\ Tail(q) \in Seq(Packets) /\ DOMAIN Tail(q) = 1 .. Len(q) - 1
         /\ \A i \in 1 .. Len(q) - 1 : Tail(q)[i] = q[i + 1]
         /\ Head(q) \in ToSet(q) /\ ToSet(Tail(q)) \subseteq ToSet(q)
<1>1. Len(q) \in Nat \ {0} /\ DOMAIN q = 1 .. Len(q)
  BY EmptySeq, LenProperties
<1>2. /\ Head(q) \in Packets /\ Tail(q) \in Seq(Packets) /\ Len(Tail(q)) = Len(q) - 1
      /\ \A i \in 1 .. Len(Tail(q)) : Tail(q)[i] = q[i + 1]
  BY HeadTailProperties
<1>3. DOMAIN Tail(q) = 1 .. Len(q) - 1 /\ Head(q) = q[1]
  BY <1>2, LenProperties
<1>4. Head(q) \in ToSet(q)
  BY <1>1, <1>3 DEF ToSet
<1>5. ToSet(Tail(q)) \subseteq ToSet(q)
  <2> SUFFICES ASSUME NEW i \in 1 .. Len(q) - 1 PROVE Tail(q)[i] \in ToSet(q)
    BY <1>3 DEF ToSet
  <2>1. i + 1 \in 1 .. Len(q) /\ Tail(q)[i] = q[i + 1]
    BY <1>1, <1>2
  <2> QED BY <1>1, <2>1 DEF ToSet
<1> QED BY <1>1, <1>2, <1>3, <1>4, <1>5

LEMMA TopologyType ==
  ASSUME NEW s \in Shuffles
  PROVE  layers(s) \in [1 .. NumLayers -> SUBSET Mixnode]
<1> DEFINE k == NumMixnodesPerLayer
<1>1. NumLayers \in Nat \ {0} /\ k \in Nat \ {0}
  BY Sizes
<1>2. s \in Seq(ToSet(s)) /\ Len(s) >= NumLayers * k /\ ToSet(s) \subseteq Mixnode
  BY SizeAssumption DEF Mixnode
<1> HIDE DEF k
<1>3. ASSUME NEW l \in 1 .. NumLayers
      PROVE  ToSet(SubSeq(s, (l - 1) * k + 1, l * k)) \subseteq ToSet(s)
  <2> DEFINE a == (l - 1) * k + 1
             b == l * k
             t == SubSeq(s, a, b)
  <2>1. a \in Nat \ {0} /\ b \in Nat /\ b <= NumLayers * k
    <3>1. (l - 1) * k \in Nat /\ l * k \in Nat /\ NumLayers * k \in Nat /\ l * k <= NumLayers * k
      BY <1>1
    <3> QED BY <3>1
  <2>2. Len(s) \in Nat
    BY <1>2, LenProperties
  <2>3. b <= Len(s)
    <3>1. NumLayers * k \in Nat
      BY <1>1
    <3> QED BY <1>2, <2>1, <2>2, <3>1
  <2> HIDE DEF a, b
  <2>4. \A i \in a .. b : s[i] \in ToSet(s)
    BY <1>2, <2>1, <2>2, <2>3, ElementOfSeq
  <2>5. t \in Seq(ToSet(s))
    BY <2>1, <2>4, SubSeqProperties
  <2> HIDE DEF t
  <2>6. ToSet(t) \subseteq ToSet(s)
    <3>1. \A i \in DOMAIN t : t[i] \in ToSet(s)
      BY <2>5, LenProperties, ElementOfSeq
    <3> HIDE DEF t
    <3> QED BY <3>1 DEF ToSet
  <2> QED BY <2>6 DEF t, a, b
<1> QED BY <1>2, <1>3 DEF layers, k

LEMMA InitFlow == MixnetInit => FlowInv
<1> SUFFICES ASSUME MixnetInit PROVE FlowInv
  OBVIOUS
<1>1. IsABag(EmptyBag) /\ BagToSet(EmptyBag) = {}
  BY DEF EmptyBag, SetToBag, IsABag, BagToSet
<1>2. Types
  BY <1>1, TopologyType DEF MixnetInit, Types
<1>3. PacketsOK /\ DeliveredOK
  BY <1>1 DEF MixnetInit, PacketsOK, DeliveredOK, ToSet
<1>4. SetsOK
  BY DEF MixnetInit, SetsOK
<1> QED BY <1>2, <1>3, <1>4 DEF FlowInv

\* What is not read of a step that publishes nothing new.
LEMMA SetsKept ==
  ASSUME Types, SetsOK, DeliveredOK, UNCHANGED << fragmentSets, delivered >>,
         published' = published \/ \E e \in [msg : Messages, destination : Mixnode] : published' = Append(published, e)
  PROVE  SetsOK' /\ DeliveredOK'
<1>1. \A id \in DOMAIN published :
              /\ id \in DOMAIN published' /\ published'[id] = published[id]
              /\ Parts(id)' = Parts(id) /\ AsPublished(id)' = AsPublished(id)
              /\ \A i : Part(id, i)' = Part(id, i)
  BY OldParts
<1>2. SetsOK'
  <2> SUFFICES ASSUME NEW n \in Mixnode, NEW id \in DOMAIN fragmentSets[n] PROVE SetOK(n, id)'
    BY DEF SetsOK
  <2>1. SetOK(n, id)
    BY DEF SetsOK
  <2> QED BY <1>1, <2>1 DEF SetOK
<1>3. DeliveredOK'
  BY <1>1 DEF DeliveredOK
<1> QED BY <1>2, <1>3

\* One queue after another.
LEMMA Joined ==
  ASSUME NEW q \in Seq(Packets), NEW out \in Seq(Packets)
  PROVE  LET c == q \o out
         IN  /\ c \in Seq(Packets) /\ DOMAIN c = 1 .. Len(q) + Len(out)
             /\ Len(q) \in Nat /\ Len(out) \in Nat /\ DOMAIN q = 1 .. Len(q) /\ DOMAIN out = 1 .. Len(out)
             /\ \A i \in 1 .. Len(q) : i \in DOMAIN c /\ c[i] = q[i]
             /\ \A i \in DOMAIN c : i > Len(q) => i - Len(q) \in 1 .. Len(out) /\ c[i] = out[i - Len(q)]
             /\ ToSet(c) \subseteq ToSet(q) \cup ToSet(out)
<1> DEFINE c == q \o out
<1>1. Len(q) \in Nat /\ Len(out) \in Nat /\ DOMAIN q = 1 .. Len(q) /\ DOMAIN out = 1 .. Len(out)
  BY LenProperties
<1>2. /\ c \in Seq(Packets) /\ Len(c) = Len(q) + Len(out)
      /\ \A i \in 1 .. Len(q) + Len(out) : c[i] = IF i <= Len(q) THEN q[i] ELSE out[i - Len(q)]
  BY ConcatProperties
<1>3. DOMAIN c = 1 .. Len(q) + Len(out)
  BY <1>2, LenProperties
<1> HIDE DEF c
<1>4. \A i \in 1 .. Len(q) : i \in DOMAIN c /\ c[i] = q[i]
  BY <1>1, <1>2, <1>3
<1>5. ASSUME NEW i \in DOMAIN c, i > Len(q) PROVE i - Len(q) \in 1 .. Len(out) /\ c[i] = out[i - Len(q)]
  BY <1>1, <1>2, <1>3, <1>5
<1>6. ToSet(c) \subseteq ToSet(q) \cup ToSet(out)
  <2> SUFFICES ASSUME NEW i \in DOMAIN c PROVE c[i] \in ToSet(q) \cup ToSet(out)
    BY DEF ToSet
  <2>1. CASE i <= Len(q)
    BY <1>1, <1>3, <1>4, <2>1 DEF ToSet
  <2>2. CASE i > Len(q)
    BY <1>1, <1>5, <2>2 DEF ToSet
  <2> QED BY <1>1, <1>3, <2>1, <2>2
<1> QED BY <1>1, <1>2, <1>3, <1>4, <1>5, <1>6 DEF c

\* A message that is published gets the next number, and its parts join the queue.
LEMMA SendFacts ==
  ASSUME FlowInv, NEW msg \in Messages, send_message(msg)
  PROVE  /\ UNCHANGED << topology, redundant_real_packet_queue, packets, fragmentSets, delivered >>
         /\ \E e \in [msg : Messages, destination : Mixnode] : published' = Append(published, e)
         /\ \E id \in Nat : \E out \in Seq(Packets) :
              /\ published' \in Seq([msg : Messages, destination : Mixnode])
              /\ id \in DOMAIN published' /\ id \notin DOMAIN published /\ id # CoverSet
              /\ DOMAIN published' = DOMAIN published \cup {id}
              /\ published'[id].destination \in Mixnode
              /\ Parts(id)' < ByteValues /\ Parts(id)' = Len(out)
              /\ real_packet_queue' = real_packet_queue \o out
              /\ \A i \in 1 .. Len(out) :
                   /\ OnRoute(out[i]) /\ out[i].route[Len(out[i].route)] = published'[id].destination
                   /\ out[i].fragment = Part(id, i - 1)'
<1> DEFINE data == << MESSAGE_FLAG_REAL >> \o msg
           T == [msg : Messages, destination : Mixnode]
<1>1. Types
  BY DEF FlowInv
<1>2. published \in Seq(T) /\ Len(published) \in Nat /\ DOMAIN published = 1 .. Len(published)
  BY <1>1, LenProperties DEF Types
<1>3. PICK id \in Nat : id = Len(published) + 1
  BY <1>2
<1>4. PICK destination \in choose_mix_destination :
        /\ fits(data)
        /\ \E out \in build_packets(fragments_of(id, data), destination) :
             /\ real_packet_queue' = real_packet_queue \o out
             /\ published' = Append(published, [msg |-> msg, destination |-> destination])
  BY <1>3 DEF send_message
<1>5. PICK out \in build_packets(fragments_of(id, data), destination) :
        /\ fits(data) /\ real_packet_queue' = real_packet_queue \o out
        /\ published' = Append(published, [msg |-> msg, destination |-> destination])
  BY <1>4
<1>6. UNCHANGED << topology, redundant_real_packet_queue, packets, fragmentSets, delivered >>
  BY DEF send_message
<1>7. /\ Len(chunks(data)) \in Nat \ {0} /\ out \in Seq(Packets) /\ Len(out) = Len(chunks(data))
      /\ destination \in Mixnode
      /\ \A i \in 1 .. Len(chunks(data)) :
           /\ OnRoute(out[i]) /\ out[i].route[Len(out[i].route)] = destination
           /\ out[i].fragment = [set_id |-> id, total_fragments |-> Len(chunks(data)), fragment_id |-> i - 1,
                                  body |-> chunks(data)[i]]
  BY <1>1, SentPackets
<1> DEFINE e == [msg |-> msg, destination |-> destination]
<1>8. e \in T
  BY <1>7
<1> HIDE DEF T, e, data
<1>9. /\ published' = Append(published, e) /\ published' \in Seq(T) /\ DOMAIN published' = 1 .. id
      /\ published'[id] = e /\ id \notin DOMAIN published /\ id # CoverSet
      /\ DOMAIN published' = DOMAIN published \cup {id}
  <2>1. published' = Append(published, e)
    BY <1>5 DEF e
  <2>2. published' \in Seq(T) /\ Len(published') = id /\ published'[id] = e
    BY <1>2, <1>3, <1>8, <2>1, AppendProperties
  <2> QED BY <1>2, <1>3, <2>1, <2>2, LenProperties DEF CoverSet
<1>10. DataOf(id)' = data /\ published'[id].destination = destination
  BY <1>9 DEF DataOf, data, e
<1>11. Parts(id)' = Len(chunks(data)) /\ Parts(id)' < ByteValues
       /\ \A i : Part(id, i)' = [set_id |-> id, total_fragments |-> Len(chunks(data)), fragment_id |-> i,
                                  body |-> chunks(data)[i + 1]]
  <2>1. Parts(id)' = Len(chunks(data))
    BY <1>10 DEF Parts, chunks
  <2>2. \A i : Part(id, i)' = [set_id |-> id, total_fragments |-> Len(chunks(data)), fragment_id |-> i,
                                 body |-> chunks(data)[i + 1]]
    BY <1>10, <2>1 DEF Part, chunks
  <2> QED BY <1>5, <2>1, <2>2 DEF fits
<1>12. ASSUME NEW i \in 1 .. Len(out)
       PROVE  /\ OnRoute(out[i]) /\ out[i].route[Len(out[i].route)] = published'[id].destination
              /\ out[i].fragment = Part(id, i - 1)'
  <2>1. i \in 1 .. Len(chunks(data)) /\ i - 1 + 1 = i
    BY <1>7
  <2> QED BY <1>7, <1>10, <1>11, <2>1
<1>13. id \in DOMAIN published' /\ \E x \in T : published' = Append(published, x)
  BY <1>8, <1>9
<1>14. published' \in Seq([msg : Messages, destination : Mixnode])
  BY <1>9 DEF T
<1>15. /\ id \in DOMAIN published' /\ id \notin DOMAIN published /\ id # CoverSet
       /\ DOMAIN published' = DOMAIN published \cup {id}
       /\ published'[id].destination \in Mixnode
       /\ Parts(id)' < ByteValues /\ Parts(id)' = Len(out)
       /\ real_packet_queue' = real_packet_queue \o out
       /\ \A i \in 1 .. Len(out) :
            /\ OnRoute(out[i]) /\ out[i].route[Len(out[i].route)] = published'[id].destination
            /\ out[i].fragment = Part(id, i - 1)'
  BY <1>5, <1>7, <1>9, <1>10, <1>11, <1>12, <1>13
<1>16. \E x \in [msg : Messages, destination : Mixnode] : published' = Append(published, x)
  BY <1>13 DEF T
<1>17. id \in Nat /\ out \in Seq(Packets)
  BY <1>7
<1> QED BY <1>6, <1>14, <1>15, <1>16, <1>17, Zenon

LEMMA SendFlow ==
  ASSUME FlowInv, NEW msg \in Messages, send_message(msg)
  PROVE  FlowInv'
<1>1. Types /\ PacketsOK /\ SetsOK /\ DeliveredOK
  BY DEF FlowInv
<1>2. /\ UNCHANGED << topology, redundant_real_packet_queue, packets, fragmentSets, delivered >>
      /\ \E e \in [msg : Messages, destination : Mixnode] : published' = Append(published, e)
  BY SendFacts
<1>3. PICK id \in Nat : \E out \in Seq(Packets) :
              /\ published' \in Seq([msg : Messages, destination : Mixnode])
              /\ id \in DOMAIN published'
              /\ DOMAIN published' = DOMAIN published \cup {id}
              /\ Parts(id)' < ByteValues /\ Parts(id)' = Len(out)
              /\ real_packet_queue' = real_packet_queue \o out
              /\ \A i \in 1 .. Len(out) :
                   /\ OnRoute(out[i]) /\ out[i].route[Len(out[i].route)] = published'[id].destination
                   /\ out[i].fragment = Part(id, i - 1)'
  BY SendFacts
<1>4. PICK out \in Seq(Packets) :
              /\ Parts(id)' < ByteValues /\ Parts(id)' = Len(out)
              /\ real_packet_queue' = real_packet_queue \o out
              /\ \A i \in 1 .. Len(out) :
                   /\ OnRoute(out[i]) /\ out[i].route[Len(out[i].route)] = published'[id].destination
                   /\ out[i].fragment = Part(id, i - 1)'
  BY <1>3
<1>5. /\ \A x \in DOMAIN published : Parts(x)' = Parts(x)
      /\ \A p : IsPart(p) => IsPart(p)'
  BY <1>1, <1>2, OldParts
<1>6. /\ real_packet_queue' \in Seq(Packets) /\ DOMAIN out = 1 .. Len(out) /\ Len(out) \in Nat
      /\ ToSet(real_packet_queue') \subseteq ToSet(real_packet_queue) \cup ToSet(out)
  BY <1>1, <1>4, Joined DEF Types
<1>7. Types'
  <2>1. \A x \in DOMAIN published' : Parts(x)' < ByteValues
    BY <1>1, <1>3, <1>5 DEF Types
  <2> QED BY <1>1, <1>2, <1>3, <1>6, <2>1 DEF Types
<1>8. ASSUME NEW p \in ToSet(out) PROVE OnRoute(p) /\ IsPart(p)'
  <2>1. PICK i \in 1 .. Len(out) : p = out[i]
    BY <1>6 DEF ToSet
  <2>2. i - 1 \in 0 .. Parts(id)' - 1 /\ p.fragment = Part(id, i - 1)'
    BY <1>4, <1>6, <2>1
  <2>3. OnRoute(p) /\ p.route[Len(p.route)] = published'[id].destination /\ id \in DOMAIN published'
    BY <1>3, <1>4, <2>1
  <2> QED BY <2>2, <2>3 DEF IsPart
<1>9. PacketsOK'
  <2>1. \A p \in ToSet(real_packet_queue') \cup ToSet(redundant_real_packet_queue') : OnRoute(p) /\ IsPart(p)'
    BY <1>1, <1>2, <1>5, <1>6, <1>8 DEF PacketsOK
  <2>2. \A p \in BagToSet(packets') : OnRoute(p) /\ (p.fragment = Cover \/ IsPart(p)')
    BY <1>1, <1>2, <1>5 DEF PacketsOK
  <2> QED BY <2>1, <2>2 DEF PacketsOK, OnRoute, Cover
<1>10. SetsOK' /\ DeliveredOK'
  BY <1>1, <1>2, SetsKept
<1> QED BY <1>7, <1>9, <1>10 DEF FlowInv

\* A step that only moves packets.
LEMMA PacketsMoved ==
  ASSUME FlowInv, UNCHANGED << published, fragmentSets, delivered >>,
         topology' \in [1 .. NumLayers -> SUBSET Mixnode],
         real_packet_queue' \in Seq(Packets), redundant_real_packet_queue' \in Seq(Packets), IsABag(packets'),
         \A p \in ToSet(real_packet_queue') \cup ToSet(redundant_real_packet_queue') : OnRoute(p) /\ IsPart(p),
         \A p \in BagToSet(packets') : OnRoute(p) /\ (p.fragment = Cover \/ IsPart(p))
  PROVE  FlowInv'
<1>1. Types /\ PacketsOK /\ SetsOK /\ DeliveredOK
  BY DEF FlowInv
<1>2. /\ \A id \in DOMAIN published : id \in DOMAIN published' /\ Parts(id)' = Parts(id)
      /\ \A p : IsPart(p) => IsPart(p)'
  BY <1>1, OldParts
<1>3. Types'
  BY <1>1, <1>2 DEF Types
<1>4. PacketsOK'
  BY <1>2 DEF PacketsOK, OnRoute, Cover
<1>5. SetsOK' /\ DeliveredOK'
  BY <1>1, SetsKept
<1> QED BY <1>3, <1>4, <1>5 DEF FlowInv

LEMMA TopologyFlow ==
  ASSUME FlowInv, set_topology
  PROVE  FlowInv'
<1>1. topology' \in [1 .. NumLayers -> SUBSET Mixnode]
  BY TopologyType DEF set_topology
<1> QED BY <1>1, PacketsMoved DEF FlowInv, Types, PacketsOK, set_topology

LEMMA RedundantFlow ==
  ASSUME FlowInv, EmitRedundant
  PROVE  FlowInv'
<1> DEFINE q == redundant_real_packet_queue
           p == Head(q)
<1>1. q \in Seq(Packets) /\ q # << >>
  BY DEF EmitRedundant, FlowInv, Types
<1>2. p \in ToSet(q) /\ Tail(q) \in Seq(Packets) /\ ToSet(Tail(q)) \subseteq ToSet(q)
  BY <1>1, HeadTail
<1>3. UNCHANGED << topology, real_packet_queue, fragmentSets, published, delivered >>
      /\ packets' = packets (+) copies(p, 1) /\ redundant_real_packet_queue' = Tail(q)
  BY DEF EmitRedundant
<1>4. IsABag(packets') /\ BagToSet(packets') = BagToSet(packets) \cup {p}
  BY <1>3, BagAdds DEF FlowInv, Types
<1>5. OnRoute(p) /\ IsPart(p)
  BY <1>2 DEF FlowInv, PacketsOK
<1> HIDE DEF p
<1> QED BY <1>2, <1>3, <1>4, <1>5, PacketsMoved DEF FlowInv, Types, PacketsOK

\* The copies that EmitReal schedules.
LEMMA Repeated ==
  ASSUME NEW p \in Packets
  PROVE  LET n == Redundancy - 1
         IN  /\ n \in Nat
             /\ [i \in 1 .. n |-> p] \in Seq(Packets) /\ ToSet([i \in 1 .. n |-> p]) \subseteq {p}
<1>1. Redundancy - 1 \in Nat
  BY Sizes
<1> QED BY <1>1 DEF ToSet

LEMMA RealFlow ==
  ASSUME FlowInv, NEW out \in drop_cover_packets, EmitReal(out[1])
  PROVE  FlowInv'
<1> DEFINE q == real_packet_queue
           p == Head(q)
           n == Redundancy - 1
           c == out[1]
<1>1. q \in Seq(Packets) /\ q # << >>
  BY DEF EmitReal, FlowInv, Types
<1>2. p \in Packets /\ p \in ToSet(q) /\ Tail(q) \in Seq(Packets) /\ ToSet(Tail(q)) \subseteq ToSet(q)
  BY <1>1, HeadTail
<1>3. /\ UNCHANGED << topology, fragmentSets, published, delivered >>
      /\ redundant_real_packet_queue' = [i \in 1 .. n |-> p] /\ real_packet_queue' = Tail(q)
      /\ packets' = packets (+) copies(p, n) (+) copies(c, 1)
  BY DEF EmitReal
<1>4. /\ n \in Nat
      /\ redundant_real_packet_queue' \in Seq(Packets) /\ ToSet(redundant_real_packet_queue') \subseteq {p}
  BY <1>2, <1>3, Repeated
<1>5. OnRoute(p) /\ IsPart(p) /\ OnRoute(c) /\ c.fragment = Cover
  BY <1>2, CoverType DEF FlowInv, PacketsOK
<1> HIDE DEF p, n, c
<1>6. IsABag(packets (+) copies(p, n)) /\ BagToSet(packets (+) copies(p, n)) \subseteq BagToSet(packets) \cup {p}
  BY <1>4, BagAdds DEF FlowInv, Types
<1>7. IsABag(packets') /\ BagToSet(packets') \subseteq BagToSet(packets) \cup {p, c}
  BY <1>3, <1>6, BagAdds
<1>8. topology' \in [1 .. NumLayers -> SUBSET Mixnode]
  BY <1>3 DEF FlowInv, Types
<1>9. \A x \in ToSet(real_packet_queue') \cup ToSet(redundant_real_packet_queue') : OnRoute(x) /\ IsPart(x)
  BY <1>2, <1>3, <1>4, <1>5 DEF FlowInv, PacketsOK
<1>10. \A x \in BagToSet(packets') : OnRoute(x) /\ (x.fragment = Cover \/ IsPart(x))
  BY <1>5, <1>7 DEF FlowInv, PacketsOK
<1> QED BY <1>2, <1>3, <1>4, <1>7, <1>8, <1>9, <1>10, PacketsMoved

LEMMA CoverFlow ==
  ASSUME FlowInv, NEW out \in drop_cover_packets, EmitCover(out[1])
  PROVE  FlowInv'
<1> DEFINE c == out[1]
<1>1. UNCHANGED << client_vars, fragmentSets, delivered >> /\ packets' = packets (+) copies(c, 1)
  BY DEF EmitCover
<1>2. OnRoute(c) /\ c.fragment = Cover
  BY CoverType DEF FlowInv
<1> HIDE DEF c
<1>3. IsABag(packets') /\ BagToSet(packets') = BagToSet(packets) \cup {c}
  BY <1>1, BagAdds DEF FlowInv, Types
<1> QED BY <1>1, <1>2, <1>3, PacketsMoved DEF FlowInv, Types, PacketsOK, client_vars

\* What a packet is when it has passed a node.
LEMMA Hop ==
  ASSUME NEW p, OnRoute(p), Len(p.route) > 1
  PROVE  LET q == [p EXCEPT !.route = Tail(@)]
         IN  q \in Packets /\ OnRoute(q) /\ q.fragment = p.fragment /\ (IsPart(p) => IsPart(q))
<1> DEFINE q == [p EXCEPT !.route = Tail(@)]
           r == p.route
<1>1. p \in Packets /\ r \in Seq(Mixnode) /\ Len(r) \in 1 .. NumLayers /\ NumLayers \in Nat
  BY Sizes DEF OnRoute, Packets
<1>2. q.fragment = p.fragment /\ q.route = Tail(r) /\ q \in [fragment : {p.fragment}, route : {Tail(r)}]
  BY <1>1 DEF Packets
<1> HIDE DEF q, r
<1>3. r # << >>
  BY <1>1
<1>4. /\ Tail(r) \in Seq(Mixnode) /\ Len(Tail(r)) = Len(r) - 1
      /\ \A i \in 1 .. Len(Tail(r)) : Tail(r)[i] = r[i + 1]
  BY <1>1, <1>3, HeadTailProperties
<1>5. Len(r) > 1
  BY DEF r
<1>6. Tail(r)[Len(Tail(r))] = r[Len(r)] /\ Len(Tail(r)) \in 1 .. NumLayers
  <2>1. Len(Tail(r)) \in 1 .. Len(Tail(r)) /\ Len(Tail(r)) + 1 = Len(r)
    BY <1>1, <1>4, <1>5
  <2> QED BY <1>1, <1>4, <1>5, <2>1
<1>7. q \in Packets /\ OnRoute(q)
  BY <1>1, <1>2, <1>4, <1>6 DEF OnRoute, Packets
<1>8. IsPart(p) => IsPart(q)
  BY <1>2, <1>6 DEF IsPart, r
<1> QED BY <1>2, <1>7, <1>8 DEF q

LEMMA ForwardFlow ==
  ASSUME FlowInv, NEW p \in BagToSet(packets), ForwardHop(p)
  PROVE  FlowInv'
<1> DEFINE q == [p EXCEPT !.route = Tail(@)]
           B == packets (-) copies(p, 1)
<1>1. UNCHANGED << client_vars, fragmentSets, delivered >> /\ packets' = B (+) copies(q, 1) /\ Len(p.route) > 1
  BY DEF ForwardHop
<1>2. OnRoute(p) /\ (p.fragment = Cover \/ IsPart(p))
  BY DEF FlowInv, PacketsOK
<1>3. OnRoute(q) /\ (q.fragment = Cover \/ IsPart(q))
  BY <1>1, <1>2, Hop
<1> HIDE DEF q
<1>4. IsABag(B) /\ BagToSet(B) \subseteq BagToSet(packets)
  BY BagRemoves DEF FlowInv, Types, BagIn
<1> HIDE DEF B
<1>5. IsABag(packets') /\ BagToSet(packets') \subseteq BagToSet(packets) \cup {q}
  BY <1>1, <1>4, BagAdds
<1> QED BY <1>1, <1>3, <1>5, PacketsMoved DEF FlowInv, Types, PacketsOK, client_vars

LEMMA LoseFlow ==
  ASSUME FlowInv, NEW p \in BagToSet(packets), Lose(p)
  PROVE  FlowInv'
<1>1. UNCHANGED << client_vars, fragmentSets, delivered >> /\ packets' = packets (-) copies(p, 1)
  BY DEF Lose
<1>2. IsABag(packets') /\ BagToSet(packets') \subseteq BagToSet(packets)
  BY <1>1, BagRemoves DEF FlowInv, Types, BagIn
<1> QED BY <1>1, <1>2, PacketsMoved DEF FlowInv, Types, PacketsOK, client_vars

(***************************************************************************)
(* What a packet does at its destination: a cover message nothing, a part  *)
(* joins those that are there, and the last one completes the message.     *)
(***************************************************************************)
LEMMA FinalFacts ==
  ASSUME FlowInv, NEW p \in BagToSet(packets), FinalHop(p)
  PROVE  LET at == p.route[1]
         IN  /\ at \in Mixnode
             /\ DOMAIN fragmentSets' = Mixnode /\ \A n \in Mixnode \ {at} : fragmentSets'[n] = fragmentSets[n]
             /\ p.fragment = Cover =>
                  /\ DOMAIN fragmentSets'[at] = DOMAIN fragmentSets[at]
                  /\ \A id \in DOMAIN fragmentSets[at] : fragmentSets'[at][id] = fragmentSets[at][id]
                  /\ delivered' = delivered
             /\ \A id \in DOMAIN published : \A i \in 0 .. Parts(id) - 1 : p.fragment = Part(id, i) =>
                  LET now == KnownIn(fragmentSets[at], id) \cup {i}
                  IN  /\ at = published[id].destination
                      /\ \A x \in DOMAIN fragmentSets[at] \ {id} : fragmentSets'[at][x] = fragmentSets[at][x]
                      /\ now # 0 .. Parts(id) - 1 =>
                           /\ DOMAIN fragmentSets'[at] = DOMAIN fragmentSets[at] \cup {id}
                           /\ DOMAIN fragmentSets'[at][id] = now
                           /\ \A k \in now : fragmentSets'[at][id][k] = Part(id, k).body
                           /\ delivered' = delivered
                      /\ now = 0 .. Parts(id) - 1 =>
                           /\ DOMAIN fragmentSets'[at] = DOMAIN fragmentSets[at] \ {id}
                           /\ delivered' = delivered (+) copies(AsPublished(id), 1)
<1> DEFINE at == p.route[1]
           r == add(fragmentSets[at], p.fragment)
           delivers == r.message # << >> /\ Head(r.message) = MESSAGE_FLAG_REAL
<1>1. Types /\ PacketsOK /\ SetsOK
  BY DEF FlowInv
<1>2. OnRoute(p) /\ (p.fragment = Cover \/ IsPart(p)) /\ Len(p.route) = 1
  BY <1>1 DEF PacketsOK, FinalHop
<1>3. at \in Mixnode
  BY <1>2 DEF OnRoute, Packets
<1>4. /\ fragmentSets' = [fragmentSets EXCEPT ![at] = r.sets]
      /\ delivered' = IF delivers
                        THEN delivered (+) copies([at |-> at, set_id |-> p.fragment.set_id,
                                                   msg |-> parse_msg_and_flag(r.message).msg], 1)
                        ELSE delivered
  BY DEF FinalHop
<1> HIDE DEF at, r
<1>5. /\ DOMAIN fragmentSets' = Mixnode /\ fragmentSets'[at] = r.sets
      /\ \A n \in Mixnode \ {at} : fragmentSets'[n] = fragmentSets[n]
  BY <1>1, <1>3, <1>4 DEF Types
<1>6. ASSUME p.fragment = Cover
      PROVE  /\ DOMAIN r.sets = DOMAIN fragmentSets[at]
             /\ \A id \in DOMAIN fragmentSets[at] : r.sets[id] = fragmentSets[at][id]
             /\ delivered' = delivered
  <2>1. CoverSet \notin DOMAIN fragmentSets[at]
    <3> SUFFICES ASSUME CoverSet \in DOMAIN fragmentSets[at] PROVE FALSE
      OBVIOUS
    <3>1. CoverSet \in DOMAIN published
      BY <1>1, <1>3 DEF SetsOK, SetOK
    <3> QED BY <1>1, <3>1, PartType DEF CoverSet
  <2>2. /\ DOMAIN r.sets = DOMAIN fragmentSets[at]
        /\ \A x \in DOMAIN fragmentSets[at] : r.sets[x] = fragmentSets[at][x]
        /\ r.message = << MESSAGE_FLAG_DROP_COVER >>
    BY <1>6, <2>1, CoverAdded DEF r
  <2>3. ~ delivers
    BY <2>2 DEF MESSAGE_FLAG_DROP_COVER, MESSAGE_FLAG_REAL
  <2> QED BY <1>4, <2>2, <2>3
<1>7. ASSUME NEW id \in DOMAIN published, NEW i \in 0 .. Parts(id) - 1, p.fragment = Part(id, i)
      PROVE  LET now == KnownIn(fragmentSets[at], id) \cup {i}
             IN  /\ at = published[id].destination
                 /\ \A x \in DOMAIN fragmentSets[at] \ {id} : r.sets[x] = fragmentSets[at][x]
                 /\ now # 0 .. Parts(id) - 1 =>
                      /\ DOMAIN r.sets = DOMAIN fragmentSets[at] \cup {id}
                      /\ DOMAIN r.sets[id] = now
                      /\ \A k \in now : r.sets[id][k] = Part(id, k).body
                      /\ delivered' = delivered
                 /\ now = 0 .. Parts(id) - 1 =>
                      /\ DOMAIN r.sets = DOMAIN fragmentSets[at] \ {id}
                      /\ delivered' = delivered (+) copies(AsPublished(id), 1)
  <2> DEFINE sets == fragmentSets[at]
             now == KnownIn(sets, id) \cup {i}
  <2>1. at = published[id].destination
    <3>1. id # CoverSet
      BY <1>1, PartType DEF CoverSet
    <3>2. IsPart(p)
      BY <1>2, <1>7, <3>1, PartsDiffer
    <3>3. PICK x \in DOMAIN published : \E k \in 0 .. Parts(x) - 1 :
            p.fragment = Part(x, k) /\ p.route[Len(p.route)] = published[x].destination
      BY <3>2 DEF IsPart
    <3>4. x = id
      BY <1>7, <3>3, PartsDiffer
    <3> QED BY <1>2, <3>3, <3>4 DEF at
  <2>2. /\ KnownIn(sets, id) \subseteq 0 .. Parts(id) - 1
        /\ \A k \in KnownIn(sets, id) : sets[id][k] = Part(id, k).body
    BY <1>1, <1>3 DEF SetsOK, SetOK, KnownIn
  <2> HIDE DEF sets
  <2>3. r = add(sets, Part(id, i))
    BY <1>7 DEF r, sets
  <2>4. /\ \A x \in DOMAIN sets \ {id} : r.sets[x] = sets[x]
        /\ now # 0 .. Parts(id) - 1 =>
             /\ r.message = << >>
             /\ DOMAIN r.sets = DOMAIN sets \cup {id}
             /\ DOMAIN r.sets[id] = now
             /\ \A k \in now : r.sets[id][k] = Part(id, k).body
        /\ now = 0 .. Parts(id) - 1 =>
             /\ r.message = DataOf(id)
             /\ DOMAIN r.sets = DOMAIN sets \ {id}
    BY <1>1, <2>2, <2>3, PartAdded
  <2> HIDE DEF now
  <2>5. ASSUME now # 0 .. Parts(id) - 1 PROVE delivered' = delivered
    BY <1>4, <2>4, <2>5
  <2>6. ASSUME now = 0 .. Parts(id) - 1 PROVE delivered' = delivered (+) copies(AsPublished(id), 1)
    <3>1. /\ r.message # << >> /\ Head(r.message) = MESSAGE_FLAG_REAL
          /\ parse_msg_and_flag(r.message).msg = published[id].msg
      BY <1>1, <2>4, <2>6, PartType DEF parse_msg_and_flag
    <3>2. p.fragment.set_id = id
      BY <1>7 DEF Part
    <3> QED BY <1>4, <2>1, <3>1, <3>2 DEF AsPublished
  <2> QED BY <2>1, <2>4, <2>5, <2>6 DEF now, sets
<1> QED BY <1>3, <1>5, <1>6, <1>7 DEF at

LEMMA FinalFlow ==
  ASSUME FlowInv, NEW p \in BagToSet(packets), FinalHop(p)
  PROVE  FlowInv'
<1>1. Types /\ PacketsOK /\ SetsOK /\ DeliveredOK
  BY DEF FlowInv
<1>2. UNCHANGED << client_vars, losses >> /\ packets' = packets (-) copies(p, 1)
  BY DEF FinalHop
<1>3. /\ published' = published
      /\ \A id \in DOMAIN published :
              /\ Parts(id)' = Parts(id) /\ AsPublished(id)' = AsPublished(id)
              /\ \A i : Part(id, i)' = Part(id, i)
      /\ \A x : IsPart(x) => IsPart(x)'
  BY <1>1, <1>2, OldParts DEF client_vars
<1>4. IsABag(packets') /\ BagToSet(packets') \subseteq BagToSet(packets)
  BY <1>1, <1>2, BagRemoves DEF Types, BagIn
<1>5. PacketsOK'
  BY <1>1, <1>2, <1>3, <1>4 DEF PacketsOK, OnRoute, Cover, client_vars
<1>6. DOMAIN fragmentSets' = Mixnode
  BY <1>1 DEF FinalHop, Types
<1>7. IsABag(delivered') /\ SetsOK' /\ DeliveredOK'
  <2>1. CASE p.fragment = Cover
    <3>1. /\ delivered' = delivered
          /\ \A n \in Mixnode : /\ DOMAIN fragmentSets'[n] = DOMAIN fragmentSets[n]
                               /\ \A id \in DOMAIN fragmentSets[n] : fragmentSets'[n][id] = fragmentSets[n][id]
      BY <2>1, FinalFacts
    <3>2. SetsOK'
      BY <1>1, <1>3, <3>1 DEF SetsOK, SetOK
    <3>3. DeliveredOK'
      BY <1>1, <1>3, <3>1 DEF DeliveredOK
    <3> QED BY <1>1, <3>1, <3>2, <3>3 DEF Types
  <2>2. CASE IsPart(p)
    <3>1. PICK id \in DOMAIN published : \E i \in 0 .. Parts(id) - 1 : p.fragment = Part(id, i)
      BY <2>2 DEF IsPart
    <3>2. PICK i \in 0 .. Parts(id) - 1 : p.fragment = Part(id, i)
      BY <3>1
    <3>3. PICK at \in Mixnode : at = p.route[1]
      BY FinalFacts
    <3> DEFINE now == KnownIn(fragmentSets[at], id) \cup {i}
    <3>4. /\ \A n \in Mixnode \ {at} : fragmentSets'[n] = fragmentSets[n]
          /\ at = published[id].destination
          /\ \A x \in DOMAIN fragmentSets[at] \ {id} : fragmentSets'[at][x] = fragmentSets[at][x]
          /\ now # 0 .. Parts(id) - 1 =>
               /\ DOMAIN fragmentSets'[at] = DOMAIN fragmentSets[at] \cup {id}
               /\ DOMAIN fragmentSets'[at][id] = now
               /\ \A k \in now : fragmentSets'[at][id][k] = Part(id, k).body
               /\ delivered' = delivered
          /\ now = 0 .. Parts(id) - 1 =>
               /\ DOMAIN fragmentSets'[at] = DOMAIN fragmentSets[at] \ {id}
               /\ delivered' = delivered (+) copies(AsPublished(id), 1)
      BY <3>2, <3>3, FinalFacts
    <3>5. now \subseteq 0 .. Parts(id) - 1
      BY <1>1 DEF SetsOK, SetOK, KnownIn
    <3> HIDE DEF now
    <3>6. ASSUME NEW n \in Mixnode, NEW x \in DOMAIN fragmentSets'[n], n # at \/ x # id
          PROVE  SetOK(n, x)'
      <4>1. x \in DOMAIN fragmentSets[n] /\ fragmentSets'[n][x] = fragmentSets[n][x]
        BY <3>4, <3>6
      <4>2. SetOK(n, x)
        BY <1>1, <4>1 DEF SetsOK
      <4> QED BY <1>3, <4>1, <4>2 DEF SetOK
    <3>7. ASSUME id \in DOMAIN fragmentSets'[at] PROVE SetOK(at, id)'
      <4>1. now # 0 .. Parts(id) - 1
        BY <3>4, <3>7
      <4>2. /\ DOMAIN fragmentSets'[at][id] = now /\ at = published'[id].destination
            /\ \A k \in now : fragmentSets'[at][id][k] = Part(id, k).body
        BY <1>3, <3>4, <4>1
      <4>3. \A k \in now : fragmentSets'[at][id][k] = Part(id, k)'.body
        BY <1>3, <4>2
      <4>4. Parts(id)' = Parts(id) /\ id \in DOMAIN published'
        BY <1>3
      <4> QED BY <3>5, <4>1, <4>2, <4>3, <4>4 DEF SetOK
    <3>8. SetsOK'
      BY <3>6, <3>7 DEF SetsOK
    <3>9. IsABag(delivered') /\ BagToSet(delivered') \subseteq BagToSet(delivered) \cup {AsPublished(id)}
      BY <1>1, <3>4, BagAdds DEF Types
    <3>10. DeliveredOK'
      BY <1>1, <1>3, <3>9 DEF DeliveredOK
    <3> QED BY <3>8, <3>9, <3>10
  <2> QED BY <1>1, <2>1, <2>2 DEF PacketsOK
<1>8. Types'
  BY <1>1, <1>2, <1>3, <1>4, <1>6, <1>7 DEF Types, client_vars
<1> QED BY <1>5, <1>7, <1>8 DEF FlowInv

LEMMA StutterFlow ==
  ASSUME FlowInv, UNCHANGED mixnet_vars
  PROVE  FlowInv'
BY PacketsMoved DEF FlowInv, Types, PacketsOK, mixnet_vars, client_vars

LEMMA FlowStep == FlowInv /\ [MixnetNext]_mixnet_vars => FlowInv'
<1> SUFFICES ASSUME FlowInv, [MixnetNext]_mixnet_vars PROVE FlowInv'
  OBVIOUS
<1>1. ASSUME NEW msg \in Messages, send_message(msg) PROVE FlowInv'
  BY <1>1, SendFlow
<1>2. CASE set_topology
  BY <1>2, TopologyFlow
<1>3. CASE emit
  <2>1. CASE EmitRedundant
    BY <2>1, RedundantFlow
  <2>2. ASSUME NEW out \in drop_cover_packets, EmitReal(out[1]) \/ EmitCover(out[1]) PROVE FlowInv'
    BY <2>2, RealFlow, CoverFlow
  <2> QED BY <1>3, <2>1, <2>2 DEF emit
<1>4. ASSUME NEW p \in BagToSet(packets), process_packet(p) \/ Lose(p) PROVE FlowInv'
  BY <1>4, ForwardFlow, FinalFlow, LoseFlow DEF process_packet
<1>5. CASE UNCHANGED mixnet_vars
  BY <1>5, StutterFlow
<1> QED BY <1>1, <1>2, <1>3, <1>4, <1>5 DEF MixnetNext

THEOREM FlowInvariant == MixnetSpec => []FlowInv
BY InitFlow, FlowStep, PTL DEF MixnetSpec

(***************************************************************************)
(* What a destination puts together is a message as it was published, and  *)
(* to it: in whatever order parts of several messages come, however often, *)
(* and whatever becomes of the topology.                                   *)
(***************************************************************************)
THEOREM DeliveredAsPublishedAlways == MixnetSpec => []DeliveredAsPublished
<1>1. FlowInv => DeliveredAsPublished
  <2> SUFFICES ASSUME FlowInv, NEW d \in BagToSet(delivered)
               PROVE  d.msg = published[d.set_id].msg /\ d.at = published[d.set_id].destination
    BY DEF DeliveredAsPublished
  <2>1. PICK id \in DOMAIN published : d = AsPublished(id)
    BY DEF FlowInv, DeliveredOK
  <2> QED BY <2>1 DEF AsPublished
<1> QED BY <1>1, FlowInvariant, PTL

\* Topologies have their layers, packets have a node before them, and no header overflows.
THEOREM MixnetTypeAlways == MixnetSpec => []MixnetTypeOK
<1>1. FlowInv => MixnetTypeOK
  <2> SUFFICES ASSUME FlowInv PROVE MixnetTypeOK
    OBVIOUS
  <2>1. Types /\ PacketsOK /\ SetsOK
    BY DEF FlowInv
  <2>2. ASSUME NEW p \in BagToSet(packets) \cup ToSet(real_packet_queue) \cup ToSet(redundant_real_packet_queue)
        PROVE  /\ Len(p.route) \in 1 .. NumLayers /\ ToSet(p.route) \subseteq Mixnode
               /\ p.fragment.fragment_id < p.fragment.total_fragments
               /\ p.fragment.total_fragments < ByteValues
    <3>1. OnRoute(p) /\ (p.fragment = Cover \/ IsPart(p))
      BY <2>1 DEF PacketsOK
    <3>2. Len(p.route) \in 1 .. NumLayers /\ ToSet(p.route) \subseteq Mixnode
      <4>1. p.route \in Seq(Mixnode)
        BY <3>1 DEF OnRoute, Packets
      <4>2. \A i \in DOMAIN p.route : p.route[i] \in Mixnode
        BY <4>1, LenProperties, ElementOfSeq
      <4> QED BY <3>1, <4>2 DEF OnRoute, ToSet
    <3>3. CASE p.fragment = Cover
      BY <3>2, <3>3, PacketAssumption DEF Cover
    <3>4. CASE IsPart(p)
      <4>1. PICK id \in DOMAIN published : \E i \in 0 .. Parts(id) - 1 : p.fragment = Part(id, i)
        BY <3>4 DEF IsPart
      <4>2. PICK i \in 0 .. Parts(id) - 1 : p.fragment = Part(id, i)
        BY <4>1
      <4>3. Parts(id) \in Nat \ {0} /\ Parts(id) < ByteValues
        BY <2>1, PartType DEF Types
      <4> QED BY <3>2, <4>2, <4>3 DEF Part
    <3> QED BY <3>1, <3>3, <3>4
  <2> QED BY <2>1, <2>2 DEF MixnetTypeOK, Types, SetsOK, SetOK
<1> QED BY <1>1, FlowInvariant, PTL

---------------------------------------------------------------------------
(* No part of a message is delivered more often than it is emitted.        *)

\* Where a fragment is in a queue.
Places(f, q) == { k \in DOMAIN q : q[k].fragment = f }

LEMMA PlacesCount ==
  ASSUME NEW q \in Seq(Packets), NEW f
  PROVE  IsFiniteSet(Places(f, q)) /\ Cardinality(Places(f, q)) \in Nat
<1>1. DOMAIN q = 1 .. Len(q) /\ Len(q) \in Nat
  BY LenProperties
<1>2. IsFiniteSet(1 .. Len(q)) /\ Places(f, q) \subseteq 1 .. Len(q)
  BY <1>1, FS_Interval DEF Places
<1> QED BY <1>2, FS_Subset, FS_CardinalityType

LEMMA PlacesTail ==
  ASSUME NEW q \in Seq(Packets), q # << >>, NEW f
  PROVE  /\ Cardinality(Places(f, Tail(q))) <= Cardinality(Places(f, q))
         /\ Head(q).fragment = f =>
              1 \in Places(f, q) /\ Cardinality(Places(f, Tail(q))) <= Cardinality(Places(f, q)) - 1
<1> DEFINE t == Places(f, Tail(q))
           old == Places(f, q)
           rest == old \ {1}
           g == [k \in t |-> k + 1]
<1>1. /\ Head(q) = q[1] /\ Len(q) \in Nat \ {0} /\ DOMAIN q = 1 .. Len(q)
      /\ DOMAIN Tail(q) = 1 .. Len(q) - 1 /\ \A i \in 1 .. Len(q) - 1 : Tail(q)[i] = q[i + 1]
  BY HeadTail
<1>2. \A k \in t : k \in 1 .. Len(q) - 1 /\ k + 1 \in rest
  BY <1>1 DEF Places
<1>3. g \in Injection(t, rest)
  BY <1>1, <1>2 DEF Injection, IsInjective
<1>4. IsFiniteSet(old) /\ Cardinality(old) \in Nat
  BY PlacesCount
<1>5. Head(q).fragment = f => 1 \in old
  BY <1>1 DEF Places
<1> HIDE DEF g, t, old
<1>6. IsFiniteSet(rest) /\ Cardinality(rest) = IF 1 \in old THEN Cardinality(old) - 1 ELSE Cardinality(old)
  BY <1>4, FS_RemoveElement
<1>7. Cardinality(t) <= Cardinality(rest) /\ IsFiniteSet(t)
  BY <1>3, <1>6, FS_Injection
<1>8. Cardinality(t) \in Nat
  BY <1>7, FS_CardinalityType
<1> QED BY <1>4, <1>5, <1>6, <1>7, <1>8 DEF t, old

LEMMA Counted ==
  ASSUME FlowInv, NEW id \in DOMAIN published, IsFiniteSet(CopiesOf(id))
  PROVE  /\ Cardinality(CopiesOf(id)) \in Nat /\ Cardinality(Queued(id)) \in Nat
         /\ Stored(id) \in {0, 1} /\ times_delivered(id) \in Nat
         /\ IsFiniteSet(Queued(id)) /\ Queued(id) = Places(First(id), redundant_real_packet_queue)
         /\ times_delivered(id) = HowMany(AsPublished(id), delivered)
         /\ id # CoverSet /\ First(id) # Cover
<1>1. Types
  BY DEF FlowInv
<1>2. Queued(id) = Places(First(id), redundant_real_packet_queue)
  BY DEF Queued, Places
<1>3. times_delivered(id) = HowMany(AsPublished(id), delivered)
  BY DEF times_delivered, AsPublished, HowMany
<1>4. id # CoverSet /\ First(id) # Cover
  <2>1. id # CoverSet
    BY <1>1, PartType DEF CoverSet
  <2> QED BY <2>1, PartsDiffer DEF First
<1>5. times_delivered(id) \in Nat
  BY <1>1, <1>3, BagCounts DEF Types
<1>6. IsFiniteSet(Queued(id)) /\ Cardinality(Queued(id)) \in Nat
  BY <1>1, <1>2, PlacesCount DEF Types
<1> QED BY <1>2, <1>3, <1>4, <1>5, <1>6, FS_CardinalityType DEF Stored

\* What a step that publishes nothing leaves alone.
LEMMA SameNames ==
  ASSUME FlowInv, UNCHANGED published, NEW id \in DOMAIN published
  PROVE  /\ First(id)' = First(id) /\ AsPublished(id)' = AsPublished(id)
         /\ UNCHANGED real_packet_queue => (Waits(id)' <=> Waits(id))
         /\ UNCHANGED redundant_real_packet_queue => Queued(id)' = Queued(id)
         /\ UNCHANGED fragmentSets => (Holds(id)' <=> Holds(id)) /\ Stored(id)' = Stored(id)
         /\ UNCHANGED delivered => times_delivered(id)' = times_delivered(id)
<1>1. /\ First(id)' = First(id) /\ AsPublished(id)' = AsPublished(id)
  BY OldParts DEF FlowInv, First
<1>2. UNCHANGED real_packet_queue => (Waits(id)' <=> Waits(id))
  BY <1>1 DEF Waits
<1>3. UNCHANGED redundant_real_packet_queue => Queued(id)' = Queued(id)
  BY <1>1 DEF Queued
<1>4. UNCHANGED fragmentSets => (Holds(id)' <=> Holds(id)) /\ Stored(id)' = Stored(id)
  BY DEF Stored, Holds
<1>5. UNCHANGED delivered => times_delivered(id)' = times_delivered(id)
  BY DEF times_delivered
<1> QED BY <1>1, <1>2, <1>3, <1>4, <1>5

LEMMA RedundantBalance ==
  ASSUME MixInv, EmitRedundant, NEW id \in DOMAIN published
  PROVE  Balance(id)'
<1> DEFINE q == redundant_real_packet_queue
           p == Head(q)
<1>1. FlowInv /\ Balance(id)
  BY DEF MixInv, CopiesOK, Balance
<1>2. UNCHANGED << real_packet_queue, fragmentSets, published, delivered >>
      /\ packets' = packets (+) copies(p, 1) /\ redundant_real_packet_queue' = Tail(q)
  BY DEF EmitRedundant
<1>3. q \in Seq(Packets) /\ q # << >> /\ Tail(q) \in Seq(Packets)
  <2>1. q \in Seq(Packets) /\ q # << >>
    BY <1>1 DEF FlowInv, Types, EmitRedundant
  <2> QED BY <2>1, HeadTail
<1>4. /\ First(id)' = First(id) /\ (Waits(id)' <=> Waits(id)) /\ (Holds(id)' <=> Holds(id))
      /\ Stored(id)' = Stored(id) /\ times_delivered(id)' = times_delivered(id)
  BY <1>1, <1>2, SameNames
<1>5. /\ Cardinality(CopiesOf(id)) \in Nat /\ Cardinality(Queued(id)) \in Nat
      /\ Stored(id) \in {0, 1} /\ times_delivered(id) \in Nat
      /\ IsFiniteSet(Queued(id)) /\ Queued(id) = Places(First(id), q)
  BY <1>1, Counted DEF Balance
<1> DEFINE f == First(id)
<1> HIDE DEF p
<1>6. CopiesOf(id) = Copies(f, packets) /\ CopiesOf(id)' = Copies(f, packets (+) copies(p, 1))
  BY <1>2, <1>4 DEF CopiesOf
<1>7. Queued(id)' = Places(f, Tail(q))
  BY <1>2, <1>4 DEF Queued, Places
<1> HIDE DEF f
<1>8. /\ IsFiniteSet(CopiesOf(id)')
      /\ p.fragment # f => CopiesOf(id)' = CopiesOf(id)
      /\ p.fragment = f => Cardinality(CopiesOf(id)') = Cardinality(CopiesOf(id)) + 1
  BY <1>1, <1>6, CopyAdded DEF FlowInv, Types, Balance
<1>9. /\ Cardinality(Queued(id)') <= Cardinality(Queued(id))
      /\ p.fragment = f => 1 \in Queued(id) /\ Cardinality(Queued(id)') <= Cardinality(Queued(id)) - 1
      /\ IsFiniteSet(Queued(id)') /\ Cardinality(Queued(id)') \in Nat
  BY <1>3, <1>5, <1>7, PlacesTail, PlacesCount DEF f, p
<1>10. Redundancy \in Nat
  BY Sizes
<1>11. Cardinality(CopiesOf(id)') + Cardinality(Queued(id)') + Stored(id)' + times_delivered(id)' <= 2 * (Redundancy - 1)
  <2>1. Cardinality(CopiesOf(id)) + Cardinality(Queued(id)) + Stored(id) + times_delivered(id) <= 2 * (Redundancy - 1)
    BY <1>1 DEF Balance
  <2>2. CASE p.fragment # f
    BY <1>4, <1>5, <1>8, <1>9, <1>10, <2>1, <2>2
  <2>3. CASE p.fragment = f
    BY <1>4, <1>5, <1>8, <1>9, <1>10, <2>1, <2>3
  <2> QED BY <2>2, <2>3
<1>12. ASSUME Waits(id)
       PROVE  CopiesOf(id)' = {} /\ Queued(id)' = {} /\ ~ Holds(id)' /\ times_delivered(id)' = 0
  <2>1. CopiesOf(id) = {} /\ Queued(id) = {} /\ ~ Holds(id) /\ times_delivered(id) = 0
    BY <1>1, <1>12 DEF Balance
  <2>2. p.fragment # f
    BY <1>9, <2>1
  <2>3. Cardinality(Queued(id)') <= 0
    BY <1>9, <2>1, FS_EmptySet
  <2>4. Queued(id)' = {}
    BY <1>9, <2>3, FS_EmptySet
  <2> QED BY <1>4, <1>8, <2>1, <2>2, <2>4
<1> QED BY <1>4, <1>8, <1>11, <1>12 DEF Balance

LEMMA RealBalance ==
  ASSUME MixInv, NEW out \in drop_cover_packets, EmitReal(out[1]), NEW id \in DOMAIN published
  PROVE  Balance(id)'
<1> DEFINE q == real_packet_queue
           p == Head(q)
           n == Redundancy - 1
           c == out[1]
           f == First(id)
           B == packets (+) copies(p, n)
<1>1. FlowInv /\ Balance(id) /\ NoneTwice
  BY DEF MixInv, CopiesOK, Balance
<1>2. /\ UNCHANGED << fragmentSets, published, delivered >>
      /\ redundant_real_packet_queue = << >>
      /\ redundant_real_packet_queue' = [i \in 1 .. n |-> p] /\ real_packet_queue' = Tail(q)
      /\ packets' = B (+) copies(c, 1)
  BY DEF EmitReal
<1>3. q \in Seq(Packets) /\ q # << >>
  BY <1>1 DEF FlowInv, Types, EmitReal
<1>4. /\ p = q[1] /\ p \in Packets /\ Len(q) \in Nat \ {0} /\ DOMAIN q = 1 .. Len(q)
      /\ DOMAIN Tail(q) = 1 .. Len(q) - 1 /\ \A i \in 1 .. Len(q) - 1 : Tail(q)[i] = q[i + 1]
  BY <1>3, HeadTail
<1>5. /\ First(id)' = f /\ (Holds(id)' <=> Holds(id))
      /\ Stored(id)' = Stored(id) /\ times_delivered(id)' = times_delivered(id)
  BY <1>1, <1>2, SameNames
<1>6. /\ Cardinality(CopiesOf(id)) \in Nat /\ Cardinality(Queued(id)) \in Nat
      /\ Stored(id) \in {0, 1} /\ times_delivered(id) \in Nat /\ f # Cover
  BY <1>1, Counted DEF Balance
<1>7. c.fragment = Cover
  BY <1>1, CoverType DEF FlowInv
<1>8. n \in Nat
  BY Sizes
<1> HIDE DEF p, n, c, q
<1>9. CopiesOf(id) = Copies(f, packets) /\ CopiesOf(id)' = Copies(f, B (+) copies(c, 1))
  BY <1>2, <1>5 DEF CopiesOf
<1>10. Queued(id)' = { i \in 1 .. n : p.fragment = f }
  BY <1>2, <1>5 DEF Queued
<1> HIDE DEF f
<1>11. IsABag(packets) /\ IsABag(B)
  BY <1>1, <1>8, BagAdds DEF FlowInv, Types
<1>12. /\ p.fragment # f => Copies(f, B) = CopiesOf(id)
       /\ CopiesOf(id) = {} => IsFiniteSet(Copies(f, B)) /\ Cardinality(Copies(f, B)) <= n
  BY <1>1, <1>8, <1>9, <1>11, CopiesAdded DEF Balance
<1> HIDE DEF B
<1>13. IsFiniteSet(Copies(f, B)) => CopiesOf(id)' = Copies(f, B)
  BY <1>6, <1>7, <1>9, <1>11, CopyAdded
<1>14. CASE p.fragment # f
  <2>1. CopiesOf(id)' = CopiesOf(id)
    BY <1>1, <1>12, <1>13, <1>14 DEF Balance
  <2>2. Queued(id)' = {} /\ Queued(id) = {}
    BY <1>2, <1>10, <1>14 DEF Queued
  <2>3. Waits(id)' => Waits(id)
    <3> SUFFICES ASSUME NEW k \in DOMAIN real_packet_queue', real_packet_queue'[k].fragment = First(id)'
                 PROVE  Waits(id)
      BY DEF Waits
    <3>1. k \in 1 .. Len(q) - 1 /\ real_packet_queue'[k] = q[k + 1]
      BY <1>2, <1>4
    <3>2. k + 1 \in DOMAIN q /\ q[k + 1].fragment = First(id)
      BY <1>4, <1>5, <3>1 DEF f
    <3> QED BY <3>2 DEF Waits, q
  <2> QED BY <1>1, <1>5, <2>1, <2>2, <2>3 DEF Balance
<1>15. CASE p.fragment = f
  <2>1. Waits(id)
    <3>1. 1 \in DOMAIN q /\ q[1].fragment = First(id)
      BY <1>4, <1>15 DEF f
    <3> QED BY <3>1 DEF Waits, q
  <2>2. CopiesOf(id) = {} /\ ~ Holds(id) /\ times_delivered(id) = 0
    BY <1>1, <2>1 DEF Balance
  <2>3. IsFiniteSet(CopiesOf(id)') /\ Cardinality(CopiesOf(id)') <= n
    BY <1>12, <1>13, <2>2
  <2>4. Queued(id)' = 1 .. n /\ Cardinality(1 .. n) = n
    BY <1>8, <1>10, <1>15, FS_Interval
  <2>5. ~ Waits(id)'
    <3> SUFFICES ASSUME NEW k \in DOMAIN real_packet_queue', real_packet_queue'[k].fragment = First(id)'
                 PROVE  FALSE
      BY DEF Waits
    <3>1. k \in 1 .. Len(q) - 1 /\ real_packet_queue'[k] = q[k + 1]
      BY <1>2, <1>4
    <3>2. k + 1 \in DOMAIN q /\ 1 \in DOMAIN q /\ q[k + 1].fragment = q[1].fragment
      BY <1>4, <1>5, <1>15, <3>1
    <3>3. k + 1 = 1
      BY <1>1, <3>2 DEF NoneTwice, q
    <3> QED BY <1>4, <3>1, <3>3
  <2>6. Stored(id)' = 0 /\ times_delivered(id)' = 0
    BY <1>5, <2>2 DEF Stored
  <2>7. Cardinality(CopiesOf(id)') \in Nat
    BY <2>3, FS_CardinalityType
  <2>8. Cardinality(CopiesOf(id)') + Cardinality(Queued(id)') + Stored(id)' + times_delivered(id)' <= 2 * n
    BY <1>8, <2>3, <2>4, <2>6, <2>7
  <2> QED BY <2>3, <2>5, <2>8 DEF Balance, n
<1> QED BY <1>14, <1>15

\* A step that moves or loses packets of a message, or none of it, keeps its balance.
LEMMA MovedBalance ==
  ASSUME FlowInv, NEW id \in DOMAIN published, Balance(id),
         UNCHANGED << real_packet_queue, redundant_real_packet_queue, fragmentSets, published, delivered >>,
         LET now == Copies(First(id), packets')
         IN  IsFiniteSet(now) /\ Cardinality(now) <= Cardinality(CopiesOf(id))
  PROVE  Balance(id)'
<1>1. /\ First(id)' = First(id) /\ (Waits(id)' <=> Waits(id)) /\ Queued(id)' = Queued(id)
      /\ (Holds(id)' <=> Holds(id)) /\ Stored(id)' = Stored(id) /\ times_delivered(id)' = times_delivered(id)
  BY SameNames
<1>2. /\ Cardinality(CopiesOf(id)) \in Nat /\ Cardinality(Queued(id)) \in Nat
      /\ Stored(id) \in {0, 1} /\ times_delivered(id) \in Nat /\ Redundancy \in Nat
  BY Counted, Sizes DEF Balance
<1>3. CopiesOf(id)' = Copies(First(id), packets')
  BY <1>1 DEF CopiesOf
<1>4. IsFiniteSet(CopiesOf(id)') /\ Cardinality(CopiesOf(id)') \in Nat
      /\ Cardinality(CopiesOf(id)') <= Cardinality(CopiesOf(id))
  BY <1>3, FS_CardinalityType
<1>5. CopiesOf(id) = {} => CopiesOf(id)' = {}
  BY <1>4, FS_EmptySet
<1>6. Cardinality(CopiesOf(id)') + Cardinality(Queued(id)) + Stored(id) + times_delivered(id)
        <= 2 * (Redundancy - 1)
  BY <1>2, <1>4 DEF Balance
<1> QED BY <1>1, <1>4, <1>5, <1>6 DEF Balance

LEMMA QuietBalance ==
  ASSUME MixInv, set_topology \/ UNCHANGED mixnet_vars, NEW id \in DOMAIN published
  PROVE  Balance(id)'
<1>1. FlowInv /\ Balance(id)
  BY DEF MixInv, CopiesOK, Balance
<1>2. UNCHANGED << real_packet_queue, redundant_real_packet_queue, packets, fragmentSets, published, delivered >>
  BY DEF set_topology, mixnet_vars, client_vars
<1>3. IsFiniteSet(CopiesOf(id)) /\ Cardinality(CopiesOf(id)) \in Nat
  BY <1>1, Counted DEF Balance
<1>4. Copies(First(id), packets') = CopiesOf(id)
  BY <1>2 DEF CopiesOf
<1> QED BY <1>1, <1>2, <1>3, <1>4, MovedBalance

LEMMA CoverBalance ==
  ASSUME MixInv, NEW out \in drop_cover_packets, EmitCover(out[1]), NEW id \in DOMAIN published
  PROVE  Balance(id)'
<1> DEFINE c == out[1]
<1>1. FlowInv /\ Balance(id)
  BY DEF MixInv, CopiesOK, Balance
<1>2. UNCHANGED << real_packet_queue, redundant_real_packet_queue, fragmentSets, published, delivered >>
      /\ packets' = packets (+) copies(c, 1)
  BY DEF EmitCover, client_vars
<1>3. c.fragment = Cover
  BY <1>1, CoverType DEF FlowInv
<1> HIDE DEF c
<1>4. First(id) # Cover /\ IsFiniteSet(CopiesOf(id)) /\ Cardinality(CopiesOf(id)) \in Nat
  BY <1>1, Counted DEF Balance
<1>5. Copies(First(id), packets') = CopiesOf(id)
  BY <1>1, <1>2, <1>3, <1>4, CopyAdded DEF CopiesOf, FlowInv, Types
<1> QED BY <1>1, <1>2, <1>4, <1>5, MovedBalance

LEMMA ForwardBalance ==
  ASSUME MixInv, NEW p \in BagToSet(packets), ForwardHop(p), NEW id \in DOMAIN published
  PROVE  Balance(id)'
<1> DEFINE q == [p EXCEPT !.route = Tail(@)]
           B == packets (-) copies(p, 1)
           f == First(id)
<1>1. FlowInv /\ Balance(id)
  BY DEF MixInv, CopiesOK, Balance
<1>2. /\ UNCHANGED << real_packet_queue, redundant_real_packet_queue, fragmentSets, published, delivered >>
      /\ packets' = B (+) copies(q, 1) /\ Len(p.route) > 1
  BY DEF ForwardHop, client_vars
<1>3. q.fragment = p.fragment
  BY <1>1, <1>2, Hop DEF FlowInv, PacketsOK
<1>4. IsABag(packets) /\ BagIn(p, packets)
  BY <1>1 DEF FlowInv, Types, BagIn
<1>5. IsFiniteSet(CopiesOf(id)) /\ Cardinality(CopiesOf(id)) \in Nat /\ CopiesOf(id) = Copies(f, packets)
  BY <1>1, Counted DEF Balance, CopiesOf
<1> HIDE DEF q, f
<1>6. /\ IsABag(B) /\ IsFiniteSet(Copies(f, B))
      /\ p.fragment # f => Copies(f, B) = CopiesOf(id)
      /\ p.fragment = f => Cardinality(Copies(f, B)) = Cardinality(CopiesOf(id)) - 1
  BY <1>4, <1>5, BagRemoves, CopyRemoved
<1> HIDE DEF B
<1>7. /\ IsFiniteSet(Copies(f, packets'))
      /\ q.fragment # f => Copies(f, packets') = Copies(f, B)
      /\ q.fragment = f => Cardinality(Copies(f, packets')) = Cardinality(Copies(f, B)) + 1
  BY <1>2, <1>6, CopyAdded
<1>8. Cardinality(Copies(f, packets')) <= Cardinality(CopiesOf(id))
  BY <1>3, <1>5, <1>6, <1>7
<1> QED BY <1>1, <1>2, <1>7, <1>8, MovedBalance DEF f

LEMMA LoseBalance ==
  ASSUME MixInv, NEW p \in BagToSet(packets), Lose(p), NEW id \in DOMAIN published
  PROVE  Balance(id)'
<1> DEFINE f == First(id)
<1>1. FlowInv /\ Balance(id)
  BY DEF MixInv, CopiesOK, Balance
<1>2. /\ UNCHANGED << real_packet_queue, redundant_real_packet_queue, fragmentSets, published, delivered >>
      /\ packets' = packets (-) copies(p, 1)
  BY DEF Lose, client_vars
<1>3. IsABag(packets) /\ BagIn(p, packets)
  BY <1>1 DEF FlowInv, Types, BagIn
<1>4. IsFiniteSet(CopiesOf(id)) /\ Cardinality(CopiesOf(id)) \in Nat /\ CopiesOf(id) = Copies(f, packets)
  BY <1>1, Counted DEF Balance, CopiesOf
<1> HIDE DEF f
<1>5. /\ IsFiniteSet(Copies(f, packets'))
      /\ p.fragment # f => Copies(f, packets') = CopiesOf(id)
      /\ p.fragment = f => Cardinality(Copies(f, packets')) = Cardinality(CopiesOf(id)) - 1
  BY <1>2, <1>3, <1>4, CopyRemoved
<1>6. Cardinality(Copies(f, packets')) <= Cardinality(CopiesOf(id))
  BY <1>4, <1>5
<1> QED BY <1>1, <1>2, <1>5, <1>6, MovedBalance DEF f

\* A packet at its destination: it is no longer on its way, but its part is now in the open set,
\* or the message was delivered once more and the set, with its parts, is gone.
LEMMA FinalBalance ==
  ASSUME MixInv, NEW p \in BagToSet(packets), FinalHop(p), NEW id \in DOMAIN published
  PROVE  Balance(id)'
<1> DEFINE f == First(id)
           n == published[id].destination
<1>1. FlowInv /\ Balance(id) /\ Types
  BY DEF MixInv, CopiesOK, Balance, FlowInv
<1>2. /\ UNCHANGED << real_packet_queue, redundant_real_packet_queue, published >>
      /\ packets' = packets (-) copies(p, 1)
  BY DEF FinalHop, client_vars
<1>3. /\ First(id)' = f /\ AsPublished(id)' = AsPublished(id)
      /\ (Waits(id)' <=> Waits(id)) /\ Queued(id)' = Queued(id)
      /\ UNCHANGED delivered => times_delivered(id)' = times_delivered(id)
  BY <1>1, <1>2, SameNames
<1>4. IsABag(packets) /\ BagIn(p, packets)
  BY <1>1 DEF Types, BagIn
<1>5. /\ IsFiniteSet(CopiesOf(id)) /\ CopiesOf(id) = Copies(f, packets)
      /\ Cardinality(CopiesOf(id)) \in Nat /\ Cardinality(Queued(id)) \in Nat
      /\ Stored(id) \in {0, 1} /\ times_delivered(id) \in Nat
      /\ times_delivered(id) = HowMany(AsPublished(id), delivered) /\ Redundancy \in Nat
      /\ f # Cover
  BY <1>1, Counted, Sizes DEF Balance, CopiesOf
<1>6. CopiesOf(id)' = Copies(f, packets')
  BY <1>3 DEF CopiesOf
<1>7. n \in Mixnode /\ Parts(id) \in Nat \ {0}
  BY <1>1, PartType
<1>8. Holds(id) <=> 0 \in KnownIn(fragmentSets[n], id)
  BY DEF Holds, KnownIn
<1>9. Holds(id)' <=> id \in DOMAIN fragmentSets'[n] /\ 0 \in DOMAIN fragmentSets'[n][id]
  BY <1>2 DEF Holds
<1> HIDE DEF f, n
<1>10. /\ IsFiniteSet(CopiesOf(id)')
       /\ p.fragment # f => CopiesOf(id)' = CopiesOf(id)
       /\ p.fragment = f => Cardinality(CopiesOf(id)') = Cardinality(CopiesOf(id)) - 1
  BY <1>2, <1>4, <1>5, <1>6, CopyRemoved
<1>11. Cardinality(CopiesOf(id)') \in Nat
  BY <1>10, FS_CardinalityType
<1>12. p.fragment = f => CopiesOf(id) # {}
  BY <1>4, <1>5, NoCopies DEF BagIn
<1>13. Cardinality(CopiesOf(id)) + Cardinality(Queued(id)) + Stored(id) + times_delivered(id)
         <= 2 * (Redundancy - 1)
  BY <1>1 DEF Balance
<1>14. PICK at \in Mixnode : at = p.route[1]
  BY <1>1, FinalFacts
<1>15. /\ \A m \in Mixnode \ {at} : fragmentSets'[m] = fragmentSets[m]
       /\ p.fragment = Cover =>
            /\ DOMAIN fragmentSets'[at] = DOMAIN fragmentSets[at]
            /\ \A x \in DOMAIN fragmentSets[at] : fragmentSets'[at][x] = fragmentSets[at][x]
            /\ delivered' = delivered
  BY <1>1, <1>14, FinalFacts
<1>16. ASSUME Holds(id)' <=> Holds(id), times_delivered(id)' = times_delivered(id), p.fragment # f
       PROVE  Balance(id)'
  <2>1. Stored(id)' = Stored(id)
    BY <1>16 DEF Stored
  <2> QED BY <1>1, <1>3, <1>10, <1>16, <2>1 DEF Balance
<1>17. CASE p.fragment = Cover
  <2>1. Holds(id)' <=> Holds(id)
    BY <1>7, <1>9, <1>15, <1>17 DEF Holds, n
  <2> QED BY <1>3, <1>5, <1>15, <1>16, <1>17, <2>1
<1>18. CASE IsPart(p)
  <2>1. PICK x \in DOMAIN published : \E k \in 0 .. Parts(x) - 1 : p.fragment = Part(x, k)
    BY <1>18 DEF IsPart
  <2>2. PICK k \in 0 .. Parts(x) - 1 : p.fragment = Part(x, k)
    BY <2>1
  <2> DEFINE new == KnownIn(fragmentSets[at], x) \cup {k}
  <2>3. /\ at = published[x].destination
        /\ \A y \in DOMAIN fragmentSets[at] \ {x} : fragmentSets'[at][y] = fragmentSets[at][y]
        /\ new # 0 .. Parts(x) - 1 =>
             /\ DOMAIN fragmentSets'[at] = DOMAIN fragmentSets[at] \cup {x}
             /\ DOMAIN fragmentSets'[at][x] = new
             /\ delivered' = delivered
        /\ new = 0 .. Parts(x) - 1 =>
             /\ DOMAIN fragmentSets'[at] = DOMAIN fragmentSets[at] \ {x}
             /\ delivered' = delivered (+) copies(AsPublished(x), 1)
    BY <1>1, <1>14, <2>2, FinalFacts
  <2>4. p.fragment = f <=> x = id /\ k = 0
    BY <2>2, PartsDiffer DEF f, First
  <2>5. times_delivered(id)' = HowMany(AsPublished(id), delivered')
    BY <1>3 DEF times_delivered, AsPublished, HowMany
  <2>6. delivered' = delivered (+) copies(AsPublished(x), 1) =>
          times_delivered(id)' = IF AsPublished(id) = AsPublished(x) THEN times_delivered(id) + 1
                                 ELSE times_delivered(id)
    BY <1>1, <1>5, <2>5, BagAdds DEF Types
  <2> HIDE DEF new
  <2>7. CASE x # id
    <3>1. Holds(id)' <=> Holds(id)
      BY <1>7, <1>9, <1>15, <2>3, <2>7 DEF Holds, n
    <3>2. AsPublished(id) # AsPublished(x)
      BY <2>7 DEF AsPublished
    <3>3. times_delivered(id)' = times_delivered(id)
      BY <1>3, <2>3, <2>6, <3>2
    <3> QED BY <1>16, <2>4, <2>7, <3>1, <3>3
  <2>8. CASE x = id
    <3>1. at = n /\ new = KnownIn(fragmentSets[n], id) \cup {k}
      BY <2>3, <2>8 DEF n, new
    <3>2. CASE new # 0 .. Parts(id) - 1
      <4>1. times_delivered(id)' = times_delivered(id)
        BY <1>3, <2>3, <2>8, <3>2
      <4>2. Holds(id)' <=> 0 \in new
        BY <1>9, <2>3, <2>8, <3>1, <3>2
      <4>3. CASE k = 0
        <5>1. ~ Waits(id)'
          BY <1>1, <1>3, <1>12, <2>4, <2>8, <4>3 DEF Balance
        <5>2. Stored(id)' \in {0, 1} /\ Stored(id)' <= Stored(id) + 1
          BY <1>5 DEF Stored
        <5>3. Cardinality(CopiesOf(id)') = Cardinality(CopiesOf(id)) - 1
          BY <1>10, <2>4, <2>8, <4>3
        <5>4. Cardinality(CopiesOf(id)') + Cardinality(Queued(id)') + Stored(id)' + times_delivered(id)'
                <= 2 * (Redundancy - 1)
          BY <1>3, <1>5, <1>11, <1>13, <4>1, <5>2, <5>3
        <5> QED BY <1>10, <5>1, <5>4 DEF Balance
      <4>4. CASE k # 0
        <5>1. Holds(id)' <=> Holds(id)
          BY <1>8, <3>1, <4>2, <4>4
        <5> QED BY <1>16, <2>4, <4>1, <4>4, <5>1
      <4> QED BY <4>3, <4>4
    <3>3. CASE new = 0 .. Parts(id) - 1
      <4>1. times_delivered(id)' = times_delivered(id) + 1
        BY <2>3, <2>6, <2>8, <3>3
      <4>2. ~ Holds(id)'
        BY <1>9, <2>3, <2>8, <3>1, <3>3
      <4>3. Stored(id)' = 0
        BY <4>2 DEF Stored
      <4>4. CASE k = 0
        <5>1. ~ Waits(id)'
          BY <1>1, <1>3, <1>12, <2>4, <2>8, <4>4 DEF Balance
        <5>2. Cardinality(CopiesOf(id)') = Cardinality(CopiesOf(id)) - 1
          BY <1>10, <2>4, <2>8, <4>4
        <5>3. Cardinality(CopiesOf(id)') + Cardinality(Queued(id)') + Stored(id)' + times_delivered(id)'
                <= 2 * (Redundancy - 1)
          BY <1>3, <1>5, <1>11, <1>13, <4>1, <4>3, <5>2
        <5> QED BY <1>10, <5>1, <5>3 DEF Balance
      <4>5. CASE k # 0
        <5>1. Holds(id)
          BY <1>7, <1>8, <3>1, <3>3, <4>5
        <5>2. Stored(id) = 1 /\ ~ Waits(id)'
          BY <1>1, <1>3, <5>1 DEF Stored, Balance
        <5>3. CopiesOf(id)' = CopiesOf(id)
          BY <1>10, <2>4, <4>5
        <5>4. Cardinality(CopiesOf(id)') + Cardinality(Queued(id)') + Stored(id)' + times_delivered(id)'
                <= 2 * (Redundancy - 1)
          BY <1>3, <1>5, <1>13, <4>1, <4>3, <5>2, <5>3
        <5> QED BY <1>10, <5>2, <5>4 DEF Balance
      <4> QED BY <4>4, <4>5
    <3> QED BY <2>8, <3>2, <3>3
  <2> QED BY <2>7, <2>8
<1>19. p.fragment = Cover \/ IsPart(p)
  BY <1>1 DEF FlowInv, PacketsOK
<1> QED BY <1>17, <1>18, <1>19

\* Of a message that is new nothing is anywhere yet; of the others nothing changes.
LEMMA SendBalance ==
  ASSUME MixInv, NEW msg \in Messages, send_message(msg)
  PROVE  (\A id \in DOMAIN published' : Balance(id)') /\ NoneTwice'
<1>1. FlowInv /\ Types /\ PacketsOK /\ SetsOK /\ DeliveredOK /\ CopiesOK /\ NoneTwice
  BY DEF MixInv, FlowInv
<1>2. /\ UNCHANGED << topology, redundant_real_packet_queue, packets, fragmentSets, delivered >>
      /\ \E e \in [msg : Messages, destination : Mixnode] : published' = Append(published, e)
  BY <1>1, SendFacts
<1>3. PICK id \in Nat : \E out \in Seq(Packets) :
              /\ id \in DOMAIN published' /\ id \notin DOMAIN published /\ id # CoverSet
              /\ DOMAIN published' = DOMAIN published \cup {id}
              /\ published'[id].destination \in Mixnode
              /\ real_packet_queue' = real_packet_queue \o out
              /\ \A i \in 1 .. Len(out) : out[i].fragment = Part(id, i - 1)'
  BY <1>1, SendFacts
<1>4. PICK out \in Seq(Packets) :
              /\ real_packet_queue' = real_packet_queue \o out
              /\ \A i \in 1 .. Len(out) : out[i].fragment = Part(id, i - 1)'
  BY <1>3
<1> DEFINE q == real_packet_queue
           c == real_packet_queue'
<1>5. PICK m \in Nat : m = Len(q)
  BY <1>1, LenProperties DEF Types
<1>6. /\ DOMAIN c = 1 .. m + Len(out)
      /\ Len(out) \in Nat /\ DOMAIN q = 1 .. m
      /\ \A i \in 1 .. m : c[i] = q[i]
      /\ \A i \in DOMAIN c : i > m => i - m \in 1 .. Len(out) /\ c[i] = out[i - m]
  <2>1. PICK t \in Seq(Packets) : t = q
    BY <1>1 DEF Types
  <2>2. PICK u \in Seq(Packets) : u = c /\ u = t \o out
    BY <1>4, <2>1, Joined
  <2>3. /\ DOMAIN u = 1 .. Len(t) + Len(out)
        /\ Len(out) \in Nat /\ DOMAIN t = 1 .. Len(t)
        /\ \A i \in 1 .. Len(t) : u[i] = t[i]
        /\ \A i \in DOMAIN u : i > Len(t) => i - Len(t) \in 1 .. Len(out) /\ u[i] = out[i - Len(t)]
    BY <2>2, Joined
  <2> QED BY <1>5, <2>1, <2>2, <2>3
<1>7. \A x \in DOMAIN published : AsPublished(x)' = AsPublished(x) /\ \A i : Part(x, i)' = Part(x, i)
  BY <1>1, <1>2, OldParts
<1>8. \A p : IsPart(p) => p.fragment.set_id \in DOMAIN published
  BY DEF IsPart, Part
<1>9. \A i \in DOMAIN c : IF i <= m THEN c[i] = q[i] /\ IsPart(q[i])
                          ELSE c[i].fragment = Part(id, i - m - 1)'
  <2>1. \A i \in DOMAIN q : IsPart(q[i])
    BY <1>1 DEF PacketsOK, ToSet
  <2>2. ASSUME NEW i \in DOMAIN c, i > m PROVE c[i].fragment = Part(id, i - m - 1)'
    <3>1. i - m \in 1 .. Len(out) /\ c[i] = out[i - m]
      BY <1>6, <2>2
    <3> QED BY <1>4, <3>1, Zenon
  <2>3. ASSUME NEW i \in DOMAIN c, i <= m PROVE c[i] = q[i] /\ IsPart(q[i])
    BY <1>6, <2>1, <2>3
  <2> QED BY <1>6, <2>2, <2>3
<1>10. \A j : Part(id, j)'.set_id = id /\ Part(id, j)'.fragment_id = j
  BY DEF Part
<1>11. ASSUME NEW x \in DOMAIN published PROVE Balance(x)'
  <2>1. First(x)' = First(x) /\ AsPublished(x)' = AsPublished(x)
    BY <1>7 DEF First
  <2>2. Balance(x)
    BY <1>1 DEF CopiesOK, Balance
  <2>3. /\ CopiesOf(x)' = CopiesOf(x) /\ Queued(x)' = Queued(x)
        /\ (Holds(x)' <=> Holds(x)) /\ Stored(x)' = Stored(x)
        /\ times_delivered(x)' = times_delivered(x)
    <3>1. published'[x].destination = published[x].destination
      BY <2>1 DEF AsPublished
    <3>2. Holds(x)' <=> Holds(x)
      BY <1>2, <3>1 DEF Holds
    <3>3. times_delivered(x)' = times_delivered(x)
      BY <1>2, <2>1 DEF times_delivered, AsPublished
    <3> QED BY <1>2, <2>1, <3>2, <3>3 DEF CopiesOf, Queued, Stored
  <2>4. Waits(x)' => Waits(x)
    <3> SUFFICES ASSUME NEW k \in DOMAIN c, c[k].fragment = First(x) PROVE Waits(x)
      BY <2>1 DEF Waits
    <3>1. First(x).set_id = x /\ x # id
      BY <1>3 DEF First, Part
    <3>2. k <= m
      BY <1>9, <1>10, <3>1
    <3> QED BY <1>6, <1>9, <3>2 DEF Waits
  <2> QED BY <2>2, <2>3, <2>4 DEF Balance
<1>12. Balance(id)'
  <2>1. First(id)'.set_id = id
    BY <1>10 DEF First
  <2>2. CopiesOf(id)' = {}
    <3>1. ASSUME NEW p \in BagToSet(packets) PROVE p.fragment # First(id)'
      <4>1. p.fragment = Cover \/ IsPart(p)
        BY <1>1 DEF PacketsOK
      <4>2. p.fragment.set_id # id
        BY <1>3, <1>8, <4>1 DEF Cover
      <4> QED BY <2>1, <4>2
    <3>2. CopiesOf(id)' = Copies(First(id)', packets)
      BY <1>2 DEF CopiesOf
    <3> QED BY <1>1, <3>1, <3>2, NoCopies DEF Types
  <2>3. Queued(id)' = {}
    <3>1. \A k \in DOMAIN redundant_real_packet_queue :
            redundant_real_packet_queue[k].fragment # First(id)'
      BY <1>1, <1>3, <1>8, <2>1 DEF PacketsOK, ToSet
    <3> QED BY <1>2, <3>1 DEF Queued
  <2>4. ~ Holds(id)'
    <3> DEFINE n == published'[id].destination
    <3>1. n \in Mixnode
      BY <1>3
    <3>2. id \notin DOMAIN fragmentSets[n]
      BY <1>1, <1>3, <3>1 DEF SetsOK, SetOK
    <3> QED BY <1>2, <3>2 DEF Holds
  <2>5. times_delivered(id)' = 0
    <3>1. AsPublished(id)'.set_id = id
      BY DEF AsPublished
    <3>2. ~ BagIn(AsPublished(id)', delivered)
      <4>1. \A d \in BagToSet(delivered) : d.set_id \in DOMAIN published
        BY <1>1 DEF DeliveredOK, AsPublished
      <4> QED BY <1>3, <3>1, <4>1 DEF BagIn
    <3> QED BY <1>2, <3>2 DEF times_delivered, AsPublished
  <2>6. Stored(id)' = 0
    BY <2>4 DEF Stored
  <2>7. IsFiniteSet({}) /\ Cardinality({}) = 0 /\ Redundancy \in Nat \ {0}
    BY FS_EmptySet, Sizes
  <2>8. Cardinality(CopiesOf(id)') + Cardinality(Queued(id)') + Stored(id)' + times_delivered(id)'
          <= 2 * (Redundancy - 1)
    BY <2>2, <2>3, <2>5, <2>6, <2>7
  <2> QED BY <2>2, <2>3, <2>4, <2>5, <2>7, <2>8 DEF Balance
<1>13. NoneTwice'
  <2> SUFFICES ASSUME NEW k \in DOMAIN c, NEW l \in DOMAIN c, c[k].fragment = c[l].fragment
               PROVE  k = l
    BY DEF NoneTwice
  <2>1. k \in Nat /\ l \in Nat
    BY <1>6
  <2>2. ASSUME NEW a \in DOMAIN c, NEW b \in DOMAIN c, a <= m, b > m PROVE c[a].fragment # c[b].fragment
    <3>1. c[a].fragment.set_id \in DOMAIN published
      BY <1>8, <1>9, <2>2
    <3>2. c[b].fragment = Part(id, b - m - 1)'
      BY <1>6, <1>9, <2>2
    <3>3. c[b].fragment.set_id = id
      BY <1>10, <3>2, Zenon
    <3> QED BY <1>3, <3>1, <3>3
  <2>3. CASE k <= m /\ l <= m
    BY <1>1, <1>6, <2>3 DEF NoneTwice
  <2>4. CASE k > m /\ l > m
    <3>1. Part(id, k - m - 1)' = Part(id, l - m - 1)'
      BY <1>6, <1>9, <2>4
    <3>2. k - m - 1 = l - m - 1
      BY <1>10, <3>1
    <3> QED BY <1>6, <2>1, <3>2
  <2> QED BY <1>6, <2>1, <2>2, <2>3, <2>4
<1> QED BY <1>3, <1>11, <1>12, <1>13

LEMMA InitBalance == MixnetInit => CopiesOK /\ NoneTwice
<1> SUFFICES ASSUME MixnetInit PROVE CopiesOK /\ NoneTwice
  OBVIOUS
<1>1. DOMAIN published = {} /\ DOMAIN real_packet_queue = {}
  BY DEF MixnetInit
<1> QED BY <1>1 DEF CopiesOK, NoneTwice

LEMMA NoneTwiceStep ==
  ASSUME FlowInv, NoneTwice, real_packet_queue # << >>, real_packet_queue' = Tail(real_packet_queue)
  PROVE  NoneTwice'
<1> DEFINE q == real_packet_queue
<1>1. /\ Len(q) \in Nat \ {0} /\ DOMAIN q = 1 .. Len(q)
      /\ DOMAIN Tail(q) = 1 .. Len(q) - 1 /\ \A i \in 1 .. Len(q) - 1 : Tail(q)[i] = q[i + 1]
  BY HeadTail DEF FlowInv, Types
<1> SUFFICES ASSUME NEW k \in 1 .. Len(q) - 1, NEW l \in 1 .. Len(q) - 1,
                    Tail(q)[k].fragment = Tail(q)[l].fragment
             PROVE  k = l
  BY <1>1 DEF NoneTwice
<1>2. k + 1 \in DOMAIN q /\ l + 1 \in DOMAIN q /\ q[k + 1].fragment = q[l + 1].fragment
  BY <1>1
<1>3. k + 1 = l + 1
  BY <1>2 DEF NoneTwice
<1> QED BY <1>1, <1>3

LEMMA MixStep == MixInv /\ [MixnetNext]_mixnet_vars => MixInv'
<1> SUFFICES ASSUME MixInv, [MixnetNext]_mixnet_vars PROVE MixInv'
  OBVIOUS
<1>1. FlowInv /\ FlowInv' /\ NoneTwice
  BY FlowStep DEF MixInv
<1>2. ASSUME published' = published, \A id \in DOMAIN published : Balance(id)' PROVE CopiesOK'
  BY <1>2 DEF CopiesOK, Balance
<1>3. UNCHANGED real_packet_queue => NoneTwice'
  BY <1>1 DEF NoneTwice
<1>4. ASSUME NEW msg \in Messages, send_message(msg) PROVE CopiesOK' /\ NoneTwice'
  BY <1>4, SendBalance DEF CopiesOK, Balance
<1>5. ASSUME set_topology \/ UNCHANGED mixnet_vars PROVE CopiesOK' /\ NoneTwice'
  <2>1. UNCHANGED << published, real_packet_queue >>
    BY <1>5 DEF set_topology, mixnet_vars, client_vars
  <2> QED BY <1>1, <1>2, <1>3, <1>5, <2>1, QuietBalance
<1>6. ASSUME EmitRedundant PROVE CopiesOK' /\ NoneTwice'
  <2>1. UNCHANGED << published, real_packet_queue >>
    BY <1>6 DEF EmitRedundant
  <2> QED BY <1>1, <1>2, <1>3, <1>6, <2>1, RedundantBalance
<1>7. ASSUME NEW out \in drop_cover_packets, EmitReal(out[1]) PROVE CopiesOK' /\ NoneTwice'
  <2>1. /\ UNCHANGED published
        /\ real_packet_queue # << >> /\ real_packet_queue' = Tail(real_packet_queue)
    BY <1>7 DEF EmitReal
  <2> QED BY <1>1, <1>2, <1>7, <2>1, RealBalance, NoneTwiceStep
<1>8. ASSUME NEW out \in drop_cover_packets, EmitCover(out[1]) PROVE CopiesOK' /\ NoneTwice'
  <2>1. UNCHANGED << published, real_packet_queue >>
    BY <1>8 DEF EmitCover, client_vars
  <2> QED BY <1>1, <1>2, <1>3, <1>8, <2>1, CoverBalance
<1>9. ASSUME NEW p \in BagToSet(packets), process_packet(p) \/ Lose(p) PROVE CopiesOK' /\ NoneTwice'
  <2>1. UNCHANGED << published, real_packet_queue >>
    BY <1>9 DEF process_packet, ForwardHop, FinalHop, Lose, client_vars
  <2> QED BY <1>1, <1>2, <1>3, <1>9, <2>1, ForwardBalance, FinalBalance, LoseBalance DEF process_packet
<1>10. ASSUME emit PROVE CopiesOK' /\ NoneTwice'
  BY <1>6, <1>7, <1>8, <1>10 DEF emit
<1>11. CopiesOK' /\ NoneTwice'
  BY <1>4, <1>5, <1>9, <1>10 DEF MixnetNext
<1> QED BY <1>1, <1>11 DEF MixInv

THEOREM MixInvariant == MixnetSpec => []MixInv
<1>1. MixnetInit => MixInv
  BY InitFlow, InitBalance DEF MixInv
<1> QED BY <1>1, MixStep, PTL DEF MixnetSpec

(***************************************************************************)
(* A message is delivered at most as often as copies of each of its        *)
(* fragments are emitted, though a set is forgotten when it is complete    *)
(* and opened again by whatever copy comes later.                          *)
(***************************************************************************)
THEOREM DeliveredAtMostCopiesAlways == MixnetSpec => []DeliveredAtMostCopies
<1>1. MixInv => DeliveredAtMostCopies
  <2> SUFFICES ASSUME MixInv, NEW id \in DOMAIN published PROVE times_delivered(id) <= 2 * (Redundancy - 1)
    BY DEF DeliveredAtMostCopies
  <2>1. FlowInv /\ Balance(id)
    BY DEF MixInv, CopiesOK, Balance
  <2>2. /\ Cardinality(CopiesOf(id)) \in Nat /\ Cardinality(Queued(id)) \in Nat
        /\ Stored(id) \in {0, 1} /\ times_delivered(id) \in Nat /\ Redundancy \in Nat
    BY <2>1, Counted, Sizes DEF Balance
  <2> QED BY <2>1, <2>2 DEF Balance
<1> QED BY <1>1, MixInvariant, PTL
===========================================================================
