-------------------------- MODULE CarnotTheorems --------------------------
(***************************************************************************)
(* The theorems about Carnot: on every overlay that QuorumAssumption       *)
(* describes, and whatever messages are late, lost or handled twice, what  *)
(* nodes commit is on one chain, and stays committed.                      *)
(*                                                                         *)
(* First the inductive invariant, up to every view, in three parts:        *)
(*   Structure  types; QCs name blocks that exist; what a block carries;   *)
(*   Local      safe blocks form a chain down to genesis, and a vote or a  *)
(*              new view says something of where its sender is;            *)
(*   Voting     what a failed view may pass over can never be certified.   *)
(* Each action keeps each part (StructureStep, LocalStep, AnchorsStep,     *)
(* AnchorQuorumsStep, LowQcsStep).                                         *)
(*                                                                         *)
(* Then the chains.  A block that is committed has a certified child of    *)
(* the next view.  Every later block then carries a QC at least as recent  *)
(* (CertifiedSurvives), so that no chain of safe blocks passes it by       *)
(* (Settled).                                                              *)
(***************************************************************************)
EXTENDS Carnot, Lemmas

\* Those whose votes, new views and time-outs a leader counts, and how many of them it needs.
Electors == root_committee \cup child_of_root
threshold == leader_super_majority_threshold

LEMMA ElectorsAndThreshold ==
  /\ IsFiniteSet(Electors)
  /\ 3 * threshold > 2 * Cardinality(Electors)
  /\ \A v \in DOMAIN leader : childs[leader[v]] \subseteq Electors
  /\ \A n \in root_committee : childs[n] \subseteq Electors
  BY QuorumAssumption DEF Electors, threshold

---------------------------------------------------------------------------
(* Types.                                                                  *)

Ids == Nat \X Nat
StandardQcs == [block : Ids, view : Nat]
AggregateQcs == [highest_qc : StandardQcs, view : Nat]
Blocks == [view : Nat, qc : StandardQcs \cup AggregateQcs]

Votes == [type : {"vote"}, block : Ids, view : 0 .. MaxView, sender : Nodes, to : SUBSET Nodes]
NewViews == [type : {"new_view"}, view : 1 .. MaxView, high_qc : StandardQcs, sender : Nodes, to : SUBSET Nodes]
Proposals == [type : {"block"}, block : Blocks]
Timeouts == [type : {"timeout"}, view : TimeoutViews, high_qc : StandardQcs, sender : Nodes]
TimeoutQcs == [type : {"timeout_qc"}, view : TimeoutViews, high_qc : StandardQcs]

\* The types of the attributes of the nodes, and of what they send.
TypeOK ==
  /\ current_view \in [Nodes -> Nat]
  /\ highest_voted_view \in [Nodes -> Int]
  /\ local_high_qc \in [Nodes -> StandardQcs]
  /\ safe_blocks \in [Nodes -> SUBSET Blocks]
  /\ last_view_timeout_qc \in [Nodes -> Int]
  /\ msgs \subseteq Votes \cup NewViews \cup Proposals \cup Timeouts \cup TimeoutQcs

LEMMA QcTypes ==
  /\ \A qc \in StandardQcs : is_standard(qc) /\ high_qc(qc) = qc
  /\ \A qc \in AggregateQcs : ~ is_standard(qc) /\ high_qc(qc) = qc.highest_qc
  /\ \A qc \in StandardQcs \cup AggregateQcs : qc.view \in Nat /\ high_qc(qc) \in StandardQcs
<1>1. ASSUME NEW qc \in StandardQcs PROVE is_standard(qc) /\ high_qc(qc) = qc /\ qc.view \in Nat
  BY DEF StandardQcs, is_standard, high_qc
<1>2. ASSUME NEW qc \in AggregateQcs
      PROVE  ~ is_standard(qc) /\ high_qc(qc) = qc.highest_qc /\ qc.view \in Nat /\ qc.highest_qc \in StandardQcs
  <2>1. DOMAIN qc = {"highest_qc", "view"}
    BY DEF AggregateQcs
  <2> QED BY <2>1 DEF AggregateQcs, is_standard, high_qc
<1> QED BY <1>1, <1>2

LEMMA GenesisTypes ==
  /\ genesis_block \in Blocks /\ genesis_block.view = 0 /\ genesis_block.qc.view = 0
  /\ genesis_block.qc \in StandardQcs /\ id(genesis_block) = << 0, 0 >>
  /\ parent(genesis_block) = id(genesis_block)
  /\ genesis_block.qc = StandardQc(id(genesis_block), genesis_block.view)
<1>1. genesis_block.view = 0 /\ genesis_block.qc = StandardQc(<< 0, 0 >>, 0) /\ genesis_block.qc \in StandardQcs
  BY DEF genesis_block, StandardQc, StandardQcs, Ids
<1>2. genesis_block \in Blocks
  BY <1>1 DEF genesis_block, Blocks
<1>3. genesis_block.qc.view = 0 /\ genesis_block.qc.block = << 0, 0 >>
  BY <1>1 DEF StandardQc
<1> QED BY <1>1, <1>2, <1>3, QcTypes DEF id, parent

LEMMA BlockTypes ==
  ASSUME NEW b \in Blocks
  PROVE  /\ b.view \in Nat /\ b.qc \in StandardQcs \cup AggregateQcs /\ b.qc.view \in Nat
         /\ high_qc(b.qc) \in StandardQcs /\ high_qc(b.qc).view \in Nat
         /\ id(b) \in Ids /\ parent(b) \in Ids
<1>1. b.view \in Nat /\ b.qc \in StandardQcs \cup AggregateQcs
  BY DEF Blocks
<1>2. b.qc.view \in Nat /\ high_qc(b.qc) \in StandardQcs
  BY <1>1, QcTypes
<1> QED BY <1>1, <1>2 DEF id, parent, Ids, StandardQcs

LEMMA SentTypes ==
  ASSUME TypeOK
  PROVE  /\ sent("vote") \subseteq Votes /\ sent("new_view") \subseteq NewViews
         /\ sent("block") \subseteq Proposals /\ sent("timeout") \subseteq Timeouts
         /\ sent("timeout_qc") \subseteq TimeoutQcs
  BY DEF TypeOK, sent, Votes, NewViews, Proposals, Timeouts, TimeoutQcs

---------------------------------------------------------------------------
(* Blocks and QCs.                                                         *)

proposed == { m.block : m \in sent("block") }
known_blocks == {genesis_block} \cup proposed
Standard(b) == is_standard(b.qc)
QcView(b) == high_qc(b.qc).view

\* A QC names a block that has been proposed.
OfBlock(qc) == \E b \in known_blocks : qc = StandardQc(id(b), b.view)

\* However QCs travel, in nodes, messages and blocks, they are of such blocks.
QcsKnown ==
  /\ \A n \in Nodes : OfBlock(local_high_qc[n])
  /\ \A m \in sent("timeout") \cup sent("timeout_qc") \cup sent("new_view") : OfBlock(m.high_qc)
  /\ \A b \in known_blocks : OfBlock(high_qc(b.qc))

\* A view has one block; a standard block carries a QC of the view before it that a quorum voted for.
Certified(b) == b = genesis_block \/ Cardinality(voters(b)) >= threshold

BlocksOK ==
  /\ \A b \in proposed : b.view \in 1 .. MaxView /\ b.qc.view = b.view - 1
  /\ \A b, c \in known_blocks : b.view = c.view => b = c
  /\ \A b \in proposed : Standard(b) =>
       \E c \in known_blocks : b.qc = StandardQc(id(c), c.view) /\ Certified(c)

Structure == TypeOK /\ QcsKnown /\ BlocksOK

LEMMA KnownTypes ==
  ASSUME TypeOK
  PROVE  /\ proposed \subseteq Blocks /\ known_blocks \subseteq Blocks
         /\ genesis_block \in known_blocks
  BY SentTypes, GenesisTypes DEF proposed, known_blocks, Proposals

\* What is known of a block.
LEMMA KnownBlocks ==
  ASSUME Structure
  PROVE  /\ \A b \in known_blocks : b.view \in 0 .. MaxView
         /\ \A b \in known_blocks : b.view = 0 <=> b = genesis_block
         /\ \A b \in proposed : b # genesis_block
         /\ \A b, c \in known_blocks : id(b) = id(c) => b = c
         /\ \A b, c \in known_blocks : b.view = c.view => b = c
<1> USE DEF Structure
<1>1. \A b \in known_blocks : b.view \in 0 .. MaxView
  BY GenesisTypes, OverlayAssumption DEF BlocksOK, known_blocks
<1>2. \A b, c \in known_blocks : b.view = c.view => b = c
  BY DEF BlocksOK
<1>3. \A b, c \in known_blocks : id(b) = id(c) => b.view = c.view
  BY DEF id
<1>4. \A b \in proposed : b.view # 0
  BY DEF BlocksOK
<1> QED BY <1>1, <1>2, <1>3, <1>4, GenesisTypes, KnownTypes DEF known_blocks

\* What is known of the QC a block carries, and of the block it names.
LEMMA ParentKnown ==
  ASSUME Structure, NEW b \in known_blocks
  PROVE  \E c \in known_blocks : parent(b) = id(c) /\ QcView(b) = c.view
<1>1. PICK c \in known_blocks : high_qc(b.qc) = StandardQc(id(c), c.view)
  BY DEF Structure, QcsKnown, OfBlock
<1> QED BY <1>1 DEF parent, QcView, StandardQc

LEMMA StandardParent ==
  ASSUME Structure, NEW b \in proposed, Standard(b)
  PROVE  \E c \in known_blocks : /\ parent(b) = id(c) /\ QcView(b) = c.view
                                 /\ c.view = b.view - 1 /\ Certified(c)
<1>1. PICK c \in known_blocks : b.qc = StandardQc(id(c), c.view) /\ Certified(c)
  BY DEF Structure, BlocksOK
<1>2. high_qc(b.qc) = b.qc
  BY DEF Standard, high_qc
<1>3. b.qc.view = b.view - 1
  BY DEF Structure, BlocksOK
<1> QED BY <1>1, <1>2, <1>3 DEF parent, QcView, StandardQc

LEMMA QcViews ==
  ASSUME Structure, NEW qc, OfBlock(qc)
  PROVE  qc \in StandardQcs /\ qc.view \in 0 .. MaxView
<1>1. PICK b \in known_blocks : qc = StandardQc(id(b), b.view)
  BY DEF OfBlock
<1>2. b \in Blocks /\ b.view \in 0 .. MaxView
  BY KnownTypes, KnownBlocks DEF Structure
<1> QED BY <1>1, <1>2, BlockTypes DEF StandardQc, StandardQcs

LEMMA HighestQc ==
  ASSUME Structure, NEW qcs, qcs # {}, \A qc \in qcs : OfBlock(qc)
  PROVE  highest(qcs) \in qcs /\ \A qc \in qcs : qc.view <= highest(qcs).view
<1> DEFINE views == { qc.view : qc \in qcs }
<1>1. views \in SUBSET (0 .. MaxView)
  BY QcViews
<1>2. views # {}
  OBVIOUS
<1>3. PICK v \in views : \A w \in views : w <= v
  <2> HIDE DEF views
  <2> QED BY <1>1, <1>2, GreatestExists, OverlayAssumption
<1>4. \E qc \in qcs : \A other \in qcs : other.view <= qc.view
  BY <1>3
<1> QED BY <1>4 DEF highest

\* Only an aggregate may lower the high QC (update_high_qc).
LEMMA Raised ==
  ASSUME NEW old \in StandardQcs, NEW qc \in StandardQcs \cup AggregateQcs
  PROVE  /\ raised(old, qc) \in {old, high_qc(qc)}
         /\ raised(old, qc) \in StandardQcs
         /\ is_standard(qc) => raised(old, qc).view >= old.view
         /\ raised(old, qc).view >= high_qc(qc).view
         /\ ~ is_standard(qc) => raised(old, qc).view = high_qc(qc).view
<1>1. old.view \in Nat /\ high_qc(qc) \in StandardQcs /\ high_qc(qc).view \in Nat
  BY QcTypes
<1> QED BY <1>1 DEF raised

---------------------------------------------------------------------------
(* Safe blocks, votes and new views.                                       *)

\* The parents of these blocks lead to genesis.
WellFounded(blocks) ==
  \A B \in (SUBSET blocks) \ {{}} : \E b \in B : b = genesis_block \/ parent(b) \notin ids(B)

\* A node's safe blocks have been proposed, and so have their parents, which are safe, too.
SafeOK ==
  \A n \in Nodes :
    /\ genesis_block \in safe_blocks[n] /\ safe_blocks[n] \subseteq known_blocks
    /\ \A b \in safe_blocks[n] : parent(b) \in ids(safe_blocks[n])
    /\ WellFounded(safe_blocks[n])

\* Whoever m was sent to is not an elector's parent, or it is from an elector.
Routed(m) == \A n \in m.to : m.sender \in Electors \/ m.sender \in childs[n]

\* A node votes for blocks that are safe to it.
VotesOK ==
  \A m \in sent("vote") :
    \/ m.block = id(genesis_block)
    \/ Routed(m) /\ \E b \in safe_blocks[m.sender] : m.block = id(b) /\ m.view = b.view

\* A node that is past a view stays past it, and votes for no block of it any more.
Past(n, view) == highest_voted_view[n] >= view /\ current_view[n] >= view

NewViewsOK == \A m \in sent("new_view") : Past(m.sender, m.view) /\ Routed(m)

Local == SafeOK /\ VotesOK /\ NewViewsOK

---------------------------------------------------------------------------
(* Initially.                                                              *)

LEMMA InitSent ==
  ASSUME Init
  PROVE  /\ \A type \in {"new_view", "block", "timeout", "timeout_qc"} : sent(type) = {}
         /\ \A m \in sent("vote") : m.block = id(genesis_block)
         /\ proposed = {} /\ known_blocks = {genesis_block}
<1>1. \A m \in msgs : m.type = "vote" /\ m.block = id(genesis_block)
  BY DEF Init
<1> QED BY <1>1 DEF sent, proposed, known_blocks

LEMMA StructureInit ==
  ASSUME Init
  PROVE  Structure
<1>1. TypeOK
  <2>1. msgs \subseteq Votes
    <3>1. leader[1] \in Nodes /\ 0 \in 0 .. MaxView
      BY OverlayAssumption
    <3> QED BY <3>1, GenesisTypes DEF Init, Votes, Ids
  <2> QED BY <2>1, GenesisTypes DEF Init, TypeOK, None
<1>2. QcsKnown
  <2>1. OfBlock(genesis_block.qc) /\ high_qc(genesis_block.qc) = genesis_block.qc
    BY InitSent, GenesisTypes, QcTypes DEF OfBlock
  <2> QED BY <2>1, InitSent DEF Init, QcsKnown
<1>3. BlocksOK
  BY InitSent DEF BlocksOK
<1> QED BY <1>1, <1>2, <1>3 DEF Structure

LEMMA LocalInit ==
  ASSUME Init
  PROVE  Local
<1>1. WellFounded({genesis_block})
  BY DEF WellFounded
<1>2. SafeOK
  BY <1>1, InitSent, GenesisTypes DEF Init, SafeOK, ids
<1>3. VotesOK /\ NewViewsOK
  BY InitSent DEF VotesOK, NewViewsOK
<1> QED BY <1>2, <1>3 DEF Local

---------------------------------------------------------------------------
(* Each action keeps the types.                                            *)

LEMMA Sends ==
  ASSUME NEW m, Send(m), NEW type
  PROVE  sent(type)' = IF m.type = type THEN sent(type) \cup {m} ELSE sent(type)
  BY DEF Send, sent

LEMMA TimeoutView ==
  ASSUME NEW view \in TimeoutViews
  PROVE  view \in Nat /\ view + 1 \in 1 .. MaxView
<1>1. view \in 1 .. MaxView - 1 /\ MaxView \in Nat
  BY OverlayAssumption
<1> QED BY <1>1

LEMMA UpwardsTypes ==
  ASSUME NEW n \in Nodes, NEW view \in 0 .. MaxView
  PROVE  upwards(n, view) \in SUBSET Nodes /\ leader[view + 1] \in Nodes
<1>1. leader[view + 1] \in Nodes
  <2>1. view + 1 \in 1 .. MaxView + 1
    BY OverlayAssumption
  <2> QED BY <2>1, OverlayAssumption
<1> QED BY <1>1 DEF upwards, parent_committee

LEMMA ViewAfter ==
  ASSUME NEW view \in Nat, NEW qc, qc.view \in Nat
  PROVE  view_after(view, qc) \in Nat /\ view_after(view, qc) >= view
  BY DEF view_after

LEMMA ForwardTypes ==
  ASSUME NEW to \in SUBSET Nodes
  PROVE  /\ \A m \in Votes :
              LET f == [m EXCEPT !.to = to]
              IN  f \in Votes /\ f.sender = m.sender /\ f.block = m.block /\ f.view = m.view /\ f.to = to
         /\ \A m \in NewViews :
              LET f == [m EXCEPT !.to = to]
              IN  f \in NewViews /\ f.sender = m.sender /\ f.high_qc = m.high_qc /\ f.view = m.view /\ f.to = to
<1>1. ASSUME NEW m \in Votes
      PROVE  LET f == [m EXCEPT !.to = to]
             IN  f \in Votes /\ f.sender = m.sender /\ f.block = m.block /\ f.view = m.view /\ f.to = to
  BY DEF Votes
<1>2. ASSUME NEW m \in NewViews
      PROVE  LET f == [m EXCEPT !.to = to]
             IN  f \in NewViews /\ f.sender = m.sender /\ f.high_qc = m.high_qc /\ f.view = m.view /\ f.to = to
  BY DEF NewViews
<1> QED BY <1>1, <1>2

LEMMA QuorumOf ==
  ASSUME NEW k \in Nat, NEW ms, NEW quorum \in quorums(k, ms)
  PROVE  /\ quorum \subseteq ms /\ Cardinality({ m.sender : m \in quorum }) = k
         /\ k # 0 => quorum # {}
<1>1. Cardinality(quorum) = k /\ quorum \subseteq ms /\ Cardinality({ m.sender : m \in quorum }) = k
  BY DEF quorums, from_distinct
<1> QED BY <1>1, FS_EmptySet

---------------------------------------------------------------------------
(* What each action does, in the terms above.                              *)

LEMMA ReceiveBlock ==
  ASSUME Structure, NEW n \in Nodes, receive_block(n)
  PROVE  \E block \in proposed :
           /\ parent(block) \in ids(safe_blocks[n])
           /\ id(block) \notin ids(safe_blocks[n]) /\ block.view >= current_view[n]
           /\ safe_blocks' = [safe_blocks EXCEPT ![n] = @ \cup {block}]
           /\ local_high_qc' = [local_high_qc EXCEPT ![n] = raised(@, block.qc)]
           /\ current_view' = [current_view EXCEPT ![n] = view_after(@, block.qc)]
           /\ UNCHANGED << highest_voted_view, last_view_timeout_qc, msgs >>
  BY DEF receive_block, proposed, ignored, block_is_safe

LEMMA ApproveBlock ==
  ASSUME Structure, NEW n \in Nodes, approve_block(n)
  PROVE  \E block \in safe_blocks[n], to \in SUBSET Nodes :
           /\ block.view \in 1 .. MaxView /\ highest_voted_view[n] < block.view
           /\ highest_voted_view' = [highest_voted_view EXCEPT ![n] = block.view]
           /\ Send([type |-> "vote", block |-> id(block), view |-> block.view, sender |-> n, to |-> to])
           /\ \A d \in to : n \in Electors \/ n \in childs[d]
           /\ UNCHANGED << current_view, local_high_qc, safe_blocks, last_view_timeout_qc >>
<1>1. PICK block \in safe_blocks[n] : vote_for(n, block, upwards(n, block.view))
  BY DEF approve_block
<1>2. block.view \in 1 .. MaxView
  BY <1>1, OverlayAssumption DEF vote_for
<1>3. upwards(n, block.view) \in SUBSET Nodes
  BY <1>2, UpwardsTypes
<1>4. \A d \in upwards(n, block.view) : n \in Electors \/ n \in childs[d]
  BY DEF upwards, parent_committee, Electors
<1> QED BY <1>1, <1>2, <1>3, <1>4 DEF vote_for

LEMMA ForwardVote ==
  ASSUME Structure, NEW n \in Nodes, forward_vote(n)
  PROVE  \E m \in sent("vote"), f \in Votes :
           /\ f.sender = m.sender /\ f.block = m.block /\ f.view = m.view
           /\ f.sender \in Electors /\ Send(f) /\ UNCHANGED node_vars
<1>1. PICK m \in from_children(n, "vote") : Send([m EXCEPT !.to = {leader[m.view + 1]}])
  BY DEF forward_vote
<1>2. m \in sent("vote") /\ m \in Votes /\ m.sender \in childs[n] /\ n \in root_committee
  BY SentTypes DEF Structure, from_children, forward_vote
<1>3. {leader[m.view + 1]} \in SUBSET Nodes
  BY <1>2, UpwardsTypes DEF Votes
<1> DEFINE f == [m EXCEPT !.to = {leader[m.view + 1]}]
<1>4. f \in Votes /\ f.sender = m.sender /\ f.block = m.block /\ f.view = m.view
  BY <1>2, <1>3, ForwardTypes
<1>5. m.sender \in Electors
  BY <1>2, ElectorsAndThreshold
<1>6. Send(f) /\ UNCHANGED node_vars
  BY <1>1 DEF forward_vote
<1> HIDE DEF f
<1> QED BY <1>2, <1>4, <1>5, <1>6

LEMMA ForwardNewView ==
  ASSUME Structure, NEW n \in Nodes, forward_new_view(n)
  PROVE  \E m \in sent("new_view"), f \in NewViews :
           /\ f.sender = m.sender /\ f.high_qc = m.high_qc /\ f.view = m.view
           /\ f.sender \in Electors /\ Send(f) /\ UNCHANGED node_vars
<1>1. PICK m \in from_children(n, "new_view") : Send([m EXCEPT !.to = {leader[m.view + 1]}])
  BY DEF forward_new_view
<1>2. m \in sent("new_view") /\ m \in NewViews /\ m.sender \in childs[n] /\ n \in root_committee
  BY SentTypes DEF Structure, from_children, forward_new_view
<1>3. {leader[m.view + 1]} \in SUBSET Nodes
  BY <1>2, UpwardsTypes DEF NewViews
<1> DEFINE f == [m EXCEPT !.to = {leader[m.view + 1]}]
<1>4. f \in NewViews /\ f.sender = m.sender /\ f.high_qc = m.high_qc /\ f.view = m.view
  BY <1>2, <1>3, ForwardTypes
<1>5. m.sender \in Electors
  BY <1>2, ElectorsAndThreshold
<1>6. Send(f) /\ UNCHANGED node_vars
  BY <1>1 DEF forward_new_view
<1> HIDE DEF f
<1> QED BY <1>2, <1>4, <1>5, <1>6

LEMMA LocalTimeout ==
  ASSUME Structure, NEW n \in Nodes, local_timeout(n)
  PROVE  /\ current_view[n] \in TimeoutViews
         /\ highest_voted_view' = [highest_voted_view EXCEPT ![n] = current_view[n]]
         /\ \/ UNCHANGED msgs
            \/ \E f \in Timeouts : f.high_qc = local_high_qc[n] /\ Send(f)
         /\ UNCHANGED << current_view, local_high_qc, safe_blocks, last_view_timeout_qc >>
  BY DEF local_timeout, Timeouts, Structure, TypeOK

LEMMA TimeoutDetected ==
  ASSUME Structure, NEW n \in Nodes, timeout_detected(n)
  PROVE  /\ \E f \in TimeoutQcs : OfBlock(f.high_qc) /\ Send(f)
         /\ UNCHANGED node_vars
<1>0. PICK view \in TimeoutViews :
        \E quorum \in quorums(leader_super_majority_threshold, { m \in sent("timeout") : m.view = view }) :
          Send([type |-> "timeout_qc", view |-> view, high_qc |-> highest({ m.high_qc : m \in quorum })])
  BY DEF timeout_detected
<1>1. PICK quorum \in quorums(leader_super_majority_threshold, { m \in sent("timeout") : m.view = view }) :
        Send([type |-> "timeout_qc", view |-> view, high_qc |-> highest({ m.high_qc : m \in quorum })])
  BY <1>0
<1> DEFINE qcs == { m.high_qc : m \in quorum }
<1>2. quorum # {} /\ quorum \subseteq sent("timeout")
  <2> DEFINE ms == { m \in sent("timeout") : m.view = view }
  <2>1. quorum \in quorums(threshold, ms) /\ threshold \in Nat \ {0}
    BY OverlayAssumption DEF threshold
  <2>2. quorum \subseteq ms /\ quorum # {}
    <3> HIDE DEF ms
    <3> QED BY <2>1, QuorumOf
  <2> QED BY <2>2
<1>3. qcs # {} /\ \A qc \in qcs : OfBlock(qc)
  BY <1>2 DEF Structure, QcsKnown
<1>4. highest(qcs) \in qcs
  <2> HIDE DEF qcs
  <2> QED BY <1>3, HighestQc
<1>5. OfBlock(highest(qcs)) /\ highest(qcs) \in StandardQcs
  <2> HIDE DEF qcs
  <2> QED BY <1>3, <1>4, QcViews
<1> HIDE DEF qcs
<1>6. [type |-> "timeout_qc", view |-> view, high_qc |-> highest(qcs)] \in TimeoutQcs
  BY <1>5 DEF TimeoutQcs
<1> QED BY <1>1, <1>5, <1>6 DEF timeout_detected, qcs

LEMMA ReceiveTimeoutQc ==
  ASSUME Structure, NEW n \in Nodes, receive_timeout_qc(n)
  PROVE  \E m \in sent("timeout_qc") :
           /\ m.view >= current_view[n]
           /\ local_high_qc' = [local_high_qc EXCEPT ![n] = raised(@, m.high_qc)]
           /\ last_view_timeout_qc'[n] \in Int
           /\ last_view_timeout_qc' = [last_view_timeout_qc EXCEPT ![n] = last_view_timeout_qc'[n]]
           /\ current_view' = [current_view EXCEPT ![n] = m.view + 1]
           /\ UNCHANGED << highest_voted_view, safe_blocks, msgs >>
<1>1. PICK m \in sent("timeout_qc") :
        /\ m.view >= current_view[n]
        /\ local_high_qc' = [local_high_qc EXCEPT ![n] = raised(@, m.high_qc)]
        /\ last_view_timeout_qc' = [last_view_timeout_qc EXCEPT ![n] = Max({@, m.view})]
        /\ current_view' = [current_view EXCEPT ![n] = m.view + 1]
        /\ UNCHANGED << highest_voted_view, safe_blocks, msgs >>
  BY DEF receive_timeout_qc
<1>2. m.view \in Int /\ last_view_timeout_qc[n] \in Int
  <2>1. m \in TimeoutQcs
    BY SentTypes DEF Structure
  <2>2. TimeoutViews \subseteq Int
    BY OverlayAssumption
  <2> QED BY <2>1, <2>2 DEF TimeoutQcs, Structure, TypeOK
<1>3. Max({last_view_timeout_qc[n], m.view}) \in Int
  BY <1>2 DEF Max
<1>4. last_view_timeout_qc'[n] = Max({last_view_timeout_qc[n], m.view})
  BY <1>1 DEF Structure, TypeOK
<1> QED BY <1>1, <1>3, <1>4 DEF Structure, TypeOK

LEMMA ApproveNewView ==
  ASSUME Structure, NEW n \in Nodes, approve_new_view(n)
  PROVE  \E f \in NewViews :
           /\ f.sender = n /\ f.high_qc = local_high_qc'[n] /\ Send(f)
           /\ OfBlock(local_high_qc'[n]) /\ local_high_qc'[n].view >= local_high_qc[n].view
           /\ local_high_qc' = [local_high_qc EXCEPT ![n] = local_high_qc'[n]]
           /\ current_view[n] >= f.view /\ highest_voted_view[n] < f.view
           /\ current_view'[n] \in Nat /\ current_view'[n] >= current_view[n]
           /\ current_view' = [current_view EXCEPT ![n] = current_view'[n]]
           /\ highest_voted_view' = [highest_voted_view EXCEPT ![n] = f.view]
           /\ \A d \in f.to : n \in Electors \/ n \in childs[d]
           /\ UNCHANGED << safe_blocks, last_view_timeout_qc >>
<1>1. PICK t \in sent("timeout_qc") : new_view_after(n, t, upwards(n, t.view + 1))
  BY DEF approve_new_view
<1> DEFINE view == t.view + 1
           to == upwards(n, view)
           ms == { m \in from_children(n, "new_view") : m.view = view }
<1>2. /\ current_view[n] >= view /\ highest_voted_view[n] < view
      /\ \E quorum \in quorums(super_majority_threshold[n], ms) :
           LET qc == highest({t.high_qc} \cup { m.high_qc : m \in quorum })
           IN  /\ local_high_qc' = [local_high_qc EXCEPT ![n] = raised(@, qc)]
               /\ current_view' = [current_view EXCEPT ![n] = view_after(@, qc)]
               /\ highest_voted_view' = [highest_voted_view EXCEPT ![n] = view]
               /\ Send([type |-> "new_view", view |-> view, high_qc |-> local_high_qc'[n],
                        sender |-> n, to |-> to])
      /\ UNCHANGED << safe_blocks, last_view_timeout_qc >>
  BY <1>1 DEF new_view_after
<1>3. PICK quorum \in quorums(super_majority_threshold[n], ms) :
           LET qc == highest({t.high_qc} \cup { m.high_qc : m \in quorum })
           IN  /\ local_high_qc' = [local_high_qc EXCEPT ![n] = raised(@, qc)]
               /\ current_view' = [current_view EXCEPT ![n] = view_after(@, qc)]
               /\ highest_voted_view' = [highest_voted_view EXCEPT ![n] = view]
               /\ Send([type |-> "new_view", view |-> view, high_qc |-> local_high_qc'[n],
                        sender |-> n, to |-> to])
  BY <1>2
<1> DEFINE qcs == {t.high_qc} \cup { m.high_qc : m \in quorum }
           qc == highest(qcs)
<1>4. t \in TimeoutQcs /\ view \in 1 .. MaxView
  <2>1. t \in TimeoutQcs
    BY SentTypes DEF Structure
  <2>2. t.view \in TimeoutViews
    BY <2>1 DEF TimeoutQcs
  <2> QED BY <2>1, <2>2, TimeoutView
<1>5. \A other \in qcs : OfBlock(other)
  <2>1. quorum \subseteq ms
    BY DEF quorums
  <2> QED BY <2>1 DEF Structure, QcsKnown, from_children
<1>6. OfBlock(qc) /\ qc \in StandardQcs /\ qc.view \in Nat
  <2>1. qcs # {}
    OBVIOUS
  <2>2. qc \in qcs
    <3> HIDE DEF qcs
    <3> QED BY <1>5, <2>1, HighestQc
  <2>3. OfBlock(qc)
    <3> HIDE DEF qcs, qc
    <3> QED BY <1>5, <2>2
  <2> HIDE DEF qc
  <2> QED BY <2>3, QcViews, OverlayAssumption
<1>7. /\ local_high_qc' = [local_high_qc EXCEPT ![n] = raised(@, qc)]
      /\ current_view' = [current_view EXCEPT ![n] = view_after(@, qc)]
      /\ highest_voted_view' = [highest_voted_view EXCEPT ![n] = view]
      /\ Send([type |-> "new_view", view |-> view, high_qc |-> local_high_qc'[n],
               sender |-> n, to |-> to])
  BY <1>3
<1> HIDE DEF qc, qcs
<1>8. /\ local_high_qc'[n] = raised(local_high_qc[n], qc) /\ current_view'[n] = view_after(current_view[n], qc)
      /\ local_high_qc[n] \in StandardQcs /\ OfBlock(local_high_qc[n]) /\ current_view[n] \in Nat
  BY <1>7 DEF Structure, TypeOK, QcsKnown
<1>9. /\ OfBlock(local_high_qc'[n]) /\ local_high_qc'[n] \in StandardQcs
      /\ local_high_qc'[n].view >= local_high_qc[n].view
  <2>1. is_standard(qc) /\ high_qc(qc) = qc
    BY <1>6, QcTypes
  <2> QED BY <1>6, <1>8, <2>1, Raised
<1>10. current_view'[n] \in Nat /\ current_view'[n] >= current_view[n]
  BY <1>6, <1>8, ViewAfter
<1>11. /\ local_high_qc' = [local_high_qc EXCEPT ![n] = local_high_qc'[n]]
       /\ current_view' = [current_view EXCEPT ![n] = current_view'[n]]
  BY <1>7, <1>8
<1> DEFINE f == [type |-> "new_view", view |-> view, high_qc |-> local_high_qc'[n],
                 sender |-> n, to |-> to]
<1>12. to \in SUBSET Nodes /\ \A d \in to : n \in Electors \/ n \in childs[d]
  <2>1. view \in 0 .. MaxView
    BY <1>4
  <2>2. to \in SUBSET Nodes
    BY <2>1, UpwardsTypes
  <2> QED BY <2>2 DEF upwards, parent_committee, Electors
<1> HIDE DEF to
<1>13. f \in NewViews /\ f.sender = n /\ f.high_qc = local_high_qc'[n] /\ f.view = view /\ f.to = to
  BY <1>4, <1>9, <1>12 DEF NewViews
<1>14. Send(f)
  BY <1>7
<1> HIDE DEF f
<1> QED BY <1>2, <1>7, <1>9, <1>10, <1>11, <1>12, <1>13, <1>14

\* Who a quorum of messages to a leader is from.
LEMMA QuorumAtLeader ==
  ASSUME NEW n \in Nodes, childs[n] \subseteq Electors, NEW ms, \A m \in ms : n \in m.to /\ Routed(m),
         NEW quorum \in quorums(threshold, ms)
  PROVE  /\ quorum \subseteq ms /\ quorum # {}
         /\ { m.sender : m \in quorum } \in SUBSET Electors
         /\ Cardinality({ m.sender : m \in quorum }) = threshold
<1>1. threshold \in Nat \ {0}
  BY OverlayAssumption DEF threshold
<1>2. quorum \subseteq ms /\ quorum # {} /\ Cardinality({ m.sender : m \in quorum }) = threshold
  BY <1>1, QuorumOf
<1>3. \A m \in quorum : m.sender \in Electors
  BY <1>2 DEF Routed
<1> QED BY <1>2, <1>3

LEMMA VotersFinite ==
  ASSUME NEW b
  PROVE  /\ voters(b) \in SUBSET Electors /\ IsFiniteSet(voters(b)) /\ Cardinality(voters(b)) \in Nat
         /\ threshold \in Nat /\ Cardinality(Electors) \in Nat
<1>1. voters(b) \in SUBSET Electors
  BY DEF voters, Electors
<1>2. threshold \in Nat
  BY OverlayAssumption DEF threshold
<1> QED BY <1>1, <1>2, ElectorsAndThreshold, FS_Subset, FS_CardinalityType

\* A QC of votes, and one of new views.
LEMMA QcOfVotes ==
  ASSUME Structure, Local, NEW n \in Nodes, childs[n] \subseteq Electors, NEW qc \in qcs_of_votes(n)
  PROVE  \E c \in known_blocks : qc = StandardQc(id(c), c.view) /\ Certified(c)
<1>1. PICK c \in safe_blocks[n] :
        /\ qc = StandardQc(id(c), c.view)
        /\ quorums(threshold, { m \in sent("vote") : n \in m.to /\ m.block = id(c) }) # {}
  BY DEF qcs_of_votes, threshold
<1>2. c \in known_blocks
  BY DEF Local, SafeOK
<1>3. ASSUME c # genesis_block PROVE Cardinality(voters(c)) >= threshold
  <2> DEFINE ms == { m \in sent("vote") : n \in m.to /\ m.block = id(c) }
  <2>1. PICK quorum \in quorums(threshold, ms) : TRUE
    BY <1>1
  <2>2. \A m \in ms : n \in m.to /\ Routed(m)
    <3>1. id(c) # id(genesis_block)
      BY <1>2, <1>3, KnownBlocks, KnownTypes DEF Structure
    <3> QED BY <3>1 DEF Local, VotesOK
  <2> DEFINE senders == { m.sender : m \in quorum }
  <2>3. quorum \subseteq ms /\ senders \in SUBSET Electors /\ Cardinality(senders) = threshold
    <3> HIDE DEF ms
    <3> QED BY <2>2, QuorumAtLeader
  <2>4. senders \in SUBSET voters(c)
    BY <2>3 DEF voters, Electors
  <2> HIDE DEF senders
  <2>5. Cardinality(senders) <= Cardinality(voters(c))
    BY <2>4, VotersFinite, FS_Subset
  <2> QED BY <2>3, <2>5, VotersFinite
<1> QED BY <1>1, <1>2, <1>3 DEF Certified

LEMMA QcOfNewViews ==
  ASSUME Structure, Local, NEW n \in Nodes, childs[n] \subseteq Electors, NEW qc \in qcs_of_new_views(n)
  PROVE  /\ qc \in AggregateQcs /\ OfBlock(qc.highest_qc) /\ qc.view \in 1 .. MaxView
         /\ \E quorum \in SUBSET sent("new_view") :
              /\ { m.sender : m \in quorum } \in SUBSET Electors
              /\ Cardinality({ m.sender : m \in quorum }) = threshold
              /\ \A m \in quorum : m.view = qc.view /\ m.high_qc.view <= qc.highest_qc.view
<1>1. PICK view \in 1 .. MaxView :
        \E quorum \in quorums(threshold, { m \in sent("new_view") : n \in m.to /\ m.view = view }) :
          qc = AggregateQc(highest({ m.high_qc : m \in quorum }), view)
  BY DEF qcs_of_new_views, threshold
<1> DEFINE ms == { m \in sent("new_view") : n \in m.to /\ m.view = view }
<1>2. PICK quorum \in quorums(threshold, ms) :
        qc = AggregateQc(highest({ m.high_qc : m \in quorum }), view)
  BY <1>1
<1>3. \A m \in ms : n \in m.to /\ Routed(m)
  BY DEF Local, NewViewsOK
<1> DEFINE senders == { m.sender : m \in quorum }
           qcs == { m.high_qc : m \in quorum }
<1>4. quorum \subseteq ms /\ quorum # {} /\ senders \in SUBSET Electors /\ Cardinality(senders) = threshold
  <2> HIDE DEF ms
  <2> QED BY <1>3, QuorumAtLeader
<1>5. qcs # {} /\ \A other \in qcs : OfBlock(other)
  BY <1>4 DEF Structure, QcsKnown
<1>6. /\ highest(qcs) \in qcs /\ OfBlock(highest(qcs)) /\ highest(qcs) \in StandardQcs
      /\ \A other \in qcs : other.view <= highest(qcs).view
  <2> HIDE DEF qcs
  <2> QED BY <1>5, HighestQc, QcViews
<1>7. qc = AggregateQc(highest(qcs), view)
  BY <1>2
<1>8. qc \in AggregateQcs /\ qc.highest_qc = highest(qcs) /\ qc.view = view
  <2> HIDE DEF qcs
  <2> QED BY <1>6, <1>7, OverlayAssumption DEF AggregateQc, AggregateQcs
<1>9. \A m \in quorum : m.view = view /\ m.high_qc.view <= highest(qcs).view
  BY <1>4, <1>6
<1>10. quorum \in SUBSET sent("new_view")
  BY <1>4
<1> HIDE DEF qcs
<1> QED BY <1>4, <1>6, <1>8, <1>9, <1>10

LEMMA ProposeBlock ==
  ASSUME Structure, Local, NEW n \in Nodes, propose_block(n)
  PROVE  \E block \in Blocks :
           /\ Send([type |-> "block", block |-> block]) /\ UNCHANGED node_vars
           /\ block.view \in 1 .. MaxView /\ block.qc.view = block.view - 1
           /\ \A b \in known_blocks : b.view # block.view
           /\ OfBlock(high_qc(block.qc))
           /\ \/ /\ Standard(block)
                 /\ \E c \in known_blocks : block.qc = StandardQc(id(c), c.view) /\ Certified(c)
              \/ /\ ~ Standard(block)
                 /\ \E quorum \in SUBSET sent("new_view") :
                      /\ { m.sender : m \in quorum } \in SUBSET Electors
                      /\ Cardinality({ m.sender : m \in quorum }) = threshold
                      /\ \A m \in quorum : m.view = block.view - 1 /\ m.high_qc.view <= QcView(block)
<1>1. PICK qc \in qcs_of_votes(n) \cup qcs_of_new_views(n) :
        /\ may_propose(n, qc.view + 1)
        /\ Send([type |-> "block", block |-> [view |-> qc.view + 1, qc |-> qc]])
        /\ UNCHANGED node_vars
  BY DEF propose_block
<1> DEFINE block == [view |-> qc.view + 1, qc |-> qc]
<1>2. ASSUME qc.view \in Nat PROVE childs[n] \subseteq Electors
  <2>1. qc.view + 1 <= MaxView /\ leader[qc.view + 1] = n
    BY <1>1 DEF may_propose
  <2>2. qc.view + 1 \in DOMAIN leader
    BY <1>2, <2>1, OverlayAssumption
  <2> QED BY <2>1, <2>2, ElectorsAndThreshold
<1>3. block.view = qc.view + 1 /\ block.qc = qc
  OBVIOUS
<1>4. qc.view \in Nat
  <2>1. CASE qc \in qcs_of_votes(n)
    <3>1. PICK c \in safe_blocks[n] : qc = StandardQc(id(c), c.view)
      BY <2>1 DEF qcs_of_votes
    <3>2. c \in Blocks
      BY DEF Structure, TypeOK
    <3> QED BY <3>1, <3>2, BlockTypes DEF StandardQc
  <2>2. CASE qc \in qcs_of_new_views(n)
    <3>1. PICK view \in 1 .. MaxView : \E highest_qc : qc = AggregateQc(highest_qc, view)
      BY <2>2 DEF qcs_of_new_views
    <3> QED BY <3>1, OverlayAssumption DEF AggregateQc
  <2> QED BY <2>1, <2>2
<1>5. block.view \in 1 .. MaxView /\ block.qc.view = block.view - 1
  BY <1>1, <1>3, <1>4, OverlayAssumption DEF may_propose
<1>6. \A b \in known_blocks : b.view # block.view
  BY <1>1, <1>3, <1>5, GenesisTypes DEF may_propose, known_blocks, proposed
<1>7. CASE qc \in qcs_of_votes(n)
  <2>1. PICK c \in known_blocks : qc = StandardQc(id(c), c.view) /\ Certified(c)
    BY <1>2, <1>4, <1>7, QcOfVotes
  <2>2. OfBlock(qc)
    BY <2>1 DEF OfBlock
  <2>3. qc \in StandardQcs
    BY <2>2, QcViews
  <2>4. block \in Blocks /\ Standard(block) /\ high_qc(block.qc) = qc
    BY <1>3, <1>4, <2>3, QcTypes DEF Blocks, Standard
  <2> HIDE DEF block
  <2> QED BY <1>1, <1>3, <1>5, <1>6, <2>1, <2>2, <2>4 DEF block
<1>8. CASE qc \in qcs_of_new_views(n)
  <2>1. /\ qc \in AggregateQcs /\ OfBlock(qc.highest_qc)
        /\ \E quorum \in SUBSET sent("new_view") :
             /\ { m.sender : m \in quorum } \in SUBSET Electors
             /\ Cardinality({ m.sender : m \in quorum }) = threshold
             /\ \A m \in quorum : m.view = qc.view /\ m.high_qc.view <= qc.highest_qc.view
    BY <1>2, <1>4, <1>8, QcOfNewViews
  <2>2. block \in Blocks /\ ~ Standard(block) /\ high_qc(block.qc) = qc.highest_qc
    BY <1>3, <1>4, <2>1, QcTypes DEF Blocks, Standard
  <2>3. QcView(block) = qc.highest_qc.view /\ qc.view = block.view - 1
    BY <1>3, <1>4, <2>2 DEF QcView
  <2> HIDE DEF block
  <2> QED BY <1>1, <1>3, <1>5, <1>6, <2>1, <2>2, <2>3 DEF block
<1> QED BY <1>7, <1>8

---------------------------------------------------------------------------
(* The structural invariants are inductive.                                *)

LEMMA VoteTypes ==
  ASSUME NEW block \in Blocks, block.view \in 1 .. MaxView, NEW n \in Nodes, NEW to \in SUBSET Nodes,
         NEW m, m = [type |-> "vote", block |-> id(block), view |-> block.view, sender |-> n, to |-> to]
  PROVE  /\ m \in Votes /\ m.block = id(block) /\ m.view = block.view /\ m.sender = n /\ m.to = to
         /\ m.type = "vote"
<1>1. id(block) \in Ids /\ block.view \in 0 .. MaxView
  BY BlockTypes, OverlayAssumption
<1> QED BY <1>1 DEF Votes

\* A step of a node.
Step(n) ==
  \/ receive_block(n) \/ approve_block(n) \/ forward_vote(n) \/ forward_new_view(n)
  \/ propose_block(n)
  \/ local_timeout(n) \/ timeout_detected(n) \/ receive_timeout_qc(n) \/ approve_new_view(n)

LEMMA TypeStep ==
  ASSUME Structure, Local, NEW n \in Nodes, Step(n)
  PROVE  TypeOK'
<1> DEFINE Messages == Votes \cup NewViews \cup Proposals \cup Timeouts \cup TimeoutQcs
<1> USE DEF TypeOK
<1>0. TypeOK /\ msgs \subseteq Messages
  BY DEF Structure
<1>1. CASE receive_block(n)
  <2>1. PICK block \in proposed :
           /\ safe_blocks' = [safe_blocks EXCEPT ![n] = @ \cup {block}]
           /\ local_high_qc' = [local_high_qc EXCEPT ![n] = raised(@, block.qc)]
           /\ current_view' = [current_view EXCEPT ![n] = view_after(@, block.qc)]
           /\ UNCHANGED << highest_voted_view, last_view_timeout_qc, msgs >>
    BY <1>1, ReceiveBlock
  <2>2. block \in Blocks
    BY <1>0, KnownTypes
  <2>3. raised(local_high_qc[n], block.qc) \in StandardQcs
    BY <1>0, <2>2, BlockTypes, Raised
  <2>4. view_after(current_view[n], block.qc) \in Nat
    BY <1>0, <2>2, BlockTypes, ViewAfter
  <2> QED BY <1>0, <2>1, <2>2, <2>3, <2>4
<1>2. CASE approve_block(n)
  <2>1. PICK block \in safe_blocks[n], to \in SUBSET Nodes :
           /\ block.view \in 1 .. MaxView
           /\ highest_voted_view' = [highest_voted_view EXCEPT ![n] = block.view]
           /\ Send([type |-> "vote", block |-> id(block), view |-> block.view, sender |-> n, to |-> to])
           /\ UNCHANGED << current_view, local_high_qc, safe_blocks, last_view_timeout_qc >>
    BY <1>2, ApproveBlock
  <2> DEFINE m == [type |-> "vote", block |-> id(block), view |-> block.view, sender |-> n, to |-> to]
  <2>2. block \in Blocks
    BY <1>0
  <2>3. m \in Votes
    BY <2>1, <2>2, VoteTypes
  <2> HIDE DEF m
  <2>4. msgs' \subseteq Messages
    BY <1>0, <2>1, <2>3 DEF Send, m
  <2> QED BY <1>0, <2>1, <2>4
<1>3. CASE forward_vote(n)
  <2>1. PICK f \in Votes : Send(f) /\ UNCHANGED node_vars
    BY <1>3, ForwardVote
  <2> QED BY <1>0, <2>1 DEF Send, node_vars
<1>4. CASE forward_new_view(n)
  <2>1. PICK f \in NewViews : Send(f) /\ UNCHANGED node_vars
    BY <1>4, ForwardNewView
  <2> QED BY <1>0, <2>1 DEF Send, node_vars
<1>5. CASE propose_block(n)
  <2>1. PICK block \in Blocks : Send([type |-> "block", block |-> block]) /\ UNCHANGED node_vars
    BY <1>5, ProposeBlock
  <2>2. [type |-> "block", block |-> block] \in Proposals
    BY DEF Proposals
  <2> QED BY <1>0, <2>1, <2>2 DEF Send, node_vars
<1>6. CASE local_timeout(n)
  <2>1. msgs' = msgs \/ \E f \in Timeouts : Send(f)
    BY <1>6, LocalTimeout
  <2>2. msgs' \subseteq Messages
    BY <1>0, <2>1 DEF Send
  <2> QED BY <1>0, <1>6, <2>2, LocalTimeout
<1>7. CASE timeout_detected(n)
  <2>1. PICK f \in TimeoutQcs : Send(f) /\ UNCHANGED node_vars
    BY <1>7, TimeoutDetected
  <2> QED BY <1>0, <2>1 DEF Send, node_vars
<1>8. CASE receive_timeout_qc(n)
  <2>1. PICK m \in sent("timeout_qc") :
           /\ local_high_qc' = [local_high_qc EXCEPT ![n] = raised(@, m.high_qc)]
           /\ last_view_timeout_qc'[n] \in Int
           /\ last_view_timeout_qc' = [last_view_timeout_qc EXCEPT ![n] = last_view_timeout_qc'[n]]
           /\ current_view' = [current_view EXCEPT ![n] = m.view + 1]
           /\ UNCHANGED << highest_voted_view, safe_blocks, msgs >>
    BY <1>8, ReceiveTimeoutQc
  <2>2. m \in TimeoutQcs
    BY <1>0, SentTypes
  <2>3. m.view \in TimeoutViews /\ m.high_qc \in StandardQcs
    BY <2>2 DEF TimeoutQcs
  <2>4. m.view \in Nat
    BY <2>3, TimeoutView
  <2>5. raised(local_high_qc[n], m.high_qc) \in StandardQcs
    BY <1>0, <2>3, Raised
  <2> QED BY <1>0, <2>1, <2>4, <2>5
<1>9. CASE approve_new_view(n)
  <2>1. PICK f \in NewViews :
           /\ Send(f) /\ OfBlock(local_high_qc'[n])
           /\ local_high_qc' = [local_high_qc EXCEPT ![n] = local_high_qc'[n]]
           /\ current_view'[n] \in Nat
           /\ current_view' = [current_view EXCEPT ![n] = current_view'[n]]
           /\ highest_voted_view' = [highest_voted_view EXCEPT ![n] = f.view]
           /\ UNCHANGED << safe_blocks, last_view_timeout_qc >>
    BY <1>9, ApproveNewView
  <2>2. local_high_qc'[n] \in StandardQcs
    BY <2>1, QcViews
  <2>3. f.view \in Int
    BY <2>1 DEF NewViews
  <2>4. msgs' \subseteq Messages
    BY <1>0, <2>1 DEF Send
  <2> QED BY <1>0, <2>1, <2>2, <2>3, <2>4
<1> QED BY <1>1, <1>2, <1>3, <1>4, <1>5, <1>6, <1>7, <1>8, <1>9 DEF Step

LEMMA NotAProposal ==
  ASSUME NEW m, m.type # "block", Send(m)
  PROVE  sent("block")' = sent("block") /\ proposed' = proposed /\ known_blocks' = known_blocks
<1>1. sent("block")' = sent("block")
  BY Sends
<1> QED BY <1>1 DEF proposed, known_blocks

LEMMA Unsent ==
  ASSUME UNCHANGED msgs
  PROVE  /\ \A type : sent(type)' = sent(type)
         /\ proposed' = proposed /\ known_blocks' = known_blocks
  BY DEF sent, proposed, known_blocks

LEMMA MessageTypes ==
  /\ \A m \in Votes : m.type = "vote"
  /\ \A m \in NewViews : m.type = "new_view"
  /\ \A m \in Proposals : m.type = "block"
  /\ \A m \in Timeouts : m.type = "timeout"
  /\ \A m \in TimeoutQcs : m.type = "timeout_qc"
  BY DEF Votes, NewViews, Proposals, Timeouts, TimeoutQcs

LEMMA Proposal ==
  ASSUME NEW block, Send([type |-> "block", block |-> block])
  PROVE  /\ proposed' = proposed \cup {block} /\ known_blocks' = known_blocks \cup {block}
         /\ \A type : type # "block" => sent(type)' = sent(type)
<1> DEFINE m == [type |-> "block", block |-> block]
<1>1. m.type = "block" /\ m.block = block
  OBVIOUS
<1> HIDE DEF m
<1>2. Send(m)
  BY DEF m
<1>3. sent("block")' = sent("block") \cup {m}
  BY <1>1, <1>2, Sends
<1>4. \A type : type # "block" => sent(type)' = sent(type)
  BY <1>1, <1>2, Sends
<1> QED BY <1>1, <1>3, <1>4 DEF proposed, known_blocks

\* Messages, blocks and safe blocks only become more, and views only rise.
LEMMA Grows ==
  ASSUME Structure, Local, NEW n \in Nodes, Step(n)
  PROVE  /\ msgs \subseteq msgs'
         /\ ~ propose_block(n) => proposed' = proposed /\ known_blocks' = known_blocks
         /\ known_blocks \subseteq known_blocks'
         /\ \A i \in Nodes : safe_blocks[i] \subseteq safe_blocks'[i] /\ current_view'[i] >= current_view[i]
         /\ \A i \in Nodes, view \in Int : Past(i, view) => Past(i, view)'
<1> USE DEF TypeOK
<1>0. TypeOK
  BY DEF Structure
<1>1. CASE receive_block(n)
  <2>1. PICK block \in proposed :
           /\ safe_blocks' = [safe_blocks EXCEPT ![n] = @ \cup {block}]
           /\ current_view' = [current_view EXCEPT ![n] = view_after(@, block.qc)]
           /\ UNCHANGED << highest_voted_view, last_view_timeout_qc, msgs >>
    BY <1>1, ReceiveBlock
  <2>2. block.qc.view \in Nat
    BY <1>0, KnownTypes, BlockTypes
  <2>3. view_after(current_view[n], block.qc) \in Nat /\ view_after(current_view[n], block.qc) >= current_view[n]
    BY <1>0, <2>2, ViewAfter
  <2> QED BY <1>0, <2>1, <2>3, Unsent DEF Past
<1>2. CASE approve_block(n)
  <2>1. PICK block \in safe_blocks[n], to \in SUBSET Nodes :
           /\ block.view \in 1 .. MaxView /\ highest_voted_view[n] < block.view
           /\ highest_voted_view' = [highest_voted_view EXCEPT ![n] = block.view]
           /\ Send([type |-> "vote", block |-> id(block), view |-> block.view, sender |-> n, to |-> to])
           /\ UNCHANGED << current_view, local_high_qc, safe_blocks, last_view_timeout_qc >>
    BY <1>2, ApproveBlock
  <2> DEFINE m == [type |-> "vote", block |-> id(block), view |-> block.view, sender |-> n, to |-> to]
  <2>2. m.type # "block"
    OBVIOUS
  <2> HIDE DEF m
  <2>3. Send(m)
    BY <2>1 DEF m
  <2>4. \A i \in Nodes : highest_voted_view'[i] >= highest_voted_view[i]
    BY <1>0, <2>1
  <2>5. \A i \in Nodes, view \in Int : Past(i, view) => Past(i, view)'
    BY <1>0, <2>1, <2>4 DEF Past
  <2> QED BY <1>0, <2>1, <2>2, <2>3, <2>5, NotAProposal DEF Send
<1>3. CASE forward_vote(n)
  <2>1. PICK f \in Votes : Send(f) /\ UNCHANGED node_vars
    BY <1>3, ForwardVote
  <2> QED BY <1>0, <2>1, MessageTypes, NotAProposal DEF Send, node_vars, Past
<1>4. CASE forward_new_view(n)
  <2>1. PICK f \in NewViews : Send(f) /\ UNCHANGED node_vars
    BY <1>4, ForwardNewView
  <2> QED BY <1>0, <2>1, MessageTypes, NotAProposal DEF Send, node_vars, Past
<1>5. CASE propose_block(n)
  <2>1. PICK block : Send([type |-> "block", block |-> block]) /\ UNCHANGED node_vars
    BY <1>5, ProposeBlock
  <2>2. known_blocks \subseteq known_blocks'
    BY <2>1, Proposal
  <2>3. msgs \subseteq msgs'
    BY <2>1 DEF Send
  <2> QED BY <1>0, <1>5, <2>1, <2>2, <2>3 DEF node_vars, Past
<1>6. CASE local_timeout(n)
  <2>1. /\ current_view[n] \in TimeoutViews
        /\ highest_voted_view' = [highest_voted_view EXCEPT ![n] = current_view[n]]
        /\ \/ UNCHANGED msgs
           \/ \E f \in Timeouts : Send(f)
        /\ UNCHANGED << current_view, local_high_qc, safe_blocks, last_view_timeout_qc >>
    BY <1>6, LocalTimeout
  <2>2. msgs \subseteq msgs' /\ proposed' = proposed /\ known_blocks' = known_blocks
    BY <2>1, MessageTypes, NotAProposal, Unsent DEF Send
  <2>3. \A i \in Nodes, view \in Int : Past(i, view) => Past(i, view)'
    BY <1>0, <2>1 DEF Past
  <2> QED BY <1>0, <2>1, <2>2, <2>3
<1>7. CASE timeout_detected(n)
  <2>1. PICK f \in TimeoutQcs : Send(f) /\ UNCHANGED node_vars
    BY <1>7, TimeoutDetected
  <2> QED BY <1>0, <2>1, MessageTypes, NotAProposal DEF Send, node_vars, Past
<1>8. CASE receive_timeout_qc(n)
  <2>1. PICK m \in sent("timeout_qc") :
           /\ m.view >= current_view[n]
           /\ current_view' = [current_view EXCEPT ![n] = m.view + 1]
           /\ UNCHANGED << highest_voted_view, safe_blocks, msgs >>
    BY <1>8, ReceiveTimeoutQc
  <2>2. m.view \in Nat
    BY <1>0, SentTypes, TimeoutView DEF TimeoutQcs
  <2>3. \A i \in Nodes : current_view'[i] >= current_view[i]
    BY <1>0, <2>1, <2>2
  <2>4. \A i \in Nodes, view \in Int : Past(i, view) => Past(i, view)'
    BY <1>0, <2>1, <2>2, <2>3 DEF Past
  <2> QED BY <1>0, <2>1, <2>3, <2>4, Unsent
<1>9. CASE approve_new_view(n)
  <2>1. PICK f \in NewViews :
           /\ Send(f)
           /\ highest_voted_view[n] < f.view
           /\ current_view'[n] \in Nat /\ current_view'[n] >= current_view[n]
           /\ current_view' = [current_view EXCEPT ![n] = current_view'[n]]
           /\ highest_voted_view' = [highest_voted_view EXCEPT ![n] = f.view]
           /\ UNCHANGED << safe_blocks, last_view_timeout_qc >>
    BY <1>9, ApproveNewView
  <2>2. f.view \in Int
    BY DEF NewViews
  <2>3. \A i \in Nodes : current_view'[i] >= current_view[i] /\ highest_voted_view'[i] >= highest_voted_view[i]
    BY <1>0, <2>1, <2>2
  <2>4. \A i \in Nodes : current_view'[i] \in Int /\ highest_voted_view'[i] \in Int
    BY <1>0, <2>1, <2>2
  <2>5. \A i \in Nodes, view \in Int : Past(i, view) => Past(i, view)'
    BY <1>0, <2>3, <2>4 DEF Past
  <2>6. msgs \subseteq msgs' /\ proposed' = proposed /\ known_blocks' = known_blocks
    BY <2>1, MessageTypes, NotAProposal DEF Send
  <2> QED BY <2>1, <2>3, <2>5, <2>6
<1> QED BY <1>1, <1>2, <1>3, <1>4, <1>5, <1>6, <1>7, <1>8, <1>9 DEF Step

LEMMA CertifiedStays ==
  ASSUME Structure, Local, NEW n \in Nodes, Step(n)
  PROVE  /\ \A qc : OfBlock(qc) => OfBlock(qc)'
         /\ \A b : Certified(b) => Certified(b)'
<1>1. \A qc : OfBlock(qc) => OfBlock(qc)'
  BY Grows DEF OfBlock
<1>2. ASSUME NEW b PROVE voters(b) \subseteq voters(b)'
  BY Grows DEF voters, sent
<1>3. ASSUME NEW b, Cardinality(voters(b)) >= threshold PROVE Cardinality(voters(b)') >= threshold
  <2>1. voters(b)' \in SUBSET Electors
    BY DEF voters, Electors
  <2>2. IsFiniteSet(voters(b)') /\ Cardinality(voters(b)') \in Nat
    BY <2>1, ElectorsAndThreshold, FS_Subset, FS_CardinalityType
  <2>3. Cardinality(voters(b)) <= Cardinality(voters(b)')
    BY <1>2, <2>2, FS_Subset
  <2> QED BY <1>3, <2>2, <2>3, VotersFinite
<1>4. \A b : Certified(b) => Certified(b)'
  BY <1>3 DEF Certified
<1> QED BY <1>1, <1>4

LEMMA BlocksStep ==
  ASSUME Structure, Local, NEW n \in Nodes, Step(n)
  PROVE  BlocksOK'
<1>0. BlocksOK
  BY DEF Structure
<1>1. ASSUME NEW b \in proposed, Standard(b)
      PROVE  \E c \in known_blocks' : b.qc = StandardQc(id(c), c.view) /\ Certified(c)'
  BY <1>0, <1>1, Grows, CertifiedStays DEF BlocksOK
<1>2. CASE ~ propose_block(n)
  <2>1. proposed' = proposed /\ known_blocks' = known_blocks
    BY <1>2, Grows
  <2> QED BY <1>0, <1>1, <2>1 DEF BlocksOK
<1>3. CASE propose_block(n)
  <2>1. PICK block \in Blocks :
           /\ Send([type |-> "block", block |-> block])
           /\ block.view \in 1 .. MaxView /\ block.qc.view = block.view - 1
           /\ \A b \in known_blocks : b.view # block.view
           /\ Standard(block) =>
                \E c \in known_blocks : block.qc = StandardQc(id(c), c.view) /\ Certified(c)
    BY <1>3, ProposeBlock
  <2>2. proposed' = proposed \cup {block} /\ known_blocks' = known_blocks \cup {block}
    BY <2>1, Proposal
  <2>3. \A b \in proposed' : b.view \in 1 .. MaxView /\ b.qc.view = b.view - 1
    BY <1>0, <2>1, <2>2 DEF BlocksOK
  <2>4. \A b, c \in known_blocks' : b.view = c.view => b = c
    BY <1>0, <2>1, <2>2 DEF BlocksOK
  <2>5. ASSUME NEW b \in proposed', Standard(b)
        PROVE  \E c \in known_blocks' : b.qc = StandardQc(id(c), c.view) /\ Certified(c)'
    BY <1>1, <2>1, <2>2, <2>5, CertifiedStays
  <2> QED BY <2>3, <2>4, <2>5 DEF BlocksOK
<1> QED BY <1>2, <1>3

LEMMA QcsStep ==
  ASSUME Structure, Local, NEW n \in Nodes, Step(n)
  PROVE  QcsKnown'
<1> DEFINE Of(qc) == \E b \in known_blocks' : qc = StandardQc(id(b), b.view)
           CarryQcs(ms) == \A m \in ms : Of(m.high_qc)
           Nodes_ok == \A i \in Nodes : Of(local_high_qc'[i])
           Blocks_ok == \A b \in known_blocks' : Of(high_qc(b.qc))
<1>0. QcsKnown /\ TypeOK
  BY DEF Structure
<1>1. SUFFICES /\ Nodes_ok /\ Blocks_ok
               /\ CarryQcs(sent("timeout")') /\ CarryQcs(sent("timeout_qc")') /\ CarryQcs(sent("new_view")')
  BY DEF QcsKnown, OfBlock
<1>2. \A qc : OfBlock(qc) => Of(qc)
  BY Grows DEF OfBlock
<1>3. /\ \A i \in Nodes : Of(local_high_qc[i])
      /\ CarryQcs(sent("timeout")) /\ CarryQcs(sent("timeout_qc")) /\ CarryQcs(sent("new_view"))
      /\ \A b \in known_blocks : Of(high_qc(b.qc))
  BY <1>0, <1>2 DEF QcsKnown
<1>4. \A m : Send(m) /\ (m.type \in {"timeout", "timeout_qc", "new_view"} => Of(m.high_qc))
              => /\ CarryQcs(sent("timeout")') /\ CarryQcs(sent("timeout_qc")') /\ CarryQcs(sent("new_view")')
  BY <1>3, Sends
<1> HIDE DEF Of
<1>5. known_blocks' = known_blocks => Blocks_ok
  BY <1>3
<1>6. CASE receive_block(n)
  <2>1. PICK block \in proposed :
           /\ local_high_qc' = [local_high_qc EXCEPT ![n] = raised(@, block.qc)]
           /\ UNCHANGED msgs
    BY <1>6, ReceiveBlock
  <2>2. Of(high_qc(block.qc)) /\ block.qc \in StandardQcs \cup AggregateQcs
    BY <1>0, <1>3, KnownTypes, BlockTypes DEF known_blocks
  <2>3. Of(raised(local_high_qc[n], block.qc))
    BY <1>0, <1>3, <2>2, Raised DEF TypeOK
  <2>4. Nodes_ok
    BY <1>0, <1>3, <2>1, <2>3 DEF TypeOK
  <2> QED BY <1>1, <1>3, <1>5, <2>1, <2>4, Unsent
<1>7. CASE receive_timeout_qc(n)
  <2>1. PICK m \in sent("timeout_qc") :
           /\ local_high_qc' = [local_high_qc EXCEPT ![n] = raised(@, m.high_qc)]
           /\ UNCHANGED msgs
    BY <1>7, ReceiveTimeoutQc
  <2>2. m.high_qc \in StandardQcs /\ high_qc(m.high_qc) = m.high_qc /\ Of(m.high_qc)
    BY <1>0, <1>3, SentTypes, QcTypes DEF TimeoutQcs
  <2>3. raised(local_high_qc[n], m.high_qc) \in {local_high_qc[n], m.high_qc}
    BY <1>0, <2>2, Raised DEF TypeOK
  <2>4. Nodes_ok
    BY <1>0, <1>3, <2>1, <2>2, <2>3 DEF TypeOK
  <2> QED BY <1>1, <1>3, <1>5, <2>1, <2>4, Unsent
<1>8. CASE approve_new_view(n)
  <2>1. PICK f \in NewViews :
           /\ Send(f) /\ f.high_qc = local_high_qc'[n] /\ OfBlock(local_high_qc'[n])
           /\ local_high_qc' = [local_high_qc EXCEPT ![n] = local_high_qc'[n]]
    BY <1>8, ApproveNewView
  <2>2. Of(local_high_qc'[n])
    BY <1>2, <2>1
  <2>3. Nodes_ok
    BY <1>0, <1>3, <2>1, <2>2 DEF TypeOK
  <2>4. f.type # "block"
    BY MessageTypes
  <2>5. Blocks_ok
    BY <1>5, <2>1, <2>4, NotAProposal
  <2>6. CarryQcs(sent("timeout")') /\ CarryQcs(sent("timeout_qc")') /\ CarryQcs(sent("new_view")')
    BY <1>4, <2>1, <2>2
  <2> QED BY <1>1, <2>3, <2>5, <2>6
<1>9. CASE UNCHANGED local_high_qc /\ (UNCHANGED msgs \/ \E f \in Votes \cup NewViews \cup Timeouts \cup TimeoutQcs :
               Send(f) /\ (f.type \in {"timeout", "timeout_qc", "new_view"} => Of(f.high_qc)))
  <2>1. Nodes_ok
    BY <1>3, <1>9
  <2>2. CASE UNCHANGED msgs
    BY <1>1, <1>3, <1>5, <2>1, <2>2, Unsent
  <2>3. CASE ~ UNCHANGED msgs
    <3>1. PICK f \in Votes \cup NewViews \cup Timeouts \cup TimeoutQcs :
            Send(f) /\ (f.type \in {"timeout", "timeout_qc", "new_view"} => Of(f.high_qc))
      BY <1>9, <2>3
    <3>2. f.type # "block"
      BY MessageTypes
    <3>3. Blocks_ok
      BY <1>5, <3>1, <3>2, NotAProposal
    <3>4. CarryQcs(sent("timeout")') /\ CarryQcs(sent("timeout_qc")') /\ CarryQcs(sent("new_view")')
      BY <1>4, <3>1
    <3> QED BY <1>1, <2>1, <3>3, <3>4
  <2> QED BY <2>2, <2>3
<1>10. CASE approve_block(n)
  <2>1. PICK block \in safe_blocks[n], to \in SUBSET Nodes :
           /\ block.view \in 1 .. MaxView
           /\ Send([type |-> "vote", block |-> id(block), view |-> block.view, sender |-> n, to |-> to])
           /\ UNCHANGED << current_view, local_high_qc, safe_blocks, last_view_timeout_qc >>
    BY <1>10, ApproveBlock
  <2> DEFINE m == [type |-> "vote", block |-> id(block), view |-> block.view, sender |-> n, to |-> to]
  <2>2. block \in Blocks
    BY <1>0 DEF TypeOK
  <2>3. m \in Votes /\ m.type = "vote"
    BY <2>1, <2>2, VoteTypes
  <2>4. Send(m)
    BY <2>1
  <2> HIDE DEF m
  <2> QED BY <1>9, <2>1, <2>3, <2>4
<1>11. CASE forward_vote(n)
  <2>1. PICK f \in Votes : Send(f) /\ UNCHANGED node_vars
    BY <1>11, ForwardVote
  <2> QED BY <1>9, <2>1, MessageTypes DEF node_vars
<1>12. CASE forward_new_view(n)
  <2>1. PICK m \in sent("new_view"), f \in NewViews : f.high_qc = m.high_qc /\ Send(f) /\ UNCHANGED node_vars
    BY <1>12, ForwardNewView
  <2> QED BY <1>3, <1>9, <2>1 DEF node_vars
<1>13. CASE local_timeout(n)
  <2>1. /\ UNCHANGED local_high_qc
        /\ UNCHANGED msgs \/ \E f \in Timeouts : f.high_qc = local_high_qc[n] /\ Send(f)
    BY <1>13, LocalTimeout
  <2> QED BY <1>3, <1>9, <2>1
<1>14. CASE timeout_detected(n)
  <2>1. PICK f \in TimeoutQcs : OfBlock(f.high_qc) /\ Send(f) /\ UNCHANGED node_vars
    BY <1>14, TimeoutDetected
  <2> QED BY <1>2, <1>9, <2>1 DEF node_vars
<1>15. CASE propose_block(n)
  <2>1. PICK block \in Blocks :
           /\ Send([type |-> "block", block |-> block]) /\ UNCHANGED node_vars
           /\ OfBlock(high_qc(block.qc))
    BY <1>15, ProposeBlock
  <2>2. /\ known_blocks' = known_blocks \cup {block}
        /\ \A type : type # "block" => sent(type)' = sent(type)
    BY <2>1, Proposal
  <2>3. Of(high_qc(block.qc))
    BY <1>2, <2>1
  <2>4. Blocks_ok
    BY <1>3, <2>2, <2>3
  <2>5. Nodes_ok
    BY <1>3, <2>1 DEF node_vars
  <2> QED BY <1>1, <1>3, <2>2, <2>4, <2>5
<1> QED BY <1>6, <1>7, <1>8, <1>10, <1>11, <1>12, <1>13, <1>14, <1>15 DEF Step

LEMMA StructureStep ==
  ASSUME Structure, Local, NEW n \in Nodes, Step(n)
  PROVE  Structure'
  BY TypeStep, QcsStep, BlocksStep DEF Structure

LEMMA WellFoundedGrows ==
  ASSUME NEW blocks, WellFounded(blocks), \A b \in blocks : parent(b) \in ids(blocks),
         NEW block, id(block) \notin ids(blocks), parent(block) \in ids(blocks)
  PROVE  WellFounded(blocks \cup {block})
<1> SUFFICES ASSUME NEW B \in (SUBSET (blocks \cup {block})) \ {{}}
             PROVE  \E b \in B : b = genesis_block \/ parent(b) \notin ids(B)
  BY DEF WellFounded
<1>1. CASE B \subseteq {block}
  BY <1>1 DEF ids
<1>2. CASE ~ B \subseteq {block}
  <2>1. B \ {block} \in (SUBSET blocks) \ {{}}
    BY <1>2
  <2>2. PICK b \in B \ {block} : b = genesis_block \/ parent(b) \notin ids(B \ {block})
    BY <2>1 DEF WellFounded
  <2>3. parent(b) # id(block)
    BY <2>1
  <2> QED BY <2>2, <2>3 DEF ids
<1> QED BY <1>1, <1>2

LEMMA SafeStep ==
  ASSUME Structure, Local, NEW n \in Nodes, Step(n)
  PROVE  SafeOK'
<1>0. TypeOK /\ SafeOK
  BY DEF Structure, Local
<1>1. CASE UNCHANGED safe_blocks
  BY <1>0, <1>1, Grows DEF SafeOK
<1>2. CASE receive_block(n)
  <2>1. PICK block \in proposed :
           /\ parent(block) \in ids(safe_blocks[n])
           /\ id(block) \notin ids(safe_blocks[n])
           /\ safe_blocks' = [safe_blocks EXCEPT ![n] = @ \cup {block}]
    BY <1>2, ReceiveBlock
  <2>2. block \in known_blocks' /\ known_blocks \subseteq known_blocks'
    BY Grows DEF known_blocks
  <2>3. safe_blocks'[n] = safe_blocks[n] \cup {block}
    BY <1>0, <2>1 DEF TypeOK
  <2>4. WellFounded(safe_blocks'[n])
    BY <1>0, <2>1, <2>3, WellFoundedGrows DEF SafeOK
  <2>5. \A b \in safe_blocks'[n] : parent(b) \in ids(safe_blocks'[n])
    BY <1>0, <2>1, <2>3 DEF SafeOK, ids
  <2>6. genesis_block \in safe_blocks'[n] /\ safe_blocks'[n] \subseteq known_blocks'
    BY <1>0, <2>2, <2>3 DEF SafeOK
  <2>7. ASSUME NEW i \in Nodes, i # n PROVE safe_blocks'[i] = safe_blocks[i]
    BY <1>0, <2>1, <2>7 DEF TypeOK
  <2>8. ASSUME NEW i \in Nodes
        PROVE  /\ genesis_block \in safe_blocks'[i] /\ safe_blocks'[i] \subseteq known_blocks'
               /\ \A b \in safe_blocks'[i] : parent(b) \in ids(safe_blocks'[i])
               /\ WellFounded(safe_blocks'[i])
    <3>1. CASE i = n
      BY <2>4, <2>5, <2>6, <3>1
    <3>2. CASE i # n
      BY <1>0, <2>2, <2>7, <3>2 DEF SafeOK
    <3> QED BY <3>1, <3>2
  <2> QED BY <2>8 DEF SafeOK, WellFounded, ids
<1>3. receive_block(n) \/ UNCHANGED safe_blocks
  BY ApproveBlock, ForwardVote, ForwardNewView, ProposeBlock, LocalTimeout, TimeoutDetected,
     ReceiveTimeoutQc, ApproveNewView DEF Step, node_vars
<1> QED BY <1>1, <1>2, <1>3

\* The messages of a step: none, or one.
LEMMA NewMessages ==
  ASSUME Structure, Local, NEW n \in Nodes, Step(n)
  PROVE  \/ UNCHANGED msgs
         \/ \E f \in Proposals \cup Timeouts \cup TimeoutQcs : Send(f)
         \/ approve_block(n)
         \/ \E m \in sent("vote"), f \in Votes :
              /\ f.sender = m.sender /\ f.block = m.block /\ f.view = m.view
              /\ f.sender \in Electors /\ Send(f) /\ UNCHANGED node_vars
         \/ \E m \in sent("new_view"), f \in NewViews :
              /\ f.sender = m.sender /\ f.high_qc = m.high_qc /\ f.view = m.view
              /\ f.sender \in Electors /\ Send(f) /\ UNCHANGED node_vars
         \/ approve_new_view(n)
<1>1. CASE receive_block(n)
  BY <1>1, ReceiveBlock
<1>2. CASE propose_block(n)
  <2>1. PICK block \in Blocks : Send([type |-> "block", block |-> block])
    BY <1>2, ProposeBlock
  <2>2. [type |-> "block", block |-> block] \in Proposals
    BY DEF Proposals
  <2> QED BY <2>1, <2>2
<1>3. CASE local_timeout(n)
  BY <1>3, LocalTimeout
<1>4. CASE timeout_detected(n)
  BY <1>4, TimeoutDetected
<1>5. CASE receive_timeout_qc(n)
  BY <1>5, ReceiveTimeoutQc
<1>6. CASE forward_vote(n)
  BY <1>6, ForwardVote
<1>7. CASE forward_new_view(n)
  BY <1>7, ForwardNewView
<1> QED BY <1>1, <1>2, <1>3, <1>4, <1>5, <1>6, <1>7 DEF Step

\* A vote is an old one, a copy of an old one, or the node's own for a safe block.
LEMMA NewVotes ==
  ASSUME Structure, Local, NEW n \in Nodes, Step(n), NEW m \in sent("vote")', m \notin sent("vote")
  PROVE  \/ /\ m.sender \in Electors
            /\ \E old \in sent("vote") : m.sender = old.sender /\ m.block = old.block /\ m.view = old.view
         \/ /\ m.sender = n /\ Routed(m)
            /\ \E block \in safe_blocks[n] :
                 /\ m.block = id(block) /\ m.view = block.view
                 /\ highest_voted_view[n] < block.view
<1>0. TypeOK
  BY DEF Structure
<1>1. \A f : Send(f) => m = f /\ f.type = "vote"
  BY Sends
<1>2. ~ UNCHANGED msgs
  BY Unsent
<1>3. ~ \E f \in Proposals \cup Timeouts \cup TimeoutQcs \cup NewViews : Send(f)
  BY <1>1, MessageTypes
<1>4. CASE approve_block(n)
  <2>1. PICK block \in safe_blocks[n], to \in SUBSET Nodes :
           /\ block.view \in 1 .. MaxView /\ highest_voted_view[n] < block.view
           /\ Send([type |-> "vote", block |-> id(block), view |-> block.view, sender |-> n, to |-> to])
           /\ \A d \in to : n \in Electors \/ n \in childs[d]
    BY <1>4, ApproveBlock
  <2>2. m = [type |-> "vote", block |-> id(block), view |-> block.view, sender |-> n, to |-> to]
    BY <1>1, <2>1
  <2>3. block \in Blocks
    BY <1>0 DEF TypeOK
  <2>4. m.block = id(block) /\ m.view = block.view /\ m.sender = n /\ m.to = to
    BY <2>1, <2>2, <2>3, VoteTypes
  <2> QED BY <2>1, <2>4 DEF Routed
<1>5. CASE \E old \in sent("vote"), f \in Votes :
              /\ f.sender = old.sender /\ f.block = old.block /\ f.view = old.view
              /\ f.sender \in Electors /\ Send(f)
  BY <1>1, <1>5
<1>6. CASE approve_new_view(n)
  BY <1>3, <1>6, ApproveNewView
<1> QED BY <1>2, <1>3, <1>4, <1>5, <1>6, NewMessages

LEMMA NewNewViews ==
  ASSUME Structure, Local, NEW n \in Nodes, Step(n), NEW m \in sent("new_view")', m \notin sent("new_view")
  PROVE  \/ /\ m.sender \in Electors
            /\ \E old \in sent("new_view") :
                 m.sender = old.sender /\ m.high_qc = old.high_qc /\ m.view = old.view
         \/ /\ m.sender = n /\ Routed(m)
            /\ m.high_qc = local_high_qc'[n] /\ local_high_qc'[n].view >= local_high_qc[n].view
            /\ highest_voted_view[n] < m.view /\ Past(n, m.view)'
<1>0. TypeOK
  BY DEF Structure
<1>1. \A f : Send(f) => m = f /\ f.type = "new_view"
  BY Sends
<1>2. ~ UNCHANGED msgs
  BY Unsent
<1>3. ~ \E f \in Proposals \cup Timeouts \cup TimeoutQcs \cup Votes : Send(f)
  BY <1>1, MessageTypes
<1>4. ~ approve_block(n)
  <2> SUFFICES ASSUME approve_block(n) PROVE FALSE
    OBVIOUS
  <2>1. PICK block, to :
           Send([type |-> "vote", block |-> id(block), view |-> block.view, sender |-> n, to |-> to])
    BY ApproveBlock
  <2> QED BY <1>1, <2>1
<1>5. CASE \E old \in sent("new_view"), f \in NewViews :
              /\ f.sender = old.sender /\ f.high_qc = old.high_qc /\ f.view = old.view
              /\ f.sender \in Electors /\ Send(f)
  BY <1>1, <1>5
<1>6. CASE approve_new_view(n)
  <2>1. PICK f \in NewViews :
           /\ f.sender = n /\ f.high_qc = local_high_qc'[n] /\ Send(f)
           /\ local_high_qc'[n].view >= local_high_qc[n].view
           /\ current_view[n] >= f.view /\ highest_voted_view[n] < f.view
           /\ current_view'[n] \in Nat /\ current_view'[n] >= current_view[n]
           /\ highest_voted_view' = [highest_voted_view EXCEPT ![n] = f.view]
           /\ \A d \in f.to : n \in Electors \/ n \in childs[d]
    BY <1>6, ApproveNewView
  <2>2. m = f /\ f.view \in Nat
    BY <1>1, <2>1, OverlayAssumption DEF NewViews
  <2>3. highest_voted_view'[n] = f.view
    BY <1>0, <2>1 DEF TypeOK
  <2>4. Past(n, m.view)'
    BY <1>0, <2>1, <2>2, <2>3 DEF Past, TypeOK
  <2> QED BY <2>1, <2>2, <2>4 DEF Routed
<1> QED BY <1>2, <1>3, <1>4, <1>5, <1>6, NewMessages

LEMMA LocalStep ==
  ASSUME Structure, Local, NEW n \in Nodes, Step(n)
  PROVE  Local'
<1>0. TypeOK /\ VotesOK /\ NewViewsOK
  BY DEF Structure, Local
<1>1. ASSUME NEW m \in sent("vote")'
      PROVE  \/ m.block = id(genesis_block)
             \/ Routed(m) /\ \E b \in safe_blocks'[m.sender] : m.block = id(b) /\ m.view = b.view
  <2>1. \A old \in sent("vote") : old.sender \in Nodes
    BY <1>0, SentTypes DEF Votes
  <2>2. CASE m \in sent("vote")
    BY <1>0, <2>1, <2>2, Grows DEF VotesOK
  <2>3. CASE \E old \in sent("vote") : /\ m.sender = old.sender /\ m.block = old.block /\ m.view = old.view
                                      /\ m.sender \in Electors
    BY <1>0, <2>1, <2>3, Grows DEF VotesOK, Routed
  <2>4. CASE /\ m.sender = n /\ Routed(m)
             /\ \E block \in safe_blocks[n] : m.block = id(block) /\ m.view = block.view
    BY <2>4, Grows
  <2> QED BY <2>2, <2>3, <2>4, NewVotes
<1>2. ASSUME NEW m \in sent("new_view")'
      PROVE  Past(m.sender, m.view)' /\ Routed(m)
  <2>1. \A old \in sent("new_view") : old.sender \in Nodes /\ old.view \in Int
    BY <1>0, SentTypes DEF NewViews
  <2>2. CASE m \in sent("new_view")
    BY <1>0, <2>1, <2>2, Grows DEF NewViewsOK
  <2>3. CASE \E old \in sent("new_view") : m.sender = old.sender /\ m.view = old.view /\ m.sender \in Electors
    BY <1>0, <2>1, <2>3, Grows DEF NewViewsOK, Routed
  <2>4. CASE m.sender = n /\ Routed(m) /\ Past(n, m.view)'
    BY <2>4
  <2> QED BY <2>2, <2>3, <2>4, NewNewViews
<1> QED BY <1>1, <1>2, SafeStep DEF Local, VotesOK, NewViewsOK, Routed

---------------------------------------------------------------------------
(* How votes and view changes constrain the QCs of later blocks.           *)

Voted(n, b) == \E m \in sent("vote") : m.sender = n /\ m.block = id(b)

\* So many electors are past the view of b, without a vote for b, that no quorum votes for b any more.
Uncertifiable(b) ==
  \E S \in SUBSET Electors :
    /\ Cardinality(S) + threshold > Cardinality(Electors)
    /\ \A n \in S : Past(n, b.view) /\ ~ Voted(n, b)

(***************************************************************************)
(* Each run of consecutive standard blocks starts from its anchor: genesis,*)
(* or a block proposed after a failed view.                                *)
(***************************************************************************)
Anchors(blocks) == { a \in blocks : a = genesis_block \/ ~ Standard(a) }

\* The run of b starts from a: a view between them without a standard block would start another.
AnchorOf(a, b, blocks) ==
  /\ a \in Anchors(blocks) /\ a.view <= b.view
  /\ \A view \in a.view + 1 .. b.view : \E c \in blocks : c.view = view /\ Standard(c)

\* To whom a block is safe, so is its anchor.
AnchorsSafe ==
  \A b \in known_blocks : \E a \in known_blocks :
    AnchorOf(a, b, known_blocks) /\ \A n \in Nodes : b \in safe_blocks[n] => a \in safe_blocks[n]

\* What holds of an elector whose new view led to the anchor a.
Follows(n, a) ==
  /\ a # genesis_block => Past(n, a.view - 1)
  /\ a \in safe_blocks[n] => current_view[n] >= a.view
  /\ \A b \in known_blocks : AnchorOf(a, b, known_blocks) =>
       /\ b \in safe_blocks[n] /\ local_high_qc[n].view < QcView(b) => Uncertifiable(b)
       /\ \A m \in sent("new_view") :
            m.sender = n /\ m.view >= b.view /\ Voted(n, b) /\ m.high_qc.view < QcView(b) => Uncertifiable(b)

\* An aggregate QC stands on the new views of a quorum, genesis on everybody.
IsQuorum(Q) == Q = Electors \/ Cardinality(Q) >= threshold

AnchorQuorums ==
  \A a \in Anchors(known_blocks) : \E Q \in SUBSET Electors : IsQuorum(Q) /\ \A n \in Q : Follows(n, a)

\* Only what is uncertifiable is passed over by a later block with a lower QC.
LowQcs ==
  \A b \in proposed :
    /\ QcView(b) >= b.view => Uncertifiable(b)
    /\ \A later \in known_blocks : later.view > b.view /\ QcView(later) < QcView(b) => Uncertifiable(b)

Voting == AnchorsSafe /\ AnchorQuorums /\ LowQcs

OneBlockAView(blocks) ==
  /\ genesis_block \in blocks
  /\ \A b \in blocks : b.view \in Nat
  /\ \A b, c \in blocks : b.view = c.view => b = c

LEMMA OneKnownBlockAView ==
  ASSUME Structure
  PROVE  OneBlockAView(known_blocks)
  BY KnownBlocks, KnownTypes, OverlayAssumption DEF OneBlockAView, Structure

LEMMA AnchorUnique ==
  ASSUME NEW blocks, OneBlockAView(blocks), NEW a, NEW c, NEW b \in blocks,
         AnchorOf(a, b, blocks), AnchorOf(c, b, blocks)
  PROVE  a = c
<1>1. a \in blocks /\ c \in blocks /\ a.view \in Nat /\ c.view \in Nat /\ b.view \in Nat
  BY DEF AnchorOf, Anchors, OneBlockAView
<1>2. ASSUME NEW x, NEW y, AnchorOf(x, b, blocks), AnchorOf(y, b, blocks), x.view < y.view PROVE FALSE
  <2>1. x \in blocks /\ y \in blocks /\ x.view \in Nat /\ y.view \in Nat
    BY <1>2 DEF AnchorOf, Anchors, OneBlockAView
  <2>2. y.view \in x.view + 1 .. b.view
    BY <1>1, <1>2, <2>1 DEF AnchorOf
  <2>3. PICK d \in blocks : d.view = y.view /\ Standard(d)
    BY <1>2, <2>2 DEF AnchorOf
  <2>4. d = y
    BY <2>1, <2>3 DEF OneBlockAView
  <2>5. y = genesis_block
    BY <1>2, <2>3, <2>4 DEF AnchorOf, Anchors
  <2> QED BY <1>2, <2>1, <2>5, GenesisTypes
<1>3. a.view = c.view
  BY <1>1, <1>2
<1> QED BY <1>1, <1>3 DEF OneBlockAView

LEMMA UncertifiableStays ==
  ASSUME Structure, Local, NEW n \in Nodes, Step(n), NEW b \in known_blocks, Uncertifiable(b)
  PROVE  Uncertifiable(b)'
<1>1. PICK S \in SUBSET Electors : /\ Cardinality(S) + threshold > Cardinality(Electors)
                                  /\ \A i \in S : Past(i, b.view) /\ ~ Voted(i, b)
  BY DEF Uncertifiable
<1>2. b.view \in Int
  BY KnownBlocks, OverlayAssumption
<1>3. ASSUME NEW i \in S PROVE Past(i, b.view)' /\ ~ Voted(i, b)'
  <2>1. i \in Nodes
    BY OverlayAssumption DEF Electors
  <2>2. Past(i, b.view)'
    BY <1>1, <1>2, <2>1, Grows
  <2>3. ASSUME NEW m \in sent("vote")', m.sender = i, m.block = id(b) PROVE FALSE
    <3>1. m \notin sent("vote") /\ ~ \E old \in sent("vote") : m.sender = old.sender /\ m.block = old.block
      BY <1>1, <2>3 DEF Voted
    <3>2. PICK block \in safe_blocks[n] : /\ m.sender = n /\ m.block = id(block)
                                         /\ highest_voted_view[n] < block.view
      BY <3>1, NewVotes
    <3>3. block.view = b.view
      BY <2>3, <3>2 DEF id
    <3> QED BY <1>1, <1>2, <2>1, <2>3, <3>2, <3>3 DEF Past, Structure, TypeOK
  <2> QED BY <2>2, <2>3 DEF Voted
<1> QED BY <1>1, <1>3 DEF Uncertifiable

LEMMA AnchorStays ==
  ASSUME NEW blocks, NEW more, blocks \subseteq more, NEW a, NEW b, AnchorOf(a, b, blocks)
  PROVE  AnchorOf(a, b, more)
  BY DEF AnchorOf, Anchors

\* A standard block has the anchor of its parent.
LEMMA AnchorOfParent ==
  ASSUME Structure, NEW b \in proposed, Standard(b), NEW a, AnchorOf(a, b, known_blocks),
         NEW c \in known_blocks, parent(b) = id(c)
  PROVE  AnchorOf(a, c, known_blocks)
<1>1. c.view = b.view - 1
  BY StandardParent, KnownBlocks
<1>2. b \in known_blocks /\ b # genesis_block /\ b.view \in Nat /\ c.view \in Nat
  BY KnownBlocks, OverlayAssumption DEF known_blocks
<1>3. a \in known_blocks /\ a.view \in Nat /\ a # b /\ a.view # b.view
  <2>1. a \in known_blocks /\ a # b
    BY <1>2 DEF AnchorOf, Anchors
  <2> QED BY <1>2, <2>1, KnownBlocks, OverlayAssumption
<1> QED BY <1>1, <1>2, <1>3 DEF AnchorOf

LEMMA AnchorsStep ==
  ASSUME Structure, Local, AnchorsSafe, NEW n \in Nodes, Step(n)
  PROVE  AnchorsSafe'
<1>0. SafeOK /\ TypeOK
  BY DEF Local, Structure
<1>1. CASE propose_block(n)
  <2>1. PICK block \in Blocks :
           /\ Send([type |-> "block", block |-> block]) /\ UNCHANGED node_vars
           /\ block.view \in 1 .. MaxView /\ block.qc.view = block.view - 1
           /\ \A b \in known_blocks : b.view # block.view
           /\ Standard(block) => \E c \in known_blocks : block.qc = StandardQc(id(c), c.view)
    BY <1>1, ProposeBlock
  <2>2. known_blocks' = known_blocks \cup {block} /\ UNCHANGED safe_blocks
    BY <2>1, Proposal DEF node_vars
  <2>3. ASSUME NEW b \in known_blocks
        PROVE  \E a \in known_blocks' :
                 AnchorOf(a, b, known_blocks') /\ \A i \in Nodes : b \in safe_blocks'[i] => a \in safe_blocks'[i]
    BY <2>2, AnchorStays DEF AnchorsSafe
  <2>4. \A i \in Nodes : block \notin safe_blocks'[i]
    BY <1>0, <2>1, <2>2 DEF SafeOK
  <2>5. \E a \in known_blocks' : AnchorOf(a, block, known_blocks')
    <3>1. CASE ~ Standard(block)
      <4>1. block.view \in Nat
        BY <2>1, OverlayAssumption
      <4> QED BY <2>2, <3>1, <4>1 DEF AnchorOf, Anchors
    <3>2. CASE Standard(block)
      <4>1. PICK c \in known_blocks : block.qc = StandardQc(id(c), c.view)
        BY <2>1, <3>2
      <4>2. c.view = block.view - 1
        BY <2>1, <4>1 DEF StandardQc
      <4>3. PICK a \in known_blocks : AnchorOf(a, c, known_blocks)
        BY DEF AnchorsSafe
      <4>4. AnchorOf(a, c, known_blocks')
        BY <2>2, <4>3, AnchorStays
      <4>5. a.view \in Nat /\ block.view \in Nat
        BY KnownBlocks, <2>1, OverlayAssumption
      <4>6. ASSUME NEW view \in a.view + 1 .. block.view
            PROVE  \E d \in known_blocks' : d.view = view /\ Standard(d)
        <5>1. CASE view = block.view
          BY <2>2, <3>2, <5>1
        <5>2. CASE view # block.view
          <6>1. view \in a.view + 1 .. c.view
            BY <4>2, <4>5, <5>2
          <6> QED BY <4>4, <6>1 DEF AnchorOf
        <5> QED BY <5>1, <5>2
      <4>7. a \in Anchors(known_blocks') /\ a.view <= block.view
        BY <4>2, <4>4, <4>5 DEF AnchorOf
      <4> QED BY <2>2, <4>3, <4>6, <4>7 DEF AnchorOf
    <3> QED BY <3>1, <3>2
  <2>6. \A b \in known_blocks' : \E a \in known_blocks' :
          AnchorOf(a, b, known_blocks') /\ \A i \in Nodes : b \in safe_blocks'[i] => a \in safe_blocks'[i]
    <3>1. ASSUME NEW b \in known_blocks', b \notin known_blocks
          PROVE  \E a \in known_blocks' :
                   AnchorOf(a, b, known_blocks') /\ \A i \in Nodes : b \in safe_blocks'[i] => a \in safe_blocks'[i]
      <4>1. b = block
        BY <2>2, <3>1
      <4> QED BY <2>4, <2>5, <4>1
    <3> QED BY <2>3, <3>1
  <2> QED BY <2>6 DEF AnchorsSafe
<1>2. CASE UNCHANGED safe_blocks /\ ~ propose_block(n)
  <2>1. known_blocks' = known_blocks
    BY <1>2, Grows
  <2> QED BY <1>2, <2>1 DEF AnchorsSafe
<1>3. CASE receive_block(n) /\ ~ propose_block(n)
  <2>0. known_blocks' = known_blocks
    BY <1>3, Grows
  <2>1. PICK block \in proposed :
           /\ parent(block) \in ids(safe_blocks[n])
           /\ safe_blocks' = [safe_blocks EXCEPT ![n] = @ \cup {block}]
    BY <1>3, ReceiveBlock
  <2>2. safe_blocks'[n] = safe_blocks[n] \cup {block}
    BY <1>0, <2>1 DEF TypeOK
  <2>3. \A i \in Nodes : i # n => safe_blocks'[i] = safe_blocks[i]
    BY <1>0, <2>1 DEF TypeOK
  <2>4. block \in known_blocks /\ OneBlockAView(known_blocks)
    BY OneKnownBlockAView DEF known_blocks
  <2>5. ASSUME NEW a, AnchorOf(a, block, known_blocks) PROVE a \in safe_blocks'[n]
    <3>1. CASE ~ Standard(block)
      <4>1. AnchorOf(block, block, known_blocks)
        BY <2>4, <3>1 DEF AnchorOf, Anchors, OneBlockAView
      <4> QED BY <2>2, <2>4, <2>5, <4>1, AnchorUnique
    <3>2. CASE Standard(block)
      <4>1. PICK c \in safe_blocks[n] : parent(block) = id(c)
        BY <2>1 DEF ids
      <4>2. c \in known_blocks
        BY <1>0 DEF SafeOK
      <4>3. AnchorOf(a, c, known_blocks)
        BY <2>5, <3>2, <4>1, <4>2, AnchorOfParent
      <4>4. PICK x \in known_blocks : AnchorOf(x, c, known_blocks) /\ x \in safe_blocks[n]
        BY <4>1, <4>2 DEF AnchorsSafe
      <4> QED BY <2>2, <2>4, <4>2, <4>3, <4>4, AnchorUnique
    <3> QED BY <3>1, <3>2
  <2>6. ASSUME NEW b \in known_blocks
        PROVE  \E a \in known_blocks :
                 AnchorOf(a, b, known_blocks) /\ \A i \in Nodes : b \in safe_blocks'[i] => a \in safe_blocks'[i]
    <3>1. PICK a \in known_blocks :
            AnchorOf(a, b, known_blocks) /\ \A i \in Nodes : b \in safe_blocks[i] => a \in safe_blocks[i]
      BY DEF AnchorsSafe
    <3>2. ASSUME NEW i \in Nodes, b \in safe_blocks'[i] PROVE a \in safe_blocks'[i]
      BY <2>2, <2>3, <2>5, <3>1, <3>2
    <3> QED BY <3>1, <3>2
  <2>7. \A b \in known_blocks' : \E a \in known_blocks' :
          AnchorOf(a, b, known_blocks') /\ \A i \in Nodes : b \in safe_blocks'[i] => a \in safe_blocks'[i]
    BY <2>0, <2>6
  <2> QED BY <2>7 DEF AnchorsSafe
<1>4. receive_block(n) \/ UNCHANGED safe_blocks
  BY ApproveBlock, ForwardVote, ForwardNewView, ProposeBlock, LocalTimeout, TimeoutDetected,
     ReceiveTimeoutQc, ApproveNewView DEF Step, node_vars
<1> QED BY <1>1, <1>2, <1>3, <1>4

(***************************************************************************)
(* A view without a block that a block of a later view has already passed: *)
(* the quorum that led to the later block's anchor is past it.             *)
(***************************************************************************)
LEMMA LateView ==
  ASSUME Structure, Voting, NEW view \in Nat \ {0}, \A c \in known_blocks : c.view # view,
         NEW b \in known_blocks, b.view > view
  PROVE  \E Q \in SUBSET Electors : IsQuorum(Q) /\ \A n \in Q : Past(n, view)
<1>1. PICK a \in known_blocks : AnchorOf(a, b, known_blocks)
  BY DEF Voting, AnchorsSafe
<1>2. a.view \in Nat /\ b.view \in Nat /\ a.view # view
  BY KnownBlocks, OverlayAssumption
<1>3. a.view > view
  <2> SUFFICES ASSUME a.view < view PROVE FALSE
    BY <1>2
  <2>1. view \in a.view + 1 .. b.view
    BY <1>2
  <2> QED BY <1>1, <2>1 DEF AnchorOf
<1>4. PICK Q \in SUBSET Electors : IsQuorum(Q) /\ \A n \in Q : Follows(n, a)
  BY <1>1 DEF Voting, AnchorQuorums, AnchorOf
<1>5. a # genesis_block
  BY <1>3, GenesisTypes
<1>6. ASSUME NEW n \in Q PROVE Past(n, view)
  <2>1. n \in Nodes
    BY OverlayAssumption DEF Electors
  <2>2. Past(n, a.view - 1)
    BY <1>4, <1>5 DEF Follows
  <2> QED BY <1>2, <1>3, <2>1, <2>2 DEF Past, Structure, TypeOK
<1> QED BY <1>4, <1>6

\* An aggregate lowers no high QC below that of a block it is safe beside, unless that is uncertifiable.
LEMMA LoweredQc ==
  ASSUME Structure, Local, Voting, NEW n \in Electors, receive_block(n),
         NEW a \in known_blocks, Follows(n, a),
         NEW b \in safe_blocks[n], AnchorOf(a, b, known_blocks),
         local_high_qc'[n].view < QcView(b)
  PROVE  Uncertifiable(b)
<1>1. n \in Nodes
  BY OverlayAssumption DEF Electors
<1>2. PICK x \in proposed :
         /\ id(x) \notin ids(safe_blocks[n]) /\ x.view >= current_view[n]
         /\ local_high_qc' = [local_high_qc EXCEPT ![n] = raised(@, x.qc)]
  BY <1>1, ReceiveBlock
<1>3. /\ x \in known_blocks /\ x \in Blocks /\ x.view \in Nat /\ b \in known_blocks /\ b \in Blocks
      /\ b.view \in Nat /\ a.view \in Nat /\ b # x /\ current_view[n] \in Nat
  <2>1. x \in known_blocks /\ b \in known_blocks
    BY <1>1 DEF known_blocks, Local, SafeOK
  <2>2. b # x
    BY <1>2 DEF ids
  <2>3. x \in Blocks /\ b \in Blocks
    BY <2>1, KnownTypes DEF Structure
  <2>4. x.view \in Nat /\ b.view \in Nat /\ a.view \in Nat
    BY <2>1, KnownBlocks, OverlayAssumption
  <2> QED BY <1>1, <2>1, <2>2, <2>3, <2>4 DEF Structure, TypeOK
<1>4. local_high_qc'[n] = raised(local_high_qc[n], x.qc) /\ local_high_qc[n] \in StandardQcs
  BY <1>1, <1>2 DEF Structure, TypeOK
<1>5. /\ local_high_qc[n].view \in Nat /\ local_high_qc'[n].view \in Nat /\ QcView(x) \in Nat /\ QcView(b) \in Nat
      /\ Standard(x) => local_high_qc'[n].view >= local_high_qc[n].view
      /\ ~ Standard(x) => local_high_qc'[n].view = QcView(x)
  <2>1. x.qc \in StandardQcs \cup AggregateQcs /\ QcView(x) \in Nat /\ QcView(b) \in Nat
    BY <1>3, BlockTypes DEF QcView
  <2>2. /\ raised(local_high_qc[n], x.qc) \in StandardQcs
        /\ Standard(x) => raised(local_high_qc[n], x.qc).view >= local_high_qc[n].view
        /\ ~ Standard(x) => raised(local_high_qc[n], x.qc).view = QcView(x)
    BY <1>4, <2>1, Raised DEF Standard, QcView
  <2>3. local_high_qc[n].view \in Nat /\ local_high_qc'[n].view \in Nat
    BY <1>4, <2>2, QcTypes
  <2> QED BY <1>4, <2>1, <2>2, <2>3
<1>6. CASE local_high_qc[n].view < QcView(b)
  BY <1>3, <1>6 DEF Follows
<1>7. CASE ~ local_high_qc[n].view < QcView(b)
  <2>1. ~ Standard(x) /\ QcView(x) < QcView(b)
    BY <1>5, <1>7
  <2>2. CASE x.view > b.view
    <3>1. b \in proposed
      <4>1. b # genesis_block
        BY <1>5, <2>1, GenesisTypes, QcTypes DEF QcView
      <4> QED BY <1>3, <4>1 DEF known_blocks
    <3> QED BY <1>3, <2>1, <2>2, <3>1 DEF Voting, LowQcs
  <2>3. CASE x.view <= b.view
    <3>1. AnchorOf(x, x, known_blocks) /\ x \in Anchors(known_blocks)
      BY <1>3, <2>1 DEF AnchorOf, Anchors
    <3>2. a \in safe_blocks[n]
      <4>1. PICK c \in known_blocks : AnchorOf(c, b, known_blocks) /\ c \in safe_blocks[n]
        BY <1>1, <1>3 DEF Voting, AnchorsSafe
      <4> QED BY <1>3, <4>1, AnchorUnique, OneKnownBlockAView
    <3>3. a # x
      BY <1>2, <3>2 DEF ids
    <3>4. x.view < a.view
      <4>1. CASE x.view > a.view
        <5>1. x.view \in a.view + 1 .. b.view
          BY <1>3, <2>3, <4>1
        <5>2. PICK d \in known_blocks : d.view = x.view /\ Standard(d)
          BY <5>1 DEF AnchorOf
        <5> QED BY <1>3, <2>1, <5>2, KnownBlocks
      <4>2. CASE x.view = a.view
        BY <1>3, <3>3, <4>2, KnownBlocks
      <4> QED BY <1>3, <4>1, <4>2
    <3>5. current_view[n] >= a.view
      BY <3>2 DEF Follows
    <3> QED BY <1>2, <1>3, <3>4, <3>5
  <2> QED BY <1>3, <2>2, <2>3
<1> QED BY <1>6, <1>7

LEMMA HighQcOf ==
  ASSUME Structure, Local, NEW n \in Nodes, Step(n), NEW i \in Nodes
  PROVE  /\ local_high_qc[i].view \in Nat /\ local_high_qc'[i].view \in Nat
         /\ \/ local_high_qc'[i].view >= local_high_qc[i].view
            \/ i = n /\ receive_block(n)
<1>0. TypeOK /\ TypeOK'
  BY TypeStep DEF Structure
<1>1. local_high_qc[i] \in StandardQcs /\ local_high_qc'[i] \in StandardQcs
  BY <1>0 DEF TypeOK
<1>2. local_high_qc[i].view \in Nat /\ local_high_qc'[i].view \in Nat
  BY <1>1, QcTypes
<1>3. CASE UNCHANGED local_high_qc
  BY <1>2, <1>3
<1>4. CASE receive_block(n)
  <2>1. i # n => local_high_qc'[i] = local_high_qc[i]
    BY <1>0, <1>4, ReceiveBlock DEF TypeOK
  <2> QED BY <1>2, <1>4, <2>1
<1>5. CASE receive_timeout_qc(n)
  <2>1. PICK m \in sent("timeout_qc") : local_high_qc' = [local_high_qc EXCEPT ![n] = raised(@, m.high_qc)]
    BY <1>5, ReceiveTimeoutQc
  <2>2. m.high_qc \in StandardQcs
    BY <1>0, SentTypes DEF TimeoutQcs
  <2>3. is_standard(m.high_qc) /\ local_high_qc[n] \in StandardQcs
    BY <1>0, <2>2, QcTypes DEF TypeOK
  <2>4. raised(local_high_qc[n], m.high_qc).view >= local_high_qc[n].view
    BY <2>2, <2>3, Raised
  <2>5. CASE i = n
    <3>1. local_high_qc'[i] = raised(local_high_qc[n], m.high_qc)
      BY <1>0, <2>1, <2>5 DEF TypeOK
    <3> QED BY <1>2, <2>4, <2>5, <3>1
  <2>6. CASE i # n
    <3>1. local_high_qc'[i] = local_high_qc[i]
      BY <1>0, <2>1, <2>6 DEF TypeOK
    <3> QED BY <1>2, <3>1
  <2> QED BY <2>5, <2>6
<1>6. CASE approve_new_view(n)
  <2>1. /\ local_high_qc'[n].view >= local_high_qc[n].view
        /\ local_high_qc' = [local_high_qc EXCEPT ![n] = local_high_qc'[n]]
    BY <1>6, ApproveNewView
  <2>2. i # n => local_high_qc'[i] = local_high_qc[i]
    BY <1>0, <2>1 DEF TypeOK
  <2> QED BY <1>2, <2>1, <2>2
<1> QED BY <1>3, <1>4, <1>5, <1>6, ApproveBlock, ForwardVote, ForwardNewView, ProposeBlock, LocalTimeout,
           TimeoutDetected DEF Step, node_vars

\* A step adds a safe block by receiving it only, and then the high QC is not below the block's.
LEMMA NewSafeBlock ==
  ASSUME Structure, Local, NEW n \in Nodes, Step(n), NEW i \in Nodes,
         NEW b \in safe_blocks'[i], b \notin safe_blocks[i]
  PROVE  /\ i = n /\ receive_block(n) /\ b \in proposed /\ b.view >= current_view[n]
         /\ local_high_qc'[n].view >= QcView(b)
         /\ current_view'[n] = view_after(current_view[n], b.qc)
<1>0. TypeOK
  BY DEF Structure
<1>1. ~ UNCHANGED safe_blocks
  OBVIOUS
<1>2. receive_block(n)
  BY <1>1, ApproveBlock, ForwardVote, ForwardNewView, ProposeBlock, LocalTimeout, TimeoutDetected,
     ReceiveTimeoutQc, ApproveNewView DEF Step, node_vars
<1>3. PICK x \in proposed :
         /\ x.view >= current_view[n]
         /\ safe_blocks' = [safe_blocks EXCEPT ![n] = @ \cup {x}]
         /\ local_high_qc' = [local_high_qc EXCEPT ![n] = raised(@, x.qc)]
         /\ current_view' = [current_view EXCEPT ![n] = view_after(@, x.qc)]
  BY <1>2, ReceiveBlock
<1>4. i = n /\ b = x
  BY <1>0, <1>3 DEF TypeOK
<1>5. b.qc \in StandardQcs \cup AggregateQcs /\ local_high_qc[n] \in StandardQcs
  BY <1>0, <1>3, <1>4, KnownTypes, BlockTypes DEF TypeOK
<1>6. local_high_qc'[n] = raised(local_high_qc[n], b.qc) /\ current_view'[n] = view_after(current_view[n], b.qc)
  BY <1>0, <1>3, <1>4 DEF TypeOK
<1>7. local_high_qc'[n].view >= QcView(b)
  BY <1>5, <1>6, Raised DEF QcView
<1> QED BY <1>2, <1>3, <1>4, <1>6, <1>7

LEMMA OneBlockStays ==
  ASSUME Structure, Local, NEW n \in Nodes, Step(n)
  PROVE  OneBlockAView(known_blocks')
<1>0. Structure'
  BY StructureStep
<1>1. genesis_block \in known_blocks' /\ \A x, y \in known_blocks' : x.view = y.view => x = y
  BY <1>0 DEF Structure, BlocksOK, known_blocks
<1>2. \A x \in known_blocks' : x.view \in Nat
  BY <1>0, GenesisTypes, OverlayAssumption DEF Structure, BlocksOK, known_blocks
<1> QED BY <1>1, <1>2 DEF OneBlockAView

\* Nobody knows a block, or has voted for it, when it is proposed.
LEMMA NewBlock ==
  ASSUME Structure, Local, NEW k \in Nodes, Step(k), NEW n \in Nodes,
         NEW b \in known_blocks', b \notin known_blocks
  PROVE  b \notin safe_blocks'[n] /\ ~ Voted(n, b)'
<1>0. SafeOK /\ Structure' /\ Local'
  BY StructureStep, LocalStep DEF Local
<1>1. b \notin safe_blocks[n]
  BY <1>0 DEF SafeOK
<1>2. b \notin safe_blocks'[n]
  BY <1>1, NewSafeBlock DEF known_blocks
<1>3. ASSUME NEW m \in sent("vote")', m.sender = n, m.block = id(b) PROVE FALSE
  <2>1. genesis_block \in known_blocks' /\ b # genesis_block
    BY DEF known_blocks
  <2>2. \A c \in known_blocks' : id(c) = id(b) => c = b
    <3>1. \A c \in known_blocks' : c.view = b.view => c = b
      BY <1>0 DEF Structure, BlocksOK
    <3> QED BY <3>1 DEF id
  <2>3. \E c \in safe_blocks'[n] : id(b) = id(c)
    BY <1>0, <1>3, <2>1, <2>2 DEF Local, VotesOK
  <2>4. safe_blocks'[n] \subseteq known_blocks'
    BY <1>0 DEF Local, SafeOK
  <2> QED BY <1>2, <2>2, <2>3, <2>4
<1> QED BY <1>2, <1>3 DEF Voted

LEMMA FollowsStep ==
  ASSUME Structure, Local, Voting, NEW k \in Nodes, Step(k),
         NEW n \in Electors, NEW a \in known_blocks, Follows(n, a)
  PROVE  Follows(n, a)'
<1>0. n \in Nodes /\ TypeOK /\ SafeOK /\ VotesOK /\ NewViewsOK
  BY OverlayAssumption DEF Electors, Structure, Local
<1>1. Structure' /\ Local' /\ a \in known_blocks'
  BY StructureStep, LocalStep, Grows
<1>2. a.view \in Nat
  BY KnownBlocks, OverlayAssumption
<1>3. a # genesis_block => Past(n, a.view - 1) /\ Past(n, a.view - 1)'
  <2>1. a.view - 1 \in Int
    BY <1>2
  <2> QED BY <1>0, <2>1, Grows DEF Follows
<1>4. ASSUME a \in safe_blocks'[n] PROVE current_view'[n] >= a.view
  <2>0. current_view[n] \in Nat /\ current_view'[n] \in Nat /\ current_view'[n] >= current_view[n]
    BY <1>0, <1>1, Grows DEF Structure, TypeOK
  <2>1. CASE a \in safe_blocks[n]
    BY <1>2, <2>0, <2>1 DEF Follows
  <2>2. CASE a \notin safe_blocks[n]
    <3>1. /\ a \in proposed /\ a.view >= current_view[n]
          /\ n = k /\ current_view'[k] = view_after(current_view[k], a.qc)
      BY <1>0, <1>4, <2>2, NewSafeBlock
    <3>2. a # genesis_block /\ a.qc.view = a.view - 1
      BY <3>1, KnownBlocks DEF Structure, BlocksOK
    <3>3. current_view[n] >= a.view - 1
      BY <1>3, <3>2 DEF Past
    <3> QED BY <1>2, <2>0, <3>1, <3>2, <3>3 DEF view_after
  <2> QED BY <2>1, <2>2
<1>5. ASSUME NEW b \in known_blocks', b \notin known_blocks
      PROVE  b \notin safe_blocks'[n] /\ ~ Voted(n, b)'
  BY <1>0, <1>5, NewBlock
<1>6. ASSUME NEW b \in known_blocks, AnchorOf(a, b, known_blocks') PROVE AnchorOf(a, b, known_blocks)
  <2>1. PICK c \in known_blocks : AnchorOf(c, b, known_blocks)
    BY DEF Voting, AnchorsSafe
  <2>2. b \in known_blocks' /\ AnchorOf(c, b, known_blocks')
    BY <2>1, Grows, AnchorStays
  <2>3. OneBlockAView(known_blocks')
    BY OneBlockStays
  <2> QED BY <1>6, <2>1, <2>2, <2>3, AnchorUnique
<1>7. ASSUME NEW b \in known_blocks, AnchorOf(a, b, known_blocks), b \in safe_blocks'[n],
             local_high_qc'[n].view < QcView(b)
      PROVE  Uncertifiable(b)
  <2>0. QcView(b) \in Nat
    BY <1>0, KnownTypes, BlockTypes DEF QcView
  <2>1. CASE b \notin safe_blocks[n]
    BY <1>0, <1>7, <2>0, <2>1, NewSafeBlock, HighQcOf
  <2>2. CASE b \in safe_blocks[n] /\ receive_block(n)
    BY <1>7, <2>2, LoweredQc
  <2>3. CASE b \in safe_blocks[n] /\ local_high_qc'[n].view >= local_high_qc[n].view
    <3>1. local_high_qc[n].view < QcView(b)
      BY <1>0, <1>7, <2>0, <2>3, HighQcOf
    <3> QED BY <1>7, <2>3, <3>1 DEF Follows
  <2> QED BY <1>0, <2>1, <2>2, <2>3, HighQcOf
<1>8. ASSUME NEW b \in known_blocks, AnchorOf(a, b, known_blocks),
             NEW m \in sent("new_view")', m.sender = n, m.view >= b.view, Voted(n, b)',
             m.high_qc.view < QcView(b)
      PROVE  Uncertifiable(b)
  <2>0. QcView(b) \in Nat /\ b.view \in Nat /\ m.view \in Nat /\ m.high_qc.view \in Nat /\ highest_voted_view[n] \in Int
    <3>1. m \in NewViews
      BY <1>1, MessageTypes DEF Structure, TypeOK, sent
    <3>2. m.view \in Nat /\ m.high_qc \in StandardQcs
      BY <3>1, OverlayAssumption DEF NewViews
    <3>3. b \in Blocks
      BY <1>0, KnownTypes
    <3> QED BY <1>0, <3>2, <3>3, BlockTypes, QcTypes DEF QcView, TypeOK
  <2>1. b # genesis_block
    BY <1>8, <2>0, GenesisTypes, QcTypes DEF QcView
  <2>2. id(b) # id(genesis_block) /\ \A c \in safe_blocks[n] : id(c) = id(b) => c = b
    BY <1>0, <2>1, KnownBlocks, KnownTypes DEF SafeOK
  <2>3. PICK v \in sent("vote")' : v.sender = n /\ v.block = id(b)
    BY <1>8 DEF Voted
  <2>4. b \in safe_blocks[n] /\ (Voted(n, b) \/ highest_voted_view[n] < b.view)
    <3>1. CASE \E old \in sent("vote") : v.sender = old.sender /\ v.block = old.block
      BY <1>0, <2>2, <2>3, <3>1 DEF VotesOK, Voted
    <3>2. CASE ~ \E old \in sent("vote") : v.sender = old.sender /\ v.block = old.block
      <4>1. v \notin sent("vote")
        BY <3>2
      <4>2. PICK block \in safe_blocks[k] : v.sender = k /\ v.block = id(block) /\ highest_voted_view[k] < block.view
        BY <3>2, <4>1, NewVotes
      <4> QED BY <2>2, <2>3, <4>2
    <3> QED BY <3>1, <3>2
  <2>5. CASE \E old \in sent("new_view") : m.sender = old.sender /\ m.high_qc = old.high_qc /\ m.view = old.view
    <3>1. PICK old \in sent("new_view") : old.sender = n /\ m.high_qc = old.high_qc /\ m.view = old.view
      BY <1>8, <2>5
    <3>2. highest_voted_view[n] >= m.view
      BY <1>0, <3>1 DEF NewViewsOK, Past
    <3>3. Voted(n, b)
      BY <1>8, <2>0, <2>4, <3>2
    <3> QED BY <1>8, <3>1, <3>3 DEF Follows
  <2>6. CASE ~ \E old \in sent("new_view") : m.sender = old.sender /\ m.high_qc = old.high_qc /\ m.view = old.view
    <3>1. m \notin sent("new_view")
      BY <2>6
    <3>2. m.sender = k /\ m.high_qc = local_high_qc'[k]
      BY <2>6, <3>1, NewNewViews
    <3>3. b \in safe_blocks'[n]
      BY <1>0, <2>4, Grows
    <3> QED BY <1>7, <1>8, <3>2, <3>3
  <2> QED BY <2>5, <2>6
<1>9. ASSUME NEW b \in known_blocks', AnchorOf(a, b, known_blocks')
      PROVE  /\ b \in safe_blocks'[n] /\ local_high_qc'[n].view < QcView(b) => Uncertifiable(b)'
             /\ \A m \in sent("new_view")' :
                  m.sender = n /\ m.view >= b.view /\ Voted(n, b)' /\ m.high_qc.view < QcView(b)
                  => Uncertifiable(b)'
  <2>1. CASE b \notin known_blocks
    BY <1>5, <2>1
  <2>2. CASE b \in known_blocks
    <3>1. AnchorOf(a, b, known_blocks)
      BY <1>6, <1>9, <2>2
    <3>2. Uncertifiable(b) => Uncertifiable(b)'
      BY <2>2, UncertifiableStays
    <3> QED BY <1>7, <1>8, <2>2, <3>1, <3>2
  <2> QED BY <2>1, <2>2
<1> QED BY <1>3, <1>4, <1>9 DEF Follows

LEMMA QuorumTypes ==
  ASSUME NEW Q \in SUBSET Electors
  PROVE  /\ Cardinality(Q) \in Nat /\ Cardinality(Electors) \in Nat /\ threshold \in Nat \ {0}
         /\ Cardinality(Q) <= Cardinality(Electors) /\ 3 * threshold > 2 * Cardinality(Electors)
         /\ IsQuorum(Q) => Cardinality(Q) + threshold > Cardinality(Electors)
<1>1. threshold \in Nat \ {0}
  BY OverlayAssumption DEF threshold
<1>2. IsFiniteSet(Electors) /\ 3 * threshold > 2 * Cardinality(Electors)
  BY ElectorsAndThreshold
<1>3. /\ Cardinality(Q) \in Nat /\ Cardinality(Electors) \in Nat
      /\ Cardinality(Q) <= Cardinality(Electors)
  BY <1>2, FS_Subset, FS_CardinalityType
<1> QED BY <1>1, <1>2, <1>3 DEF IsQuorum

LEMMA AnchorQuorumsStep ==
  ASSUME Structure, Local, Voting, NEW k \in Nodes, Step(k)
  PROVE  AnchorQuorums'
<1>0. SafeOK /\ NewViewsOK /\ Structure'
  BY StructureStep DEF Local
<1>1. ASSUME NEW a \in known_blocks, a \in Anchors(known_blocks)
      PROVE  \E Q \in SUBSET Electors : IsQuorum(Q) /\ \A n \in Q : Follows(n, a)'
  <2>1. PICK Q \in SUBSET Electors : IsQuorum(Q) /\ \A n \in Q : Follows(n, a)
    BY <1>1 DEF Voting, AnchorQuorums
  <2> QED BY <2>1, FollowsStep
<1>2. ASSUME NEW a \in Anchors(known_blocks'), a \in known_blocks
      PROVE  a \in Anchors(known_blocks)
  BY <1>2 DEF Anchors
<1>3. ASSUME NEW a \in Anchors(known_blocks'), a \notin known_blocks
      PROVE  \E Q \in SUBSET Electors : IsQuorum(Q) /\ \A n \in Q : Follows(n, a)'
  <2>1. a \in known_blocks' /\ a # genesis_block /\ ~ Standard(a)
    BY <1>3 DEF Anchors, known_blocks
  <2>2. propose_block(k)
    BY <1>3, <2>1, Grows
  <2>3. PICK block \in Blocks :
           /\ Send([type |-> "block", block |-> block]) /\ UNCHANGED node_vars
           /\ \A b \in known_blocks : b.view # block.view
           /\ \/ Standard(block)
              \/ \E quorum \in SUBSET sent("new_view") :
                   /\ { m.sender : m \in quorum } \in SUBSET Electors
                   /\ Cardinality({ m.sender : m \in quorum }) = threshold
                   /\ \A m \in quorum : m.view = block.view - 1
    BY <2>2, ProposeBlock
  <2>4. known_blocks' = known_blocks \cup {block} /\ block = a
    BY <1>3, <2>1, <2>3, Proposal
  <2>5. PICK quorum \in SUBSET sent("new_view") :
                   /\ { m.sender : m \in quorum } \in SUBSET Electors
                   /\ Cardinality({ m.sender : m \in quorum }) = threshold
                   /\ \A m \in quorum : m.view = a.view - 1
    BY <2>1, <2>3, <2>4
  <2> DEFINE Q == { m.sender : m \in quorum }
  <2>6. Q \in SUBSET Electors /\ IsQuorum(Q)
    BY <2>5, OverlayAssumption DEF IsQuorum, threshold
  <2>7. ASSUME NEW n \in Q PROVE Follows(n, a)'
    <3>1. n \in Nodes
      BY <2>6, OverlayAssumption DEF Electors
    <3>2. Past(n, a.view - 1)'
      <4>1. Past(n, a.view - 1)
        BY <1>0, <2>5 DEF NewViewsOK
      <4> QED BY <2>3, <4>1 DEF Past, node_vars
    <3>3. a \notin safe_blocks'[n]
      BY <1>0, <1>3, <2>3, <3>1 DEF SafeOK, node_vars
    <3>4. ASSUME NEW b \in known_blocks', AnchorOf(a, b, known_blocks')
          PROVE  b = a
      <4> SUFFICES ASSUME b \in known_blocks PROVE FALSE
        BY <2>4
      <4>1. PICK c \in known_blocks : AnchorOf(c, b, known_blocks)
        BY DEF Voting, AnchorsSafe
      <4>2. AnchorOf(c, b, known_blocks')
        BY <4>1, Grows, AnchorStays
      <4>3. OneBlockAView(known_blocks')
        BY OneBlockStays
      <4> QED BY <1>3, <3>4, <4>1, <4>2, <4>3, AnchorUnique
    <3>5. ~ Voted(n, a)'
      BY <1>3, <2>1, <3>1, NewBlock
    <3> QED BY <3>2, <3>3, <3>4, <3>5 DEF Follows
  <2> QED BY <2>6, <2>7
<1>4. \A a \in Anchors(known_blocks') : \E Q \in SUBSET Electors : IsQuorum(Q) /\ \A n \in Q : Follows(n, a)'
  BY <1>1, <1>2, <1>3
<1> QED BY <1>4 DEF AnchorQuorums, IsQuorum

LEMMA LateBlock ==
  ASSUME Structure, Local, Voting, NEW k \in Nodes, Step(k),
         NEW block \in known_blocks', block \notin known_blocks, propose_block(k),
         NEW later \in known_blocks, later.view >= block.view
  PROVE  Uncertifiable(block)'
<1>0. Structure' /\ OneBlockAView(known_blocks') /\ UNCHANGED node_vars
  BY StructureStep, OneBlockStays, ProposeBlock
<1>1. block # genesis_block
  BY DEF known_blocks
<1>2. block.view \in Nat \ {0} /\ later.view \in Nat
  BY <1>0, <1>1, OverlayAssumption, KnownBlocks DEF Structure, BlocksOK, known_blocks
<1>3. \A c \in known_blocks : c.view # block.view
  BY <1>0, Grows DEF OneBlockAView
<1>4. PICK Q \in SUBSET Electors : IsQuorum(Q) /\ \A n \in Q : Past(n, block.view)
  BY <1>2, <1>3, LateView
<1>5. Cardinality(Q) + threshold > Cardinality(Electors)
  BY <1>4, QuorumTypes
<1>6. ASSUME NEW n \in Q PROVE Past(n, block.view)' /\ ~ Voted(n, block)'
  <2>1. n \in Nodes
    BY OverlayAssumption DEF Electors
  <2> QED BY <1>0, <1>4, <2>1, NewBlock DEF Past, node_vars
<1> QED BY <1>5, <1>6 DEF Uncertifiable

\* A quorum of new views with low high QCs did not vote for b, and never will.
LEMMA PassedOver ==
  ASSUME Structure, Local, Voting, NEW b \in proposed, NEW quorum \in SUBSET sent("new_view"),
         { m.sender : m \in quorum } \in SUBSET Electors,
         Cardinality({ m.sender : m \in quorum }) = threshold,
         \A m \in quorum : m.view >= b.view /\ m.high_qc.view < QcView(b)
  PROVE  Uncertifiable(b)
<1> DEFINE R == { m.sender : m \in quorum }
<1>1. b \in known_blocks /\ b.view \in Nat /\ NewViewsOK
  BY KnownBlocks, OverlayAssumption DEF known_blocks, Local
<1>2. PICK a \in known_blocks : AnchorOf(a, b, known_blocks)
  BY <1>1 DEF Voting, AnchorsSafe
<1>3. PICK Q \in SUBSET Electors : IsQuorum(Q) /\ \A n \in Q : Follows(n, a)
  BY <1>2 DEF Voting, AnchorQuorums, AnchorOf
<1>4. Cardinality(R \cap Q) + threshold > Cardinality(Electors)
  <2>1. R \in SUBSET Electors /\ Cardinality(R) >= threshold /\ threshold \in Nat
    BY OverlayAssumption DEF threshold
  <2>2. IsFiniteSet(Electors) /\ 3 * threshold > 2 * Cardinality(Electors)
    BY ElectorsAndThreshold
  <2> HIDE DEF R
  <2> QED BY <1>3, <2>1, <2>2, QuorumsMeet DEF IsQuorum
<1>5. ASSUME NEW n \in R \cap Q
      PROVE  Past(n, b.view) /\ (Voted(n, b) => Uncertifiable(b))
  <2>1. PICK m \in quorum : m.sender = n
    BY <1>5
  <2>2. n \in Nodes /\ m.view \in Nat
    BY <1>3, OverlayAssumption, SentTypes DEF Electors, NewViews, Structure
  <2>3. Past(n, b.view)
    BY <1>1, <2>1, <2>2 DEF NewViewsOK, Past, Structure, TypeOK
  <2>4. Voted(n, b) => Uncertifiable(b)
    BY <1>1, <1>2, <1>3, <2>1 DEF Follows
  <2> QED BY <2>3, <2>4
<1>6. CASE \E n \in R \cap Q : Voted(n, b)
  BY <1>5, <1>6
<1>7. CASE \A n \in R \cap Q : ~ Voted(n, b)
  <2>1. R \cap Q \in SUBSET Electors
    OBVIOUS
  <2> HIDE DEF R
  <2> QED BY <1>4, <1>5, <1>7, <2>1 DEF Uncertifiable
<1> QED BY <1>6, <1>7

LEMMA LowQcsStep ==
  ASSUME Structure, Local, Voting, NEW k \in Nodes, Step(k)
  PROVE  LowQcs'
<1>0. LowQcs /\ Structure' /\ OneBlockAView(known_blocks')
  BY StructureStep, OneBlockStays DEF Voting
<1>1. ASSUME NEW b \in proposed, Uncertifiable(b) PROVE Uncertifiable(b)'
  BY <1>1, UncertifiableStays DEF known_blocks
<1>2. CASE ~ propose_block(k)
  <2>1. proposed' = proposed /\ known_blocks' = known_blocks
    BY <1>2, Grows
  <2> QED BY <1>0, <1>1, <2>1 DEF LowQcs
<1>3. CASE propose_block(k)
  <2>1. PICK block \in Blocks :
           /\ Send([type |-> "block", block |-> block]) /\ UNCHANGED node_vars
           /\ block.view \in 1 .. MaxView /\ block.qc.view = block.view - 1
           /\ \A b \in known_blocks : b.view # block.view
           /\ OfBlock(high_qc(block.qc))
           /\ \/ Standard(block)
              \/ \E quorum \in SUBSET sent("new_view") :
                   /\ { m.sender : m \in quorum } \in SUBSET Electors
                   /\ Cardinality({ m.sender : m \in quorum }) = threshold
                   /\ \A m \in quorum : m.view = block.view - 1 /\ m.high_qc.view <= QcView(block)
    BY <1>3, ProposeBlock
  <2>2. /\ proposed' = proposed \cup {block} /\ known_blocks' = known_blocks \cup {block}
        /\ block \notin known_blocks
    BY <2>1, Proposal
  <2>3. ASSUME NEW later \in known_blocks, later.view >= block.view PROVE Uncertifiable(block)'
    BY <1>3, <2>2, <2>3, LateBlock
  <2>4. ASSUME QcView(block) >= block.view PROVE Uncertifiable(block)'
    <3>1. PICK c \in known_blocks : high_qc(block.qc) = StandardQc(id(c), c.view)
      BY <2>1 DEF OfBlock
    <3>2. c.view >= block.view
      BY <2>4, <3>1 DEF StandardQc, QcView
    <3> QED BY <2>3, <3>2
  <2>5. ASSUME NEW b \in proposed, block.view > b.view, QcView(block) < QcView(b)
        PROVE  Uncertifiable(b)
    <3>0. /\ b \in known_blocks /\ b.view \in Nat /\ block.view \in Nat
          /\ QcView(b) \in Nat /\ QcView(block) \in Nat
      <4>1. b \in known_blocks /\ b \in Blocks
        BY KnownTypes DEF known_blocks, Structure
      <4> QED BY <2>1, <4>1, BlockTypes DEF QcView
    <3>1. CASE Standard(block)
      <4>1. QcView(block) = block.view - 1
        BY <2>1, <3>1 DEF QcView, high_qc, Standard
      <4>2. QcView(b) >= b.view
        BY <2>5, <3>0, <4>1
      <4> QED BY <1>0, <4>2 DEF LowQcs
    <3>2. CASE ~ Standard(block)
      <4>1. PICK quorum \in SUBSET sent("new_view") :
                   /\ { m.sender : m \in quorum } \in SUBSET Electors
                   /\ Cardinality({ m.sender : m \in quorum }) = threshold
                   /\ \A m \in quorum : m.view = block.view - 1 /\ m.high_qc.view <= QcView(block)
        BY <2>1, <3>2
      <4>2. ASSUME NEW m \in quorum PROVE m.view >= b.view /\ m.high_qc.view < QcView(b)
        <5>1. m.high_qc \in StandardQcs
          BY SentTypes DEF NewViews, Structure
        <5>2. m.high_qc.view \in Nat
          BY <5>1, QcTypes
        <5> QED BY <2>5, <3>0, <4>1, <5>2
      <4> QED BY <4>1, <4>2, PassedOver
    <3> QED BY <3>1, <3>2
  <2>6. ASSUME NEW b \in proposed', NEW later \in known_blocks', later.view > b.view, QcView(later) < QcView(b)
        PROVE  Uncertifiable(b)'
    <3>1. CASE b \in proposed /\ later \in known_blocks
      BY <1>0, <1>1, <2>6, <3>1 DEF LowQcs
    <3>2. CASE b \in proposed /\ later = block
      BY <1>1, <2>5, <2>6, <3>2
    <3>3. CASE b = block
      <4>1. later # block /\ later.view >= block.view
        BY <1>0, <2>2, <2>6, <3>3 DEF OneBlockAView
      <4> QED BY <2>2, <2>3, <3>3, <4>1
    <3> QED BY <2>2, <3>1, <3>2, <3>3
  <2>7. ASSUME NEW b \in proposed', QcView(b) >= b.view PROVE Uncertifiable(b)'
    BY <1>0, <1>1, <2>2, <2>4, <2>7 DEF LowQcs
  <2> QED BY <2>6, <2>7 DEF LowQcs
<1> QED BY <1>2, <1>3


---------------------------------------------------------------------------
(* Chains in a set of safe blocks.                                         *)

\* A node's safe blocks as committed_blocks walks them.
Tree(blocks) ==
  /\ OneBlockAView(blocks)
  /\ \A b \in blocks : b.view = 0 => b = genesis_block
  /\ \A b \in blocks : parent(b) \in ids(blocks)
  /\ \A b \in blocks : b # genesis_block /\ Standard(b) =>
       \E c \in blocks : parent(b) = id(c) /\ c.view = b.view - 1
  /\ WellFounded(blocks)

\* No chain passes g by: what is above g comes from blocks that are not below it.
Settled(g, blocks) ==
  \A b \in blocks : b.view > g.view => \E c \in blocks : parent(b) = id(c) /\ c.view >= g.view

\* down_from of committed_blocks.
IsDown(f, blocks) ==
  f = [b \in blocks |->
        {id(b)} \cup IF b = genesis_block THEN {} ELSE f[block_with(parent(b), blocks)]]

LEMMA BlockWith ==
  ASSUME NEW blocks, Tree(blocks)
  PROVE  /\ \A b, c \in blocks : id(b) = id(c) => b = c
         /\ \A b \in blocks : block_with(id(b), blocks) = b
         /\ \A b \in blocks : block_with(parent(b), blocks) \in blocks /\ id(block_with(parent(b), blocks)) = parent(b)
<1>1. \A b, c \in blocks : id(b) = id(c) => b = c
  <2>1. \A b, c \in blocks : id(b) = id(c) => b.view = c.view
    BY DEF id
  <2> QED BY <2>1 DEF Tree, OneBlockAView
<1>2. \A i \in ids(blocks) : block_with(i, blocks) \in blocks /\ id(block_with(i, blocks)) = i
  BY DEF ids, block_with
<1>3. \A b \in blocks : parent(b) \in ids(blocks) /\ id(b) \in ids(blocks)
  BY DEF Tree, ids
<1> QED BY <1>1, <1>2, <1>3

\* The function exists: it gives the ids of the least set with b that is closed under parents.
LEMMA DownExists ==
  ASSUME NEW blocks, Tree(blocks)
  PROVE  \E f : IsDown(f, blocks)
<1> DEFINE up(b) == block_with(parent(b), blocks)
           Closed(C) == \A b \in C : b = genesis_block \/ up(b) \in C
           Reach(b) == { c \in blocks : \A C \in SUBSET blocks : Closed(C) /\ b \in C => c \in C }
           f == [b \in blocks |-> ids(Reach(b))]
<1>1. ASSUME NEW b \in blocks, b # genesis_block PROVE Reach(b) = {b} \cup Reach(up(b))
  <2>1. up(b) \in blocks
    BY BlockWith
  <2> HIDE DEF up
  <2>2. b \in Reach(b)
    OBVIOUS
  <2>3. Reach(up(b)) \subseteq Reach(b)
    BY <1>1
  <2>4. ASSUME NEW c \in Reach(b), c # b PROVE c \in Reach(up(b))
    <3> SUFFICES ASSUME NEW C \in SUBSET blocks, Closed(C), up(b) \in C PROVE c \in C
      BY <2>4
    <3>1. C \cup {b} \in SUBSET blocks /\ Closed(C \cup {b})
      OBVIOUS
    <3>2. c \in C \cup {b}
      BY <2>4, <3>1
    <3> QED BY <2>4, <3>2
  <2> QED BY <2>2, <2>3, <2>4
<1>2. Reach(genesis_block) = {genesis_block}
  <2>1. genesis_block \in blocks
    BY DEF Tree, OneBlockAView
  <2>2. {genesis_block} \in SUBSET blocks /\ Closed({genesis_block})
    BY <2>1
  <2>3. genesis_block \in Reach(genesis_block)
    BY <2>1
  <2>4. \A c \in Reach(genesis_block) : c \in {genesis_block}
    BY <2>2
  <2> HIDE DEF Reach
  <2> QED BY <2>3, <2>4
<1>3. ASSUME NEW b \in blocks
      PROVE  f[b] = {id(b)} \cup IF b = genesis_block THEN {} ELSE f[up(b)]
  <2>1. up(b) \in blocks
    BY BlockWith
  <2>2. f[b] = ids(Reach(b)) /\ f[up(b)] = ids(Reach(up(b)))
    BY <2>1
  <2> HIDE DEF Reach, up, f
  <2>3. CASE b = genesis_block
    BY <1>2, <2>2, <2>3 DEF ids
  <2>4. CASE b # genesis_block
    BY <1>1, <2>2, <2>4 DEF ids
  <2> QED BY <2>3, <2>4
<1>4. f = [b \in blocks |-> f[b]]
  OBVIOUS
<1> HIDE DEF f
<1>5. f = [b \in blocks |-> {id(b)} \cup IF b = genesis_block THEN {} ELSE f[up(b)]]
  BY <1>3, <1>4
<1>6. IsDown(f, blocks)
  BY <1>5 DEF IsDown
<1> QED BY <1>6

LEMMA CommittedDown ==
  ASSUME NEW blocks, Tree(blocks), NEW view
  PROVE  \E f : IsDown(f, blocks) /\ committed_blocks(blocks, view) = f[latest_committed_block(blocks, view)]
<1> DEFINE f == CHOOSE f : IsDown(f, blocks)
<1>1. IsDown(f, blocks)
  BY DownExists
<1>2. committed_blocks(blocks, view) = f[latest_committed_block(blocks, view)]
  BY DEF committed_blocks, IsDown
<1> HIDE DEF f
<1> QED BY <1>1, <1>2

LEMMA DownOf ==
  ASSUME NEW blocks, Tree(blocks), NEW f, IsDown(f, blocks), NEW b \in blocks, NEW c \in blocks, parent(b) = id(c)
  PROVE  f[b] = {id(b)} \cup IF b = genesis_block THEN {} ELSE f[c]
<1>1. block_with(parent(b), blocks) = c
  BY BlockWith
<1> QED BY <1>1 DEF IsDown

LEMMA DownPasses ==
  ASSUME NEW blocks, Tree(blocks), NEW f, IsDown(f, blocks), NEW g, g.view \in Nat, Settled(g, blocks),
         \A b \in blocks : b.view = g.view => b = g,
         NEW c \in blocks, c.view >= g.view
  PROVE  g \in blocks /\ f[g] \subseteq f[c]
<1> DEFINE B == { b \in blocks : b.view >= g.view /\ ~ (g \in blocks /\ f[g] \subseteq f[b]) }
<1> SUFFICES ASSUME c \in B PROVE FALSE
  OBVIOUS
<1>1. PICK b \in B : b = genesis_block \/ parent(b) \notin ids(B)
  <2>1. B \in (SUBSET blocks) \ {{}}
    OBVIOUS
  <2> HIDE DEF B
  <2> QED BY <2>1 DEF Tree, WellFounded
<1>2. b \in blocks /\ b.view \in Nat /\ b.view >= g.view /\ ~ (g \in blocks /\ f[g] \subseteq f[b])
  BY DEF Tree, OneBlockAView
<1>3. b.view > g.view /\ b # genesis_block
  <2>1. b # g
    BY <1>2
  <2> QED BY <1>2, <2>1, GenesisTypes
<1>4. PICK d \in blocks : parent(b) = id(d) /\ d.view >= g.view
  BY <1>2, <1>3 DEF Settled
<1>5. d \notin B
  BY <1>1, <1>3, <1>4 DEF ids
<1>6. g \in blocks /\ f[g] \subseteq f[d]
  BY <1>4, <1>5
<1>7. f[d] \subseteq f[b]
  BY <1>2, <1>3, <1>4, DownOf
<1> QED BY <1>2, <1>6, <1>7

LEMMA DownsAgree ==
  ASSUME NEW S, Tree(S), NEW f, IsDown(f, S), NEW T, Tree(T), NEW h, IsDown(h, T),
         \A b \in S, c \in T : b.view = c.view => b = c,
         NEW c \in S \cap T
  PROVE  f[c] = h[c]
<1> DEFINE B == { b \in S : b \in T /\ f[b] # h[b] }
<1> SUFFICES ASSUME c \in B PROVE FALSE
  OBVIOUS
<1>1. PICK b \in B : b = genesis_block \/ parent(b) \notin ids(B)
  <2>1. B \in (SUBSET S) \ {{}}
    OBVIOUS
  <2> HIDE DEF B
  <2> QED BY <2>1 DEF Tree, WellFounded
<1>2. b \in S /\ b \in T /\ f[b] # h[b]
  OBVIOUS
<1>3. PICK d \in S : parent(b) = id(d)
  BY <1>2 DEF Tree, ids
<1>4. PICK e \in T : parent(b) = id(e)
  BY <1>2 DEF Tree, ids
<1>5. d = e
  <2>1. d.view = e.view
    BY <1>3, <1>4 DEF id
  <2> QED BY <2>1
<1>6. f[b] = {id(b)} \cup IF b = genesis_block THEN {} ELSE f[d]
  BY <1>2, <1>3, DownOf
<1>7. h[b] = {id(b)} \cup IF b = genesis_block THEN {} ELSE h[d]
  BY <1>2, <1>4, <1>5, DownOf
<1>8. b # genesis_block /\ f[d] # h[d]
  BY <1>2, <1>6, <1>7
<1>9. d \in B
  BY <1>5, <1>8
<1> QED BY <1>1, <1>3, <1>8, <1>9 DEF ids

---------------------------------------------------------------------------
(* What is committed.                                                      *)

\* The blocks that commit their grandparent, of which latest_committed_block takes the last.
committing(blocks, view) == { b \in blocks : b.view \in 1 .. view /\ can_commit_grandparent(b, blocks) }

LEMMA LastCommitting ==
  ASSUME NEW blocks, Tree(blocks), NEW view \in Nat, committing(blocks, view) # {}
  PROVE  \E last \in committing(blocks, view), p \in blocks :
           /\ \A b \in committing(blocks, view) : b.view <= last.view
           /\ Standard(last) /\ last # genesis_block /\ parent(last) = id(p) /\ p.view = last.view - 1
           /\ Standard(p) /\ p # genesis_block /\ p.view \in Nat
           /\ latest_committed_block(blocks, view) \in blocks
           /\ parent(p) = id(latest_committed_block(blocks, view))
           /\ p.view = latest_committed_block(blocks, view).view + 1
<1> DEFINE K == committing(blocks, view)
           last == CHOOSE b \in K : \A c \in K : c.view <= b.view
           p == block_with(parent(last), blocks)
           g == block_with(parent(p), blocks)
<1>1. \E b \in K : \A c \in K : c.view <= b.view
  <2> DEFINE views == { b.view : b \in K }
  <2>1. views \in SUBSET (0 .. view) /\ views # {}
    BY DEF committing
  <2>2. PICK v \in views : \A w \in views : w <= v
    <3> HIDE DEF views
    <3> QED BY <2>1, GreatestExists
  <2> QED BY <2>2
<1>2. last \in K /\ \A c \in K : c.view <= last.view
  <2> HIDE DEF K
  <2> QED BY <1>1
<1>3. latest_committed_block(blocks, view) = g
  BY DEF latest_committed_block, committing
<1> HIDE DEF last
<1>4. last \in blocks /\ last.view \in 1 .. view /\ can_commit_grandparent(last, blocks)
  BY <1>2 DEF committing
<1>5. Standard(last) /\ Standard(p) /\ p.view = g.view + 1
  BY <1>4 DEF can_commit_grandparent, Standard
<1>6. last # genesis_block
  BY <1>4, GenesisTypes
<1>7. p \in blocks /\ id(p) = parent(last)
  BY <1>4, BlockWith
<1>8. g \in blocks /\ id(g) = parent(p)
  BY <1>7, BlockWith
<1> HIDE DEF g, p
<1>9. p.view = last.view - 1
  <2>1. PICK c \in blocks : parent(last) = id(c) /\ c.view = last.view - 1
    BY <1>4, <1>5, <1>6 DEF Tree
  <2> QED BY <1>7, <2>1, BlockWith
<1>10. p.view \in Nat /\ g.view \in Nat
  BY <1>7, <1>8 DEF Tree, OneBlockAView
<1>11. p # genesis_block
  BY <1>5, <1>10, GenesisTypes
<1>12. last \in committing(blocks, view) /\ \A c \in committing(blocks, view) : c.view <= last.view
  BY <1>2
<1> HIDE DEF K
<1> QED BY <1>3, <1>5, <1>6, <1>7, <1>8, <1>9, <1>10, <1>11, <1>12

LEMMA NothingCommitted ==
  ASSUME NEW blocks, NEW view, committing(blocks, view) = {}
  PROVE  latest_committed_block(blocks, view) = genesis_block
  BY DEF latest_committed_block, committing

\* A block with a certified block of the next view that came straight after it.
Final(g) ==
  g = genesis_block \/ \E p \in proposed : Standard(p) /\ parent(p) = id(g) /\ p.view = g.view + 1 /\ Certified(p)

Trees == \A n \in Nodes : Tree(safe_blocks[n])

AllSettled == \A n \in Nodes : \A g \in known_blocks : Final(g) => Settled(g, safe_blocks[n])

LEMMA SafeTrees ==
  ASSUME Structure, Local
  PROVE  Trees
<1> SUFFICES ASSUME NEW n \in Nodes PROVE Tree(safe_blocks[n])
  BY DEF Trees
<1> DEFINE S == safe_blocks[n]
<1>1. /\ genesis_block \in S /\ S \subseteq known_blocks
      /\ \A b \in S : parent(b) \in ids(S)
      /\ WellFounded(S)
  BY DEF Local, SafeOK
<1> HIDE DEF S
<1>2. OneBlockAView(S) /\ \A b \in S : b.view = 0 => b = genesis_block
  BY <1>1, KnownBlocks, OneKnownBlockAView DEF OneBlockAView
<1>3. ASSUME NEW b \in S, b # genesis_block, Standard(b)
      PROVE  \E c \in S : parent(b) = id(c) /\ c.view = b.view - 1
  <2>1. b \in proposed
    BY <1>1, <1>3 DEF known_blocks
  <2>2. PICK c \in known_blocks : parent(b) = id(c) /\ c.view = b.view - 1
    BY <1>3, <2>1, StandardParent
  <2>3. PICK d \in S : parent(b) = id(d)
    BY <1>1 DEF ids
  <2>4. c = d
    BY <1>1, <2>2, <2>3, KnownBlocks
  <2> QED BY <2>2, <2>3, <2>4
<1>4. Tree(S)
  BY <1>1, <1>2, <1>3 DEF Tree
<1> QED BY <1>4 DEF S

LEMMA CertifiedSurvives ==
  ASSUME Structure, Voting, NEW b \in proposed, Cardinality(voters(b)) >= threshold,
         NEW later \in known_blocks, later.view > b.view
  PROVE  QcView(later) >= QcView(b)
<1>1. b \in Blocks /\ later \in Blocks
  BY KnownTypes DEF Structure
<1>2. QcView(b) \in Nat /\ QcView(later) \in Nat
  BY <1>1, BlockTypes DEF QcView
<1> SUFFICES ASSUME QcView(later) < QcView(b) PROVE FALSE
  BY <1>2
<1>3. PICK S \in SUBSET Electors : /\ Cardinality(S) + threshold > Cardinality(Electors)
                                  /\ \A n \in S : ~ Voted(n, b)
  BY DEF Voting, LowQcs, Uncertifiable
<1>4. S \cap voters(b) = {}
  BY <1>3 DEF voters, Voted
<1>5. Cardinality(S) + Cardinality(voters(b)) <= Cardinality(Electors)
  BY <1>4, ElectorsAndThreshold, VotersFinite, RestOfQuorum
<1> QED BY <1>3, <1>5, QuorumTypes, VotersFinite

LEMMA FinalIsSettled ==
  ASSUME Structure, Local, Voting
  PROVE  AllSettled
<1> SUFFICES ASSUME NEW n \in Nodes, NEW g \in known_blocks, Final(g),
                    NEW b \in safe_blocks[n], b.view > g.view
             PROVE  \E c \in safe_blocks[n] : parent(b) = id(c) /\ c.view >= g.view
  BY DEF AllSettled, Settled
<1>1. b \in known_blocks /\ safe_blocks[n] \subseteq known_blocks
  BY DEF Local, SafeOK
<1>2. PICK c \in safe_blocks[n] : parent(b) = id(c)
  BY DEF Local, SafeOK, ids
<1>3. QcView(b) = c.view
  BY <1>1, <1>2, ParentKnown, KnownBlocks
<1>4. c.view \in Nat /\ b.view \in Nat /\ g.view \in Nat
  BY <1>1, KnownBlocks, OverlayAssumption
<1>5. CASE g = genesis_block
  BY <1>2, <1>4, <1>5, GenesisTypes
<1>6. CASE g # genesis_block
  <2>1. PICK p \in proposed : Standard(p) /\ parent(p) = id(g) /\ p.view = g.view + 1 /\ Certified(p)
    BY <1>6 DEF Final
  <2>2. p \in known_blocks /\ p # genesis_block
    BY KnownBlocks DEF known_blocks
  <2>3. CASE b.view = p.view
    <3>1. b = p
      BY <1>1, <2>2, <2>3, KnownBlocks
    <3>2. c = g
      BY <1>1, <1>2, <2>1, <3>1, KnownBlocks
    <3> QED BY <1>2, <1>4, <3>2
  <2>4. CASE b.view > p.view
    <3>1. QcView(b) >= QcView(p)
      BY <1>1, <2>1, <2>2, <2>4, CertifiedSurvives DEF Certified
    <3>2. QcView(p) = g.view
      BY <2>1, <2>2, ParentKnown, KnownBlocks
    <3> QED BY <1>2, <1>3, <3>1, <3>2
  <2> QED BY <1>4, <2>1, <2>3, <2>4
<1> QED BY <1>5, <1>6

LEMMA CommittedIsFinal ==
  ASSUME Structure, Local, NEW n \in Nodes
  PROVE  /\ latest_committed_block(safe_blocks[n], current_view[n]) \in safe_blocks[n]
         /\ Final(latest_committed_block(safe_blocks[n], current_view[n]))
<1> DEFINE S == safe_blocks[n]
           g == latest_committed_block(S, current_view[n])
<1>1. Tree(S) /\ S \subseteq known_blocks /\ genesis_block \in S /\ current_view[n] \in Nat
  BY SafeTrees DEF Trees, Local, SafeOK, Structure, TypeOK
<1> HIDE DEF S
<1>2. CASE committing(S, current_view[n]) = {}
  BY <1>1, <1>2, NothingCommitted DEF S, Final
<1>3. CASE committing(S, current_view[n]) # {}
  <2>1. PICK last \in committing(S, current_view[n]), p \in S :
           /\ Standard(last) /\ last # genesis_block /\ parent(last) = id(p)
           /\ Standard(p) /\ p # genesis_block
           /\ g \in S /\ parent(p) = id(g) /\ p.view = g.view + 1
    BY <1>1, <1>3, LastCommitting
  <2>2. last \in proposed /\ p \in proposed /\ p \in known_blocks
    BY <1>1, <2>1 DEF known_blocks, committing
  <2>3. PICK c \in known_blocks : parent(last) = id(c) /\ Certified(c)
    BY <2>1, <2>2, StandardParent
  <2>4. c = p
    BY <2>1, <2>2, <2>3, KnownBlocks
  <2> QED BY <2>1, <2>2, <2>3, <2>4 DEF S, Final
<1> QED BY <1>2, <1>3

\* What is committed can only be something later when blocks and view grow.
LEMMA CommittedRises ==
  ASSUME NEW S, Tree(S), NEW T, Tree(T), S \subseteq T, NEW v \in Nat, NEW w \in Nat, v <= w
  PROVE  latest_committed_block(S, v).view <= latest_committed_block(T, w).view
<1> DEFINE g == latest_committed_block(S, v)
           h == latest_committed_block(T, w)
<1>1. ASSUME NEW b \in S
      PROVE  block_with(parent(b), T) = block_with(parent(b), S) /\ block_with(parent(b), S) \in S
  <2>1. PICK c \in S : parent(b) = id(c)
    BY DEF Tree, ids
  <2> QED BY <2>1, BlockWith
<1>2. committing(S, v) \subseteq committing(T, w)
  <2> SUFFICES ASSUME NEW b \in committing(S, v) PROVE b \in committing(T, w)
    OBVIOUS
  <2>1. b \in S /\ b.view \in 1 .. v /\ can_commit_grandparent(b, S)
    BY DEF committing
  <2>2. can_commit_grandparent(b, T)
    BY <1>1, <2>1 DEF can_commit_grandparent
  <2>3. b.view \in 1 .. w
    BY <2>1
  <2> QED BY <2>1, <2>2, <2>3 DEF committing
<1>3. h \in T /\ h.view \in Nat
  <2>1. CASE committing(T, w) = {}
    BY <2>1, NothingCommitted DEF Tree, OneBlockAView
  <2>2. CASE committing(T, w) # {}
    BY <2>2, LastCommitting DEF Tree, OneBlockAView
  <2> QED BY <2>1, <2>2
<1>4. CASE committing(S, v) = {}
  BY <1>3, <1>4, NothingCommitted, GenesisTypes
<1>5. CASE committing(S, v) # {}
  <2>1. PICK b \in committing(S, v), p \in S :
           g \in S /\ p.view = b.view - 1 /\ p.view = g.view + 1
    BY <1>5, LastCommitting
  <2>2. PICK c \in committing(T, w), d \in T :
           /\ \A e \in committing(T, w) : e.view <= c.view
           /\ h \in T /\ d.view = c.view - 1 /\ d.view = h.view + 1
    BY <1>2, <1>5, LastCommitting
  <2>3. b.view <= c.view /\ b.view \in Nat /\ c.view \in Nat
    <3>1. b \in S /\ c \in T
      BY DEF committing
    <3> QED BY <1>2, <2>2, <3>1 DEF Tree, OneBlockAView
  <2>4. g.view \in Nat
    BY <2>1 DEF Tree, OneBlockAView
  <2> HIDE DEF g, h
  <2> QED BY <1>3, <2>1, <2>2, <2>3, <2>4 DEF g, h
<1> QED BY <1>4, <1>5

---------------------------------------------------------------------------
(* The theorems.                                                           *)

\* The inductive invariant.
Inv == Structure /\ Local /\ Voting

LEMMA VotingInit ==
  ASSUME Init
  PROVE  Voting
<1>1. /\ known_blocks = {genesis_block} /\ proposed = {} /\ sent("new_view") = {}
      /\ \A n \in Nodes : genesis_block \in safe_blocks[n]
  BY InitSent DEF Init
<1>2. AnchorOf(genesis_block, genesis_block, known_blocks)
  BY <1>1, GenesisTypes DEF AnchorOf, Anchors
<1>3. AnchorsSafe
  BY <1>1, <1>2 DEF AnchorsSafe
<1>4. ASSUME NEW n \in Electors PROVE Follows(n, genesis_block)
  <2>1. n \in Nodes /\ current_view[n] = 1 /\ local_high_qc[n] = genesis_block.qc
    BY OverlayAssumption DEF Init, Electors
  <2>2. QcView(genesis_block) = 0 /\ local_high_qc[n].view = 0
    BY <2>1, GenesisTypes, QcTypes DEF QcView
  <2> QED BY <1>1, <2>1, <2>2, GenesisTypes DEF Follows
<1>5. AnchorQuorums
  <2>1. Anchors(known_blocks) = {genesis_block}
    BY <1>1 DEF Anchors
  <2>2. IsQuorum(Electors) /\ Electors \in SUBSET Electors
    BY DEF IsQuorum
  <2> QED BY <1>4, <2>1, <2>2 DEF AnchorQuorums
<1>6. LowQcs
  BY <1>1 DEF LowQcs
<1> QED BY <1>3, <1>5, <1>6 DEF Voting

LEMMA InvInit == Init => Inv
  BY StructureInit, LocalInit, VotingInit DEF Inv

LEMMA InvStep == Inv /\ [Next]_vars => Inv'
<1> SUFFICES ASSUME Inv, [Next]_vars PROVE Inv'
  OBVIOUS
<1>1. CASE Next
  <2>1. PICK n \in Nodes : Step(n)
    BY <1>1 DEF Next, Step
  <2> QED BY <2>1, StructureStep, LocalStep, AnchorsStep, AnchorQuorumsStep, LowQcsStep DEF Inv, Voting
<1>2. CASE UNCHANGED vars
  <2>1. UNCHANGED << msgs, current_view, highest_voted_view, local_high_qc, safe_blocks, last_view_timeout_qc >>
    BY <1>2 DEF vars, node_vars
  <2>2. /\ \A type : sent(type)' = sent(type)
        /\ proposed' = proposed /\ known_blocks' = known_blocks
    BY <2>1, Unsent
  <2> USE <2>1, <2>2
  <2>3. \A b : voters(b)' = voters(b)
    BY DEF voters
  <2>4. Structure'
    <3>1. TypeOK'
      BY DEF Inv, Structure, TypeOK
    <3>2. QcsKnown'
      BY DEF Inv, Structure, QcsKnown, OfBlock
    <3>3. BlocksOK'
      BY <2>3 DEF Inv, Structure, BlocksOK, Certified
    <3> QED BY <3>1, <3>2, <3>3 DEF Structure
  <2>5. Local'
    BY DEF Inv, Local, SafeOK, VotesOK, Routed, NewViewsOK, Past
  <2>6. Voting'
    <3>1. AnchorsSafe'
      BY DEF Inv, Voting, AnchorsSafe
    <3>2. \A n, b : Voted(n, b)' = Voted(n, b) /\ Past(n, b)' = Past(n, b)
      BY DEF Voted, Past
    <3>4. \A b : Uncertifiable(b)' = Uncertifiable(b)
      BY <3>2 DEF Uncertifiable, Past
    <3>3. AnchorQuorums'
      <4>1. ASSUME NEW n, NEW a, Follows(n, a) PROVE Follows(n, a)'
        BY <3>2, <3>4, <4>1 DEF Follows
      <4> QED BY <4>1 DEF Inv, Voting, AnchorQuorums
    <3>5. LowQcs'
      BY <3>4 DEF Inv, Voting, LowQcs
    <3> QED BY <3>1, <3>3, <3>5 DEF Voting
  <2> QED BY <2>4, <2>5, <2>6 DEF Inv
<1> QED BY <1>1, <1>2

(***************************************************************************)
(* The inductive invariant holds in every state the nodes can reach, in    *)
(* whatever order they handle messages and time out.                       *)
(***************************************************************************)
THEOREM CarnotInvariant == Spec => []Inv
  BY InvInit, InvStep, PTL DEF Spec

(***************************************************************************)
(* The attributes of the nodes and the messages are of their types.        *)
(***************************************************************************)
THEOREM CarnotType == Spec => []TypeOK
<1>1. Inv => TypeOK
  BY DEF Inv, Structure
<1> QED BY <1>1, CarnotInvariant, PTL

(***************************************************************************)
(* Once a quorum has voted for a block, no later block carries a QC older  *)
(* than that block's own, although update_high_qc lets an aggregate QC     *)
(* lower a node's high QC, and approve_new_view and propose_block pass     *)
(* lowered QCs on.                                                         *)
(***************************************************************************)
THEOREM CarnotCertifiedQcSurvives == Spec => []CertifiedQcSurvives
<1>1. Inv => CertifiedQcSurvives
  <2> SUFFICES ASSUME Inv, NEW m \in sent("block"), NEW later \in sent("block"),
                      Cardinality(voters(m.block)) >= threshold, later.block.view > m.block.view
               PROVE  QcView(later.block) >= QcView(m.block)
    BY DEF CertifiedQcSurvives, QcView, threshold
  <2> QED BY CertifiedSurvives DEF Inv, proposed, known_blocks
<1> QED BY <1>1, CarnotInvariant, PTL

(***************************************************************************)
(* No handler takes a node to an earlier view: neither update_high_qc nor  *)
(* receive_timeout_qc sets current_view to less than it is.                *)
(***************************************************************************)
THEOREM CarnotViewsOnlyRise == Spec => ViewsOnlyRise
<1>1. Inv /\ [Next]_vars => [\A n \in Nodes : current_view'[n] >= current_view[n]]_vars
  BY Grows DEF Inv, Next, Step
<1> QED BY <1>1, CarnotInvariant, PTL DEF Spec, ViewsOnlyRise

\* The one lemma behind agreement: nothing passes by what is settled.
LEMMA CommittedBelow ==
  ASSUME NEW S, Tree(S), NEW T, Tree(T), \A b \in S, c \in T : b.view = c.view => b = c,
         NEW v, NEW w,
         latest_committed_block(S, v) \in S, latest_committed_block(T, w) \in T,
         latest_committed_block(S, v).view <= latest_committed_block(T, w).view,
         Settled(latest_committed_block(S, v), T)
  PROVE  committed_blocks(S, v) \subseteq committed_blocks(T, w)
<1> DEFINE g == latest_committed_block(S, v)
           h == latest_committed_block(T, w)
<1>1. PICK f : IsDown(f, S) /\ committed_blocks(S, v) = f[g]
  BY CommittedDown
<1>2. PICK k : IsDown(k, T) /\ committed_blocks(T, w) = k[h]
  BY CommittedDown
<1>3. g \in S /\ h \in T /\ g.view <= h.view /\ Settled(g, T)
  OBVIOUS
<1> HIDE DEF g, h
<1>4. g.view \in Nat /\ h.view \in Nat
  BY <1>3 DEF Tree, OneBlockAView
<1>5. g \in T /\ k[g] \subseteq k[h]
  <2>1. \A b \in T : b.view = g.view => b = g
    BY <1>3
  <2> QED BY <1>2, <1>3, <1>4, <2>1, DownPasses
<1>6. f[g] = k[g]
  BY <1>1, <1>2, <1>3, <1>5, DownsAgree
<1> QED BY <1>1, <1>2, <1>5, <1>6

(***************************************************************************)
(* Of what two nodes have committed (committed_blocks) one is a part of    *)
(* the other: the latest of the two is above the other on the one chain.   *)
(***************************************************************************)
THEOREM CarnotAgreement == Spec => []Agreement
<1>1. Inv => Agreement
  <2> SUFFICES ASSUME Inv, NEW i \in Nodes, NEW j \in Nodes
               PROVE  committed(i) \subseteq committed(j) \/ committed(j) \subseteq committed(i)
    BY DEF Agreement
  <2> DEFINE last(n) == latest_committed_block(safe_blocks[n], current_view[n])
  <2>1. ASSUME NEW n \in Nodes, NEW o \in Nodes, last(n).view <= last(o).view
        PROVE  committed(n) \subseteq committed(o)
    <3>1. Tree(safe_blocks[n]) /\ Tree(safe_blocks[o])
      BY SafeTrees DEF Inv, Trees
    <3>2. safe_blocks[n] \subseteq known_blocks /\ safe_blocks[o] \subseteq known_blocks
      BY DEF Inv, Local, SafeOK
    <3>3. \A b \in safe_blocks[n], c \in safe_blocks[o] : b.view = c.view => b = c
      BY <3>2, KnownBlocks DEF Inv
    <3>4. last(n) \in safe_blocks[n] /\ Final(last(n)) /\ last(o) \in safe_blocks[o]
      BY CommittedIsFinal DEF Inv
    <3>5. Settled(last(n), safe_blocks[o])
      BY <3>2, <3>4, FinalIsSettled DEF Inv, AllSettled
    <3> QED BY <2>1, <3>1, <3>3, <3>4, <3>5, CommittedBelow DEF committed
  <2>2. \A n \in Nodes : last(n).view \in Nat
    <3> SUFFICES ASSUME NEW n \in Nodes PROVE last(n).view \in Nat
      OBVIOUS
    <3>1. last(n) \in safe_blocks[n] /\ Tree(safe_blocks[n])
      BY CommittedIsFinal, SafeTrees DEF Inv, Trees
    <3> QED BY <3>1 DEF Tree, OneBlockAView
  <2> HIDE DEF last
  <2>3. last(i).view <= last(j).view \/ last(j).view <= last(i).view
    BY <2>2
  <2> QED BY <2>1, <2>3
<1> QED BY <1>1, CarnotInvariant, PTL

(***************************************************************************)
(* What a node has committed stays committed when it receives another      *)
(* block or moves to another view, although latest_committed_block is      *)
(* computed afresh from whatever is safe.                                  *)
(***************************************************************************)
THEOREM CarnotCommitsStay == Spec => CommitsStay
<1>1. Inv => Trees /\ AllSettled
  BY SafeTrees, FinalIsSettled DEF Inv
<1> DEFINE Stay ==
      \A n \in Nodes : \A blocks \in {safe_blocks'[n]}, view \in {current_view'[n]} :
        blocks # safe_blocks[n] \/ view # current_view[n]
        => committed(n) \subseteq committed_blocks(blocks, view)
<1>2. Inv /\ Trees /\ Inv' /\ Trees' /\ AllSettled' /\ [Next]_vars => [Stay]_vars
  <2> SUFFICES ASSUME Inv, Trees, Inv', Trees', AllSettled', Next, NEW n \in Nodes
               PROVE  committed(n) \subseteq committed_blocks(safe_blocks'[n], current_view'[n])
    OBVIOUS
  <2>1. PICK i \in Nodes : Step(i)
    BY DEF Next, Step
  <2> DEFINE S == safe_blocks[n]
             T == safe_blocks'[n]
             v == current_view[n]
             w == current_view'[n]
             g == latest_committed_block(S, v)
             h == latest_committed_block(T, w)
  <2>2. Tree(S) /\ Tree(T)
    BY DEF Trees
  <2>3. S \subseteq T /\ v <= w /\ v \in Nat /\ w \in Nat /\ known_blocks \subseteq known_blocks'
    BY <2>1, Grows DEF Inv, Structure, TypeOK
  <2>4. g \in S /\ Final(g) /\ S \subseteq known_blocks
    BY CommittedIsFinal DEF Inv, Local, SafeOK
  <2>5. Settled(g, T)
    <3>1. proposed \subseteq proposed' /\ \A b : Certified(b) => Certified(b)'
      BY <2>1, Grows, CertifiedStays DEF Inv, proposed, sent
    <3> HIDE DEF g
    <3>2. \A b : Final(b) => Final(b)'
      BY <3>1 DEF Final
    <3> QED BY <2>3, <2>4, <3>2 DEF AllSettled
  <2>6. T \subseteq known_blocks' /\ \A b, c \in known_blocks' : b.view = c.view => b = c
    BY DEF Inv, Local, SafeOK, Structure, BlocksOK
  <2>7. \A b \in S, c \in T : b.view = c.view => b = c
    BY <2>3, <2>6
  <2>8. g.view <= h.view
    BY <2>2, <2>3, CommittedRises
  <2>9. h \in T
    <3>1. CASE committing(T, w) = {}
      BY <2>2, <3>1, NothingCommitted DEF Tree, OneBlockAView
    <3>2. CASE committing(T, w) # {}
      BY <2>2, <2>3, <3>2, LastCommitting
    <3> QED BY <3>1, <3>2
  <2>10. committed(n) = committed_blocks(S, v)
    BY DEF committed
  <2> HIDE DEF S, T, v, w
  <2> QED BY <2>2, <2>4, <2>5, <2>7, <2>8, <2>9, <2>10, CommittedBelow DEF S, T, v, w
<1> QED BY <1>1, <1>2, CarnotInvariant, PTL DEF Spec, CommitsStay
==========================================================================
