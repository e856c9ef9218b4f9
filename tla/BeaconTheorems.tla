------------------------- MODULE BeaconTheorems -------------------------
(***************************************************************************)
(* No view has two proposals, although nodes do not agree on the leader:   *)
(* the inductive invariant, and the theorem, for any nodes, any choice of  *)
(* leaders and up to every view.                                           *)
(***************************************************************************)
EXTENDS BeaconCarnot, Lemmas

genesis == C!genesis_block
votes == C!sent("vote")
new_views == C!sent("new_view")
proposals == C!sent("block")
answers == votes \cup new_views
known == {genesis} \cup { m.block : m \in proposals }
Standard(b) == C!is_standard(b.qc)

Quorum(Q) == Q \in SUBSET Nodes /\ Cardinality(Q) >= Threshold

\* What the argument reads of the state is of these types; an answer has one addressee.
TypeOK ==
  /\ current_view \in [Nodes -> Nat] /\ highest_voted_view \in [Nodes -> Int]
  /\ DOMAIN safe_blocks = Nodes
  /\ \A m \in answers : m.sender \in Nodes /\ m.view \in Nat /\ \E x : m.to = {x}
  /\ \A m \in proposals : m.block.view \in Nat \ {0} /\ m.block.qc.view = m.block.view - 1
  /\ \A m \in C!sent("timeout_qc") : m.view \in Nat

\* A proposer had the votes of a quorum for a block of the view before, or a quorum's new views.
Backed(x, view) ==
  \E Q : /\ Quorum(Q)
         /\ \/ \A n \in Q : \E m \in new_views : m.sender = n /\ m.view = view /\ x \in m.to
            \/ \E p \in known : /\ p.view = view
                                /\ \A n \in Q : \E m \in votes : m.sender = n /\ m.block = C!id(p) /\ x \in m.to

\* Where proposals come from.
Proposed ==
  \A m \in proposals :
    /\ Backed(m.proposer, m.block.view - 1)
    /\ Standard(m.block) => \E p \in known : p.view = m.block.view - 1 /\ C!parent(m.block) = C!id(p)
    /\ ~ Standard(m.block) =>
         \E Q : Quorum(Q) /\ \A n \in Q : \E v \in new_views : v.sender = n /\ v.view = m.block.view - 1

\* Nodes keep what was proposed and vote for what they keep.
SafeOK == \A n \in Nodes : genesis \in safe_blocks[n] /\ safe_blocks[n] \subseteq known
VotesOK == \A m \in votes : \E b \in safe_blocks[m.sender] : m.block = C!id(b) /\ m.view = b.view

\* Whoever sent a new view never answers that view again.
Past(n, view) == highest_voted_view[n] >= view /\ current_view[n] >= view
NewViewsOK ==
  /\ \A m \in new_views : m.view > 0 /\ Past(m.sender, m.view)
  /\ \A m, o \in new_views : m.sender = o.sender /\ m.view = o.view => m = o

\* Runs of standard blocks and where they start from.
AnchorOf(a, b) ==
  /\ a = genesis \/ ~ Standard(a)
  /\ a.view <= b.view
  /\ \A view \in a.view + 1 .. b.view : \E c \in known : c.view = view /\ Standard(c)
Anchored == \A b \in known : \E a \in known : AnchorOf(a, b)

\* A node that kept up with a keeps up with the run from a on, and answers its views once.
Follows(n, a) ==
  /\ current_view[n] >= a.view - 1
  /\ \A b \in known : AnchorOf(a, b) =>
       /\ b \in safe_blocks[n] => current_view[n] >= b.view
       /\ \A m \in answers : m.sender = n /\ m.view = b.view =>
            /\ b.view > 0 => highest_voted_view[n] >= b.view
            /\ \A o \in answers : o.sender = n /\ o.view = b.view => m = o

AnchorQuorums ==
  \A a \in known : a = genesis \/ ~ Standard(a) => \E Q : Quorum(Q) /\ \A n \in Q : Follows(n, a)

BeaconInv ==
  /\ TypeOK /\ Proposed /\ OneProposalPerView
  /\ SafeOK /\ VotesOK /\ NewViewsOK
  /\ Anchored /\ AnchorQuorums

---------------------------------------------------------------------------
(* Quorums, blocks and messages.                                           *)

LEMMA Thresholds ==
  /\ Cardinality(Nodes) \in Nat /\ Threshold \in Nat
  /\ 3 * Threshold > 2 * Cardinality(Nodes) /\ Threshold <= Cardinality(Nodes)
<1> DEFINE k == Cardinality(Nodes)
<1>1. k \in Nat /\ k # 0
  BY NodesAssumption, FS_CardinalityType, FS_EmptySet
<1>2. Threshold = (k * 2) \div 3 + 1
  BY DEF Threshold
<1> HIDE DEF k
<1>3. 3 * ((k * 2) \div 3) <= k * 2 /\ k * 2 < 3 * ((k * 2) \div 3) + 3 /\ (k * 2) \div 3 \in Nat
  BY <1>1
<1> QED BY <1>1, <1>2, <1>3 DEF k

LEMMA ThreeQuorumsMeet ==
  ASSUME NEW P, Quorum(P), NEW Q, Quorum(Q), NEW R, Quorum(R)
  PROVE  \E n \in Nodes : n \in P /\ n \in Q /\ n \in R
<1> DEFINE S == P \cap Q
<1>1. P \in SUBSET Nodes /\ Q \in SUBSET Nodes /\ R \in SUBSET Nodes /\ S \in SUBSET Nodes
      /\ Cardinality(P) >= Threshold /\ Cardinality(Q) >= Threshold /\ Cardinality(R) >= Threshold
  BY DEF Quorum
<1>2. Cardinality(S) + Threshold > Cardinality(Nodes)
  BY <1>1, NodesAssumption, Thresholds, QuorumsMeet
<1> HIDE DEF S
<1>3. Cardinality(S) \in Nat /\ Cardinality(R) \in Nat
  BY <1>1, NodesAssumption, FS_Subset, FS_CardinalityType
<1>4. S \cap R # {}
  <2> SUFFICES ASSUME S \cap R = {} PROVE FALSE
    OBVIOUS
  <2>1. Cardinality(S) + Cardinality(R) <= Cardinality(Nodes)
    BY <1>1, NodesAssumption, RestOfQuorum
  <2> QED BY <1>1, <1>2, <1>3, <2>1, Thresholds
<1> QED BY <1>1, <1>4 DEF S

LEMMA Everybody == Quorum(Nodes)
  BY Thresholds DEF Quorum

LEMMA GenesisBlock ==
  /\ genesis.view = 0 /\ Standard(genesis) /\ genesis.qc.view = 0
  /\ C!id(genesis) = << 0, 0 >>
<1>1. genesis.view = 0 /\ genesis.qc = [block |-> << 0, 0 >>, view |-> 0]
  BY DEF genesis, C!genesis_block, C!StandardQc
<1> QED BY <1>1 DEF Standard, C!is_standard, C!id

\* Blocks with the same id are of the same view, and so they are the same block.
LEMMA KnownBlocks ==
  ASSUME TypeOK, OneProposalPerView
  PROVE  /\ \A b \in known : b.view \in Nat /\ (b.view = 0 <=> b = genesis)
         /\ \A b \in known : b # genesis => b.qc.view = b.view - 1
         /\ \A b, c \in known : b.view = c.view => b = c
         /\ \A b, c \in known : C!id(b) = C!id(c) => b = c
<1>1. \A b \in known \ {genesis} : b.view \in Nat \ {0} /\ b.qc.view = b.view - 1
  BY DEF known, TypeOK
<1>2. \A b, c \in known \ {genesis} : b.view = c.view => b = c
  BY DEF known, proposals, OneProposalPerView
<1>3. \A b, c : C!id(b) = C!id(c) => b.view = c.view
  BY DEF C!id
<1> QED BY <1>1, <1>2, <1>3, GenesisBlock

\* A vote is for the block of its view.
LEMMA VoteBlock ==
  ASSUME TypeOK, OneProposalPerView, SafeOK, VotesOK, NEW m \in votes
  PROVE  /\ m.sender \in Nodes
         /\ \E b \in known : b \in safe_blocks[m.sender] /\ m.block = C!id(b) /\ m.view = b.view
         /\ \A b \in known : m.view = b.view => b \in safe_blocks[m.sender] /\ m.block = C!id(b)
         /\ \A b \in known : m.block = C!id(b) => m.view = b.view
<1>1. m.sender \in Nodes
  BY DEF TypeOK, answers
<1>2. PICK b \in safe_blocks[m.sender] : m.block = C!id(b) /\ m.view = b.view
  BY DEF VotesOK
<1>3. b \in known
  BY <1>1, <1>2 DEF SafeOK
<1> QED BY <1>1, <1>2, <1>3, KnownBlocks

\* A node that follows a and has answered the view of a block of a's run is past it.
LEMMA AnsweredIsPast ==
  ASSUME TypeOK, OneProposalPerView, SafeOK, VotesOK, NewViewsOK,
         NEW n \in Nodes, NEW a, Follows(n, a), NEW b \in known, AnchorOf(a, b),
         NEW m \in answers, m.sender = n, m.view = b.view
  PROVE  current_view[n] >= b.view
<1>1. CASE m \in votes
  BY <1>1, VoteBlock DEF Follows
<1>2. CASE m \in new_views
  BY <1>2 DEF NewViewsOK, Past
<1> QED BY <1>1, <1>2 DEF answers

---------------------------------------------------------------------------
(* What steps do.                                                          *)

ViewsRise ==
  /\ current_view' \in [Nodes -> Nat] /\ highest_voted_view' \in [Nodes -> Int]
  /\ \A n \in Nodes : current_view'[n] >= current_view[n]

\* Timers and time-out QCs.
Quiet ==
  /\ ViewsRise
  /\ UNCHANGED << safe_blocks, votes, new_views, proposals >>
  /\ \A n \in Nodes : highest_voted_view'[n] \in {highest_voted_view[n], current_view[n]}

Vote(n, b, x) ==
  /\ ViewsRise /\ UNCHANGED << current_view, safe_blocks, new_views, proposals >>
  /\ b \in safe_blocks[n] /\ b # genesis /\ highest_voted_view[n] < b.view
  /\ highest_voted_view' = [highest_voted_view EXCEPT ![n] = b.view]
  /\ votes' = votes \cup {[type |-> "vote", block |-> C!id(b), view |-> b.view, sender |-> n, to |-> {x}]}

NewView(n, view, qc, x) ==
  /\ ViewsRise /\ UNCHANGED << safe_blocks, votes, proposals >>
  /\ view \in Nat \ {0} /\ current_view[n] >= view /\ highest_voted_view[n] < view
  /\ highest_voted_view' = [highest_voted_view EXCEPT ![n] = view]
  /\ new_views' = new_views \cup {[type |-> "new_view", view |-> view, high_qc |-> qc, sender |-> n, to |-> {x}]}

Receive(n, b) ==
  /\ ViewsRise /\ UNCHANGED << highest_voted_view, votes, new_views, proposals >>
  /\ b \in known \ {genesis} /\ C!parent(b) \in C!ids(safe_blocks[n])
  /\ current_view'[n] = C!view_after(current_view[n], b.qc)
  /\ safe_blocks' = [safe_blocks EXCEPT ![n] = @ \cup {b}]

Propose(n, m) ==
  /\ ViewsRise /\ UNCHANGED << current_view, highest_voted_view, safe_blocks, votes, new_views >>
  /\ m.proposer = n /\ proposals' = proposals \cup {m}
  /\ m.block.qc \in C!qcs_of_votes(n) \cup C!qcs_of_new_views(n) /\ m.block.view = m.block.qc.view + 1
  /\ \A o \in proposals : o.proposer = n => o.block.view # m.block.view

\* The time-out QCs stay well-typed.
TimeoutQcsTyped == \A m \in C!sent("timeout_qc") : m.view \in Nat

Kinds == UNCHANGED << votes, new_views, proposals >>

LEMMA SendOther ==
  ASSUME NEW m, msgs' = msgs \cup {m}, m.type \notin {"vote", "new_view", "block"}
  PROVE  Kinds
  BY DEF Kinds, votes, new_views, proposals, C!sent

LEMMA SendKind ==
  ASSUME NEW m, msgs' = msgs \cup {m}
  PROVE  /\ m.type = "vote" => votes' = votes \cup {m} /\ new_views' = new_views /\ proposals' = proposals
         /\ m.type = "new_view" => new_views' = new_views \cup {m} /\ votes' = votes /\ proposals' = proposals
         /\ m.type = "block" => proposals' = proposals \cup {m} /\ votes' = votes /\ new_views' = new_views
         /\ m.type # "timeout_qc" => C!sent("timeout_qc")' = C!sent("timeout_qc")
  BY DEF votes, new_views, proposals, C!sent

LEMMA KindsUnchanged ==
  ASSUME msgs' = msgs
  PROVE  Kinds /\ C!sent("timeout_qc")' = C!sent("timeout_qc")
  BY DEF Kinds, votes, new_views, proposals, C!sent

LEMMA ViewAfter ==
  ASSUME NEW view \in Nat, NEW qc
  PROVE  C!view_after(view, qc) \in Nat /\ C!view_after(view, qc) >= view
  BY DEF C!view_after

LEMMA VoteStep ==
  ASSUME TypeOK, NEW n \in Nodes, approve_block(n)
  PROVE  (\E b, x : Vote(n, b, x)) /\ TimeoutQcsTyped'
<1>1. PICK b \in safe_blocks[n] :
        b # C!genesis_block /\ C!vote_for(n, b, {overlay'[n].leader})
  BY DEF approve_block
<1> DEFINE x == overlay'[n].leader
           m == [type |-> "vote", block |-> C!id(b), view |-> b.view, sender |-> n, to |-> {x}]
<1>2. /\ b.view \in 1 .. MaxView - 1 /\ highest_voted_view[n] < b.view
      /\ highest_voted_view' = [highest_voted_view EXCEPT ![n] = b.view]
      /\ msgs' = msgs \cup {m}
      /\ UNCHANGED << current_view, safe_blocks >>
  BY <1>1 DEF C!vote_for, C!Send
<1>3. ViewsRise
  BY <1>2, ViewsAssumption DEF ViewsRise, TypeOK
<1>4. votes' = votes \cup {m} /\ new_views' = new_views /\ proposals' = proposals
      /\ C!sent("timeout_qc")' = C!sent("timeout_qc")
  <2>1. m.type = "vote"
    OBVIOUS
  <2> HIDE DEF m
  <2> QED BY <1>2, <2>1, SendKind
<1>5. Vote(n, b, x)
  BY <1>1, <1>2, <1>3, <1>4 DEF Vote, genesis
<1>6. TimeoutQcsTyped'
  BY <1>4 DEF TimeoutQcsTyped, TypeOK
<1> QED BY <1>5, <1>6

LEMMA NewViewStep ==
  ASSUME TypeOK, NEW n \in Nodes, approve_new_view(n)
  PROVE  (\E view, qc, x : NewView(n, view, qc, x)) /\ TimeoutQcsTyped'
<1>1. PICK timeout_qc \in C!sent("timeout_qc") :
        C!new_view_after(n, timeout_qc, {next_leader(overlay[n])})
  BY DEF approve_new_view
<1> DEFINE x == next_leader(overlay[n])
           view == timeout_qc.view + 1
           m == [type |-> "new_view", view |-> view, high_qc |-> local_high_qc'[n], sender |-> n, to |-> {x}]
<1>2. /\ current_view[n] >= view /\ highest_voted_view[n] < view
      /\ \E qc : current_view' = [current_view EXCEPT ![n] = C!view_after(@, qc)]
      /\ highest_voted_view' = [highest_voted_view EXCEPT ![n] = view]
      /\ msgs' = msgs \cup {m}
      /\ safe_blocks' = safe_blocks
  BY <1>1 DEF C!new_view_after, C!Send
<1>3. view \in Nat \ {0}
  BY DEF TypeOK
<1>4. ViewsRise
  BY <1>2, <1>3, ViewAfter DEF ViewsRise, TypeOK
<1>5. new_views' = new_views \cup {m} /\ votes' = votes /\ proposals' = proposals
      /\ C!sent("timeout_qc")' = C!sent("timeout_qc")
  <2>1. m.type = "new_view"
    OBVIOUS
  <2> HIDE DEF m
  <2> QED BY <1>2, <2>1, SendKind
<1>6. NewView(n, view, local_high_qc'[n], x)
  BY <1>2, <1>3, <1>4, <1>5 DEF NewView
<1>7. TimeoutQcsTyped'
  BY <1>5 DEF TimeoutQcsTyped, TypeOK
<1> QED BY <1>6, <1>7

LEMMA ReceiveStep ==
  ASSUME TypeOK, NEW n \in Nodes, C!receive_block(n)
  PROVE  (\E b : Receive(n, b)) /\ TimeoutQcsTyped'
<1>1. PICK m \in proposals :
        /\ C!parent(m.block) \in C!ids(safe_blocks[n])
        /\ safe_blocks' = [safe_blocks EXCEPT ![n] = @ \cup {m.block}]
        /\ current_view' = [current_view EXCEPT ![n] = C!view_after(@, m.block.qc)]
        /\ UNCHANGED << highest_voted_view, msgs >>
  BY DEF C!receive_block, proposals
<1>2. m.block \in known \ {genesis}
  BY GenesisBlock DEF known, TypeOK
<1>3. ViewsRise
  BY <1>1, ViewAfter DEF ViewsRise, TypeOK
<1>4. Kinds /\ C!sent("timeout_qc")' = C!sent("timeout_qc")
  BY <1>1, KindsUnchanged
<1>5. current_view'[n] = C!view_after(current_view[n], m.block.qc)
  BY <1>1 DEF TypeOK
<1>6. Receive(n, m.block)
  BY <1>1, <1>2, <1>3, <1>4, <1>5 DEF Receive, Kinds
<1>7. TimeoutQcsTyped'
  BY <1>4 DEF TimeoutQcsTyped, TypeOK
<1> QED BY <1>6, <1>7

LEMMA ProposeStep ==
  ASSUME TypeOK, NEW n \in Nodes, propose_block(n)
  PROVE  (\E m : Propose(n, m)) /\ TimeoutQcsTyped'
<1>1. PICK qc \in C!qcs_of_votes(n) \cup C!qcs_of_new_views(n) :
        /\ \A m \in C!sent("block") : m.proposer = n => m.block.view # qc.view + 1
        /\ C!Send([type |-> "block", proposer |-> n,
                   block |-> [view |-> qc.view + 1, qc |-> qc, beacon |-> beacon(n, qc.view)]])
  BY DEF propose_block
<1> DEFINE m == [type |-> "block", proposer |-> n,
                 block |-> [view |-> qc.view + 1, qc |-> qc, beacon |-> beacon(n, qc.view)]]
<1>2. msgs' = msgs \cup {m}
  BY <1>1 DEF C!Send
<1>3. proposals' = proposals \cup {m} /\ votes' = votes /\ new_views' = new_views
      /\ C!sent("timeout_qc")' = C!sent("timeout_qc")
  <2>1. m.type = "block"
    OBVIOUS
  <2> HIDE DEF m
  <2> QED BY <1>2, <2>1, SendKind
<1>4. UNCHANGED << current_view, highest_voted_view, safe_blocks >>
  BY DEF propose_block, node_vars
<1>5. ViewsRise
  BY <1>4 DEF ViewsRise, TypeOK
<1>6. Propose(n, m)
  BY <1>1, <1>3, <1>4, <1>5 DEF Propose, proposals
<1>7. TimeoutQcsTyped'
  BY <1>3 DEF TimeoutQcsTyped, TypeOK
<1> QED BY <1>6, <1>7

LEMMA QuietStep ==
  ASSUME TypeOK, NEW n \in Nodes,
         C!local_timeout(n) \/ C!timeout_detected(n) \/ C!receive_timeout_qc(n)
  PROVE  Quiet /\ TimeoutQcsTyped'
<1>1. CASE C!local_timeout(n)
  <2> DEFINE m == [type |-> "timeout", view |-> current_view[n], high_qc |-> local_high_qc[n], sender |-> n]
  <2>1. /\ highest_voted_view' = [highest_voted_view EXCEPT ![n] = current_view[n]]
        /\ UNCHANGED << current_view, safe_blocks >>
        /\ msgs' = msgs \cup {m}
    BY <1>1 DEF C!local_timeout, C!Send
  <2>2. Kinds /\ C!sent("timeout_qc")' = C!sent("timeout_qc")
    <3>1. m.type = "timeout"
      OBVIOUS
    <3> HIDE DEF m
    <3> QED BY <2>1, <3>1, SendOther, SendKind
  <2> QED BY <2>1, <2>2 DEF Quiet, ViewsRise, TypeOK, Kinds, TimeoutQcsTyped
<1>2. CASE C!timeout_detected(n)
  <2> PICK view \in TimeoutViews :
         \E qc : msgs' = msgs \cup {[type |-> "timeout_qc", view |-> view, high_qc |-> qc]}
    BY <1>2 DEF C!timeout_detected, C!Send
  <2>1. PICK qc : msgs' = msgs \cup {[type |-> "timeout_qc", view |-> view, high_qc |-> qc]}
    OBVIOUS
  <2>2. UNCHANGED << current_view, highest_voted_view, safe_blocks >>
    BY <1>2 DEF C!timeout_detected, C!node_vars
  <2>3. Kinds
    BY <2>1, SendOther
  <2>4. TimeoutQcsTyped'
    <3>1. view \in Nat
      BY ViewsAssumption
    <3> QED BY <2>1, <3>1 DEF TimeoutQcsTyped, TypeOK, C!sent
  <2> QED BY <2>2, <2>3, <2>4 DEF Quiet, ViewsRise, TypeOK, Kinds
<1>3. CASE C!receive_timeout_qc(n)
  <2>1. PICK m \in C!sent("timeout_qc") :
          /\ m.view >= current_view[n]
          /\ current_view' = [current_view EXCEPT ![n] = m.view + 1]
          /\ UNCHANGED << highest_voted_view, safe_blocks, msgs >>
    BY <1>3 DEF C!receive_timeout_qc
  <2>2. Kinds /\ C!sent("timeout_qc")' = C!sent("timeout_qc")
    BY <2>1, KindsUnchanged
  <2>3. ViewsRise
    BY <2>1 DEF ViewsRise, TypeOK
  <2> QED BY <2>1, <2>2, <2>3 DEF Quiet, TypeOK, Kinds, TimeoutQcsTyped
<1> QED BY <1>1, <1>2, <1>3

\* Every step is one of these.
LEMMA Steps ==
  ASSUME TypeOK, [BeaconNext]_beacon_vars
  PROVE  /\ TimeoutQcsTyped'
         /\ \/ Quiet
            \/ \E n \in Nodes :
                 \/ \E b, x : Vote(n, b, x)
                 \/ \E view, qc, x : NewView(n, view, qc, x)
                 \/ \E b : Receive(n, b)
                 \/ \E m : Propose(n, m)
<1>1. CASE UNCHANGED beacon_vars
  <2>1. UNCHANGED << current_view, highest_voted_view, safe_blocks, msgs >>
    BY <1>1 DEF beacon_vars, node_vars
  <2>2. Kinds /\ C!sent("timeout_qc")' = C!sent("timeout_qc")
    BY <2>1, KindsUnchanged
  <2> QED BY <2>1, <2>2 DEF Quiet, ViewsRise, TypeOK, Kinds, TimeoutQcsTyped
<1>2. CASE BeaconNext
  BY <1>2, VoteStep, NewViewStep, ReceiveStep, ProposeStep, QuietStep DEF BeaconNext
<1> QED BY <1>1, <1>2

---------------------------------------------------------------------------
(* Initially.                                                              *)

LEMMA InitInv == BeaconInit => BeaconInv
<1> SUFFICES ASSUME BeaconInit PROVE BeaconInv
  OBVIOUS
<1> DEFINE x == choice[first_entropy]
           m(n) == [type |-> "vote", block |-> C!id(C!genesis_block), view |-> 0, sender |-> n, to |-> {x}]
<1>1. /\ current_view = [n \in Nodes |-> 1] /\ highest_voted_view = [n \in Nodes |-> -1]
      /\ safe_blocks = [n \in Nodes |-> {genesis}]
      /\ msgs = { m(n) : n \in Nodes }
  BY DEF BeaconInit, genesis
<1>2. votes = { m(n) : n \in Nodes } /\ new_views = {} /\ proposals = {} /\ C!sent("timeout_qc") = {}
  BY <1>1 DEF votes, new_views, proposals, C!sent
<1>3. \A v \in answers : v.sender \in Nodes /\ v.view = 0 /\ v.block = C!id(genesis) /\ v.to = {x} /\ v = m(v.sender)
  BY <1>2 DEF answers, genesis
<1>4. known = {genesis}
  BY <1>2 DEF known
<1>5. TypeOK
  BY <1>1, <1>2, <1>3 DEF TypeOK
<1>6. Proposed /\ OneProposalPerView /\ NewViewsOK
  BY <1>2 DEF Proposed, OneProposalPerView, NewViewsOK, proposals
<1>7. SafeOK /\ VotesOK
  BY <1>1, <1>2, <1>3, <1>4, GenesisBlock DEF SafeOK, VotesOK, answers
<1>8. Anchored
  BY <1>4, GenesisBlock DEF Anchored, AnchorOf
<1>9. AnchorQuorums
  <2>1. \A n \in Nodes : Follows(n, genesis)
    <3> HIDE DEF m
    <3> QED BY <1>1, <1>3, <1>4, GenesisBlock DEF Follows
  <2> QED BY <1>4, <2>1, Everybody DEF AnchorQuorums, Quorum
<1> QED BY <1>5, <1>6, <1>7, <1>8, <1>9 DEF BeaconInv

---------------------------------------------------------------------------
(* Steps without a proposal.                                               *)

LEMMA BackedStays ==
  ASSUME proposals \subseteq proposals', votes \subseteq votes', new_views \subseteq new_views',
         NEW x, NEW view, Backed(x, view)
  PROVE  Backed(x, view)'
<1>1. known \subseteq known'
  BY DEF known
<1>2. PICK Q : /\ Quorum(Q)
               /\ \/ \A n \in Q : \E m \in new_views : m.sender = n /\ m.view = view /\ x \in m.to
                  \/ \E p \in known : /\ p.view = view
                                      /\ \A n \in Q : \E m \in votes : m.sender = n /\ m.block = C!id(p) /\ x \in m.to
  BY DEF Backed
<1>3. Quorum(Q)'
  BY <1>2 DEF Quorum, Threshold
<1>4. CASE \A n \in Q : \E m \in new_views : m.sender = n /\ m.view = view /\ x \in m.to
  BY <1>3, <1>4 DEF Backed
<1>5. CASE \E p \in known : /\ p.view = view
                            /\ \A n \in Q : \E m \in votes : m.sender = n /\ m.block = C!id(p) /\ x \in m.to
  <2>1. PICK p \in known : /\ p.view = view
                           /\ \A n \in Q : \E m \in votes : m.sender = n /\ m.block = C!id(p) /\ x \in m.to
    BY <1>5
  <2>2. \A n \in Q : \E m \in votes' : m.sender = n /\ m.block = C!id(p) /\ x \in m.to
    BY <2>1
  <2>3. C!id(p)' = C!id(p)
    BY DEF C!id
  <2> QED BY <1>1, <1>3, <2>1, <2>2, <2>3 DEF Backed
<1> QED BY <1>2, <1>4, <1>5

LEMMA SameProposals ==
  ASSUME BeaconInv, proposals' = proposals, votes \subseteq votes', new_views \subseteq new_views'
  PROVE  /\ known' = known
         /\ \A a, b : AnchorOf(a, b)' <=> AnchorOf(a, b)
         /\ Proposed' /\ OneProposalPerView' /\ Anchored'
<1>1. known' = known
  BY DEF known
<1>2. \A a, b : AnchorOf(a, b)' <=> AnchorOf(a, b)
  BY <1>1 DEF AnchorOf, genesis, C!genesis_block, C!StandardQc, Standard, C!is_standard
<1>3. Proposed'
  <2> SUFFICES ASSUME NEW m \in proposals
               PROVE  /\ Backed(m.proposer, m.block.view - 1)'
                      /\ Standard(m.block) =>
                           \E p \in known : p.view = m.block.view - 1 /\ C!parent(m.block) = C!id(p)
                      /\ ~ Standard(m.block) =>
                           \E Q : Quorum(Q) /\ \A n \in Q : \E v \in new_views' : v.sender = n /\ v.view = m.block.view - 1
    BY <1>1 DEF Proposed, Standard, C!is_standard, C!parent, C!high_qc, C!id, Quorum, Threshold
  <2>1. /\ Backed(m.proposer, m.block.view - 1)
        /\ Standard(m.block) => \E p \in known : p.view = m.block.view - 1 /\ C!parent(m.block) = C!id(p)
        /\ ~ Standard(m.block) =>
             \E Q : Quorum(Q) /\ \A n \in Q : \E v \in new_views : v.sender = n /\ v.view = m.block.view - 1
    BY DEF BeaconInv, Proposed
  <2>2. Backed(m.proposer, m.block.view - 1)'
    BY <2>1, BackedStays
  <2> QED BY <2>1, <2>2
<1>4. OneProposalPerView'
  BY DEF BeaconInv, OneProposalPerView, proposals
<1>5. Anchored'
  BY <1>1, <1>2 DEF BeaconInv, Anchored
<1> QED BY <1>1, <1>2, <1>3, <1>4, <1>5

LEMMA SameQuorums ==
  ASSUME AnchorQuorums, known' = known,
         \A n \in Nodes, a \in known : Follows(n, a) => Follows(n, a)'
  PROVE  AnchorQuorums'
<1> SUFFICES ASSUME NEW a \in known, a = genesis \/ ~ Standard(a)
             PROVE  \E Q : Quorum(Q) /\ \A n \in Q : Follows(n, a)'
  BY DEF AnchorQuorums, Quorum, Threshold, genesis, C!genesis_block, C!StandardQc, Standard, C!is_standard
<1>1. PICK Q : Quorum(Q) /\ \A n \in Q : Follows(n, a)
  BY DEF AnchorQuorums
<1> QED BY <1>1 DEF Quorum

LEMMA QuietKeeps ==
  ASSUME BeaconInv, Quiet, TimeoutQcsTyped'
  PROVE  BeaconInv'
<1>1. /\ known' = known /\ \A a, b : AnchorOf(a, b)' <=> AnchorOf(a, b)
      /\ Proposed' /\ OneProposalPerView' /\ Anchored'
  BY SameProposals DEF Quiet
<1>2. TypeOK'
  BY DEF BeaconInv, TypeOK, Quiet, ViewsRise, TimeoutQcsTyped, answers
<1>3. SafeOK' /\ VotesOK'
  BY <1>1 DEF BeaconInv, SafeOK, VotesOK, Quiet, genesis, C!genesis_block, C!StandardQc, C!id
<1>4. \A n \in Nodes : /\ current_view[n] \in Nat /\ current_view'[n] \in Nat /\ current_view'[n] >= current_view[n]
                       /\ highest_voted_view[n] \in Int /\ highest_voted_view'[n] \in Int
                       /\ highest_voted_view'[n] \in {highest_voted_view[n], current_view[n]}
  BY DEF BeaconInv, TypeOK, Quiet, ViewsRise
<1>5. NewViewsOK'
  BY <1>4 DEF BeaconInv, TypeOK, answers, NewViewsOK, Past, Quiet
<1>6. ASSUME NEW n \in Nodes, NEW a \in known, Follows(n, a) PROVE Follows(n, a)'
  <2>1. current_view'[n] >= a.view - 1
    BY <1>4, <1>6, KnownBlocks DEF Follows, BeaconInv
  <2>2. ASSUME NEW b \in known, AnchorOf(a, b)
        PROVE  /\ b \in safe_blocks'[n] => current_view'[n] >= b.view
               /\ \A m \in answers' : m.sender = n /\ m.view = b.view =>
                    /\ b.view > 0 => highest_voted_view'[n] >= b.view
                    /\ \A o \in answers' : o.sender = n /\ o.view = b.view => m = o
    <3>1. answers' = answers /\ safe_blocks' = safe_blocks /\ b.view \in Nat
      BY KnownBlocks DEF answers, Quiet, BeaconInv
    <3>2. \A m \in answers : m.sender = n /\ m.view = b.view => current_view[n] >= b.view
      BY <1>6, <2>2, AnsweredIsPast DEF BeaconInv
    <3> QED BY <1>4, <1>6, <2>2, <3>1, <3>2 DEF Follows
  <2> QED BY <1>1, <2>1, <2>2 DEF Follows
<1>7. AnchorQuorums'
  BY <1>1, <1>6, SameQuorums DEF BeaconInv
<1> QED BY <1>1, <1>2, <1>3, <1>5, <1>7 DEF BeaconInv

\* An answer in a view where no node that follows has answered before.
LEMMA FirstAnswer ==
  ASSUME BeaconInv, NEW n \in Nodes, NEW a \in known, Follows(n, a), NEW m, m.sender = n, m.view \in Nat \ {0},
         ViewsRise, highest_voted_view[n] < m.view, highest_voted_view'[n] = m.view,
         safe_blocks' = safe_blocks, known' = known, \A b : AnchorOf(a, b)' <=> AnchorOf(a, b),
         answers' = answers \cup {m}
  PROVE  Follows(n, a)'
<1>1. /\ current_view[n] \in Nat /\ current_view'[n] \in Nat /\ current_view'[n] >= current_view[n]
      /\ highest_voted_view[n] \in Int
  BY DEF BeaconInv, TypeOK, ViewsRise
<1>2. current_view'[n] >= a.view - 1
  BY <1>1, KnownBlocks DEF Follows, BeaconInv
<1>3. ASSUME NEW b \in known, AnchorOf(a, b)
      PROVE  /\ b \in safe_blocks[n] => current_view'[n] >= b.view
             /\ \A v \in answers' : v.sender = n /\ v.view = b.view =>
                  /\ b.view > 0 => highest_voted_view'[n] >= b.view
                  /\ \A o \in answers' : o.sender = n /\ o.view = b.view => v = o
  <2>1. b.view \in Nat
    BY KnownBlocks DEF BeaconInv
  <2>2. /\ b \in safe_blocks[n] => current_view[n] >= b.view
        /\ \A v \in answers : v.sender = n /\ v.view = b.view =>
             /\ b.view > 0 => highest_voted_view[n] >= b.view
             /\ \A o \in answers : o.sender = n /\ o.view = b.view => v = o
    BY <1>3 DEF Follows
  <2>3. CASE b.view = m.view
    <3>1. \A v \in answers : ~ (v.sender = n /\ v.view = b.view)
      BY <1>1, <2>1, <2>2, <2>3
    <3> QED BY <1>1, <2>1, <2>2, <2>3, <3>1
  <2>4. CASE b.view # m.view
    BY <1>1, <2>1, <2>2, <2>4
  <2> QED BY <2>3, <2>4
<1> QED BY <1>2, <1>3 DEF Follows

\* A node that sends nothing and receives no block, while views rise.
LEMMA OthersFollow ==
  ASSUME BeaconInv, NEW n \in Nodes, NEW a \in known, Follows(n, a),
         ViewsRise, highest_voted_view'[n] = highest_voted_view[n], safe_blocks'[n] = safe_blocks[n],
         known' = known, \A b : AnchorOf(a, b)' <=> AnchorOf(a, b),
         \A m \in answers' : m.sender = n => m \in answers
  PROVE  Follows(n, a)'
<1>1. current_view[n] \in Nat /\ current_view'[n] \in Nat /\ current_view'[n] >= current_view[n]
  BY DEF BeaconInv, TypeOK, ViewsRise
<1>2. current_view'[n] >= a.view - 1
  BY <1>1, KnownBlocks DEF Follows, BeaconInv
<1>3. ASSUME NEW b \in known, AnchorOf(a, b)
      PROVE  /\ b \in safe_blocks[n] => current_view'[n] >= b.view
             /\ \A v \in answers' : v.sender = n /\ v.view = b.view =>
                  /\ b.view > 0 => highest_voted_view'[n] >= b.view
                  /\ \A o \in answers' : o.sender = n /\ o.view = b.view => v = o
  <2>1. b.view \in Nat
    BY KnownBlocks DEF BeaconInv
  <2>2. /\ b \in safe_blocks[n] => current_view[n] >= b.view
        /\ \A v \in answers : v.sender = n /\ v.view = b.view =>
             /\ b.view > 0 => highest_voted_view[n] >= b.view
             /\ \A o \in answers : o.sender = n /\ o.view = b.view => v = o
    BY <1>3 DEF Follows
  <2> QED BY <1>1, <2>1, <2>2
<1> QED BY <1>2, <1>3 DEF Follows

LEMMA VoteKeeps ==
  ASSUME BeaconInv, NEW n \in Nodes, NEW b, NEW x, Vote(n, b, x), TimeoutQcsTyped'
  PROVE  BeaconInv'
<1> DEFINE m == [type |-> "vote", block |-> C!id(b), view |-> b.view, sender |-> n, to |-> {x}]
<1>1. /\ known' = known /\ \A a, c : AnchorOf(a, c)' <=> AnchorOf(a, c)
      /\ Proposed' /\ OneProposalPerView' /\ Anchored'
  BY SameProposals DEF Vote
<1>2. b \in known /\ b.view \in Nat \ {0}
  BY KnownBlocks DEF BeaconInv, SafeOK, Vote
<1>3. m.sender = n /\ m.view = b.view /\ m.to = {x} /\ m.block = C!id(b) /\ votes' = votes \cup {m}
  BY DEF Vote
<1> HIDE DEF m
<1>4. answers' = answers \cup {m} /\ new_views' = new_views
  BY <1>3 DEF answers, Vote
<1>5. TypeOK'
  BY <1>2, <1>3, <1>4 DEF BeaconInv, TypeOK, Vote, ViewsRise, TimeoutQcsTyped
<1>6. SafeOK' /\ VotesOK'
  <2>1. \A c : C!id(c)' = C!id(c)
    BY DEF C!id
  <2>2. \A v \in votes : \E c \in safe_blocks[v.sender] : v.block = C!id(c) /\ v.view = c.view
    BY DEF BeaconInv, VotesOK
  <2>3. genesis' = genesis
    BY DEF genesis, C!genesis_block, C!StandardQc
  <2> QED BY <1>1, <1>3, <2>1, <2>2, <2>3 DEF BeaconInv, SafeOK, VotesOK, Vote
<1>7. NewViewsOK'
  BY <1>2, <1>4 DEF BeaconInv, TypeOK, answers, NewViewsOK, Past, Vote
<1>8. ASSUME NEW k \in Nodes, NEW a \in known, Follows(k, a) PROVE Follows(k, a)'
  <2>1. CASE k = n
    BY <1>1, <1>2, <1>3, <1>4, <1>8, <2>1, FirstAnswer DEF Vote, BeaconInv, TypeOK
  <2>2. CASE k # n
    BY <1>1, <1>3, <1>4, <1>8, <2>2, OthersFollow DEF Vote, BeaconInv, TypeOK
  <2> QED BY <2>1, <2>2
<1>9. AnchorQuorums'
  BY <1>1, <1>8, SameQuorums DEF BeaconInv
<1> QED BY <1>1, <1>5, <1>6, <1>7, <1>9 DEF BeaconInv

LEMMA NewViewKeeps ==
  ASSUME BeaconInv, NEW n \in Nodes, NEW view, NEW qc, NEW x, NewView(n, view, qc, x), TimeoutQcsTyped'
  PROVE  BeaconInv'
<1> DEFINE m == [type |-> "new_view", view |-> view, high_qc |-> qc, sender |-> n, to |-> {x}]
<1>1. /\ known' = known /\ \A a, c : AnchorOf(a, c)' <=> AnchorOf(a, c)
      /\ Proposed' /\ OneProposalPerView' /\ Anchored'
  BY SameProposals DEF NewView
<1>2. view \in Nat \ {0}
  BY DEF NewView
<1>3. m.sender = n /\ m.view = view /\ m.to = {x} /\ new_views' = new_views \cup {m}
  BY DEF NewView
<1> HIDE DEF m
<1>4. answers' = answers \cup {m} /\ votes' = votes
  BY <1>3 DEF answers, NewView
<1>5. TypeOK'
  BY <1>2, <1>3, <1>4 DEF BeaconInv, TypeOK, NewView, ViewsRise, TimeoutQcsTyped
<1>6. SafeOK' /\ VotesOK'
  <2>1. \A c : C!id(c)' = C!id(c)
    BY DEF C!id
  <2>2. genesis' = genesis
    BY DEF genesis, C!genesis_block, C!StandardQc
  <2> QED BY <1>1, <1>4, <2>1, <2>2 DEF BeaconInv, SafeOK, VotesOK, NewView
<1>7. NewViewsOK'
  <2>1. \A v \in new_views : v.sender \in Nodes /\ v.view \in Nat /\ v.view > 0 /\ Past(v.sender, v.view)
    BY DEF BeaconInv, TypeOK, answers, NewViewsOK
  <2>2. \A k \in Nodes : /\ current_view[k] \in Nat /\ current_view'[k] \in Nat /\ current_view'[k] >= current_view[k]
                         /\ highest_voted_view[k] \in Int
                         /\ highest_voted_view'[k] = IF k = n THEN view ELSE highest_voted_view[k]
    BY DEF BeaconInv, TypeOK, NewView, ViewsRise
  <2>3. highest_voted_view[n] < view /\ current_view[n] >= view
    BY DEF NewView
  <2>4. \A v \in new_views' : v.view > 0 /\ Past(v.sender, v.view)'
    BY <1>2, <1>3, <2>1, <2>2, <2>3 DEF Past
  <2>5. \A v \in new_views : ~ (v.sender = n /\ v.view = view)
    BY <1>2, <2>1, <2>2, <2>3 DEF Past
  <2>6. \A v, o \in new_views : v.sender = o.sender /\ v.view = o.view => v = o
    BY DEF BeaconInv, NewViewsOK
  <2>7. \A v, o \in new_views' : v.sender = o.sender /\ v.view = o.view => v = o
    BY <1>3, <2>5, <2>6
  <2> QED BY <2>4, <2>7 DEF NewViewsOK, Past
<1>8. ASSUME NEW k \in Nodes, NEW a \in known, Follows(k, a) PROVE Follows(k, a)'
  <2>1. CASE k = n
    BY <1>1, <1>2, <1>3, <1>4, <1>8, <2>1, FirstAnswer DEF NewView, BeaconInv, TypeOK
  <2>2. CASE k # n
    BY <1>1, <1>3, <1>4, <1>8, <2>2, OthersFollow DEF NewView, BeaconInv, TypeOK
  <2> QED BY <2>1, <2>2
<1>9. AnchorQuorums'
  BY <1>1, <1>8, SameQuorums DEF BeaconInv
<1> QED BY <1>1, <1>5, <1>6, <1>7, <1>9 DEF BeaconInv

\* What a node that follows receives it is in time for.
LEMMA InTime ==
  ASSUME BeaconInv, NEW n \in Nodes, NEW a \in known, Follows(n, a), NEW b, Receive(n, b), AnchorOf(a, b)
  PROVE  current_view'[n] >= b.view
<1>1. /\ b \in known /\ b # genesis /\ b.view \in Nat \ {0} /\ b.qc.view = b.view - 1
      /\ current_view[n] \in Nat /\ current_view'[n] = C!view_after(current_view[n], b.qc)
  BY KnownBlocks DEF Receive, BeaconInv, TypeOK
<1>2. SUFFICES current_view[n] >= b.view - 1
  BY <1>1 DEF C!view_after
<1>3. CASE a.view = b.view
  BY <1>1, <1>3 DEF Follows
<1>4. CASE a.view # b.view
  <2>1. a.view \in Nat /\ b.view \in a.view + 1 .. b.view
    BY <1>1, <1>4, KnownBlocks DEF AnchorOf, BeaconInv
  <2>2. PICK c \in known : c.view = b.view /\ Standard(c)
    BY <2>1 DEF AnchorOf
  <2>3. Standard(b)
    BY <1>1, <2>2, KnownBlocks DEF BeaconInv
  <2>4. PICK m \in proposals : m.block = b
    BY <1>1 DEF known
  <2>5. PICK p \in known : p.view = b.view - 1 /\ C!parent(b) = C!id(p)
    BY <2>3, <2>4 DEF BeaconInv, Proposed
  <2>6. PICK q \in safe_blocks[n] : C!id(q) = C!id(p)
    BY <2>5 DEF Receive, C!ids
  <2>7. p \in safe_blocks[n]
    BY <2>6, KnownBlocks DEF BeaconInv, SafeOK
  <2>8. AnchorOf(a, p)
    BY <1>1, <2>1, <2>5 DEF AnchorOf
  <2> QED BY <2>5, <2>7, <2>8 DEF Follows
<1> QED BY <1>3, <1>4

LEMMA ReceiveKeeps ==
  ASSUME BeaconInv, NEW n \in Nodes, NEW b, Receive(n, b), TimeoutQcsTyped'
  PROVE  BeaconInv'
<1>1. /\ known' = known /\ \A a, c : AnchorOf(a, c)' <=> AnchorOf(a, c)
      /\ Proposed' /\ OneProposalPerView' /\ Anchored'
  BY SameProposals DEF Receive
<1>2. answers' = answers
  BY DEF answers, Receive
<1>3. safe_blocks'[n] = safe_blocks[n] \cup {b} /\ \A k \in Nodes \ {n} : safe_blocks'[k] = safe_blocks[k]
  BY DEF Receive, BeaconInv, TypeOK
<1>4. TypeOK'
  BY <1>2 DEF BeaconInv, TypeOK, Receive, ViewsRise, TimeoutQcsTyped
<1>5. SafeOK' /\ VotesOK'
  <2>1. \A c : C!id(c)' = C!id(c)
    BY DEF C!id
  <2>2. genesis' = genesis
    BY DEF genesis, C!genesis_block, C!StandardQc
  <2>3. SafeOK'
    BY <1>1, <1>3, <2>2 DEF BeaconInv, SafeOK, Receive
  <2>4. \A v \in votes : v.sender \in Nodes /\ safe_blocks[v.sender] \subseteq safe_blocks'[v.sender]
    BY <1>3 DEF BeaconInv, TypeOK, answers
  <2>5. VotesOK'
    BY <2>1, <2>4 DEF BeaconInv, VotesOK, Receive
  <2> QED BY <2>3, <2>5
<1>6. NewViewsOK'
  BY DEF BeaconInv, TypeOK, answers, NewViewsOK, Past, Receive, ViewsRise
<1>7. ASSUME NEW k \in Nodes, NEW a \in known, Follows(k, a) PROVE Follows(k, a)'
  <2>1. CASE k = n
    <3>1. current_view[n] \in Nat /\ current_view'[n] \in Nat /\ current_view'[n] >= current_view[n]
      BY DEF BeaconInv, TypeOK, Receive, ViewsRise
    <3>2. current_view'[n] >= a.view - 1
      BY <1>7, <2>1, <3>1, KnownBlocks DEF Follows, BeaconInv
    <3>3. ASSUME NEW c \in known, AnchorOf(a, c), c \in safe_blocks'[n] PROVE current_view'[n] >= c.view
      BY <1>3, <1>7, <2>1, <3>1, <3>3, InTime, KnownBlocks DEF Follows, BeaconInv
    <3> QED BY <1>1, <1>2, <1>7, <2>1, <3>2, <3>3 DEF Follows, Receive
  <2>2. CASE k # n
    BY <1>1, <1>2, <1>3, <1>7, <2>2, OthersFollow DEF Receive
  <2> QED BY <2>1, <2>2
<1>8. AnchorQuorums'
  BY <1>1, <1>7, SameQuorums DEF BeaconInv
<1> QED BY <1>1, <1>4, <1>5, <1>6, <1>8 DEF BeaconInv

---------------------------------------------------------------------------
(* A proposal.                                                             *)

\* Carnot's instance of the module FiniteSets counts as this one does.
LEMMA SameCardinality == \A S : C!Cardinality(S) = Cardinality(S)
  BY DEF C!Cardinality, Cardinality

\* The senders of a quorum of messages.
LEMMA SendersOfQuorum ==
  ASSUME NEW ms, \A m \in ms : m.sender \in Nodes, C!quorums(Threshold, ms) # {}
  PROVE  \E Q : Quorum(Q) /\ \A n \in Q : \E m \in ms : m.sender = n
<1>1. PICK q \in C!quorums(Threshold, ms) : TRUE
  OBVIOUS
<1>2. q \in SUBSET ms /\ Cardinality(q) = Threshold /\ Cardinality({ m.sender : m \in q }) = Cardinality(q)
  BY <1>1, SameCardinality DEF C!quorums, C!from_distinct
<1> DEFINE Q == { m.sender : m \in q }
<1>3. Q \in SUBSET Nodes /\ Cardinality(Q) = Threshold
  BY <1>2
<1>4. Quorum(Q)
  BY <1>3, Thresholds DEF Quorum
<1> QED BY <1>2, <1>4

LEMMA QcOfVotes ==
  ASSUME BeaconInv, NEW n \in Nodes, NEW qc \in C!qcs_of_votes(n)
  PROVE  /\ C!is_standard(qc)
         /\ \E p \in known : qc.view = p.view /\ qc.block = C!id(p)
         /\ Backed(n, qc.view)
<1>1. PICK p \in safe_blocks[n] :
        /\ qc = [block |-> C!id(p), view |-> p.view]
        /\ C!quorums(Threshold, { m \in votes : n \in m.to /\ m.block = C!id(p) }) # {}
  BY Zenon DEF C!qcs_of_votes, C!StandardQc, votes
<1> DEFINE ms == { m \in votes : n \in m.to /\ m.block = C!id(p) }
<1>2. p \in known
  BY DEF BeaconInv, SafeOK
<1>3. \A m \in ms : m.sender \in Nodes
  BY DEF BeaconInv, TypeOK, answers
<1>4. PICK Q : Quorum(Q) /\ \A k \in Q : \E m \in ms : m.sender = k
  <2> HIDE DEF ms
  <2>1. C!quorums(Threshold, ms) # {}
    BY <1>1 DEF ms
  <2> QED BY <1>3, <2>1, SendersOfQuorum
<1>5. Backed(n, p.view)
  BY <1>2, <1>4 DEF Backed
<1> QED BY <1>1, <1>2, <1>5 DEF C!is_standard

LEMMA QcOfNewViews ==
  ASSUME BeaconInv, NEW n \in Nodes, NEW qc \in C!qcs_of_new_views(n)
  PROVE  /\ ~ C!is_standard(qc) /\ qc.view \in Nat
         /\ \E Q : Quorum(Q) /\ \A k \in Q : \E m \in new_views : m.sender = k /\ m.view = qc.view
         /\ Backed(n, qc.view)
<1>1. PICK view \in 1 .. MaxView :
        /\ \E high : qc = [highest_qc |-> high, view |-> view]
        /\ C!quorums(Threshold, { m \in new_views : n \in m.to /\ m.view = view }) # {}
  BY Zenon DEF C!qcs_of_new_views, C!AggregateQc, new_views
<1> DEFINE ms == { m \in new_views : n \in m.to /\ m.view = view }
<1>2. \A m \in ms : m.sender \in Nodes
  BY DEF BeaconInv, TypeOK, answers
<1>3. PICK Q : Quorum(Q) /\ \A k \in Q : \E m \in ms : m.sender = k
  <2> HIDE DEF ms
  <2>1. C!quorums(Threshold, ms) # {}
    BY <1>1 DEF ms
  <2> QED BY <1>2, <2>1, SendersOfQuorum
<1>4. ~ C!is_standard(qc) /\ qc.view = view /\ view \in Nat
  BY <1>1, ViewsAssumption DEF C!is_standard
<1>5. Backed(n, view)
  BY <1>3 DEF Backed
<1> QED BY <1>3, <1>4, <1>5

\* A quorum that follows the run of a block has one answer of each of its members in the block's view.
LEMMA OnceAnswered ==
  ASSUME BeaconInv, NEW b \in known
  PROVE  \E Q : /\ Quorum(Q)
                /\ \A n \in Q : \A m, o \in answers :
                     m.sender = n /\ o.sender = n /\ m.view = b.view /\ o.view = b.view => m = o
<1>1. PICK a \in known : AnchorOf(a, b)
  BY DEF BeaconInv, Anchored
<1>2. PICK Q : Quorum(Q) /\ \A n \in Q : Follows(n, a)
  BY <1>1 DEF BeaconInv, AnchorQuorums, AnchorOf
<1> QED BY <1>1, <1>2 DEF Follows

\* So no view has the answers for two proposers.
LEMMA OneIsBacked ==
  ASSUME BeaconInv, NEW view, NEW x, Backed(x, view), NEW y, Backed(y, view)
  PROVE  x = y
<1> DEFINE ByNewViews(Q, z) == \A n \in Q : \E m \in new_views : m.sender = n /\ m.view = view /\ z \in m.to
           ByVotes(Q, z, p) == \A n \in Q : \E m \in votes : m.sender = n /\ m.block = C!id(p) /\ z \in m.to
           Answered(Q, z) == \A n \in Q : \E m \in answers : m.sender = n /\ m.view = view /\ z \in m.to
<1>1. PICK Q : Quorum(Q) /\ (ByNewViews(Q, x) \/ \E p \in known : p.view = view /\ ByVotes(Q, x, p))
  BY DEF Backed
<1>2. PICK R : Quorum(R) /\ (ByNewViews(R, y) \/ \E p \in known : p.view = view /\ ByVotes(R, y, p))
  BY DEF Backed
<1>3. ASSUME NEW S, NEW z, NEW p \in known, p.view = view, ByVotes(S, z, p) PROVE Answered(S, z)
  <2>1. \A m \in votes : m.block = C!id(p) => m.view = view
    BY <1>3, VoteBlock DEF BeaconInv
  <2> QED BY <1>3, <2>1 DEF answers
<1>4. ASSUME NEW S, NEW z, ByNewViews(S, z) PROVE Answered(S, z)
  BY <1>4 DEF answers
<1>5. \A m \in answers : \E z : m.to = {z}
  BY DEF BeaconInv, TypeOK
<1>6. CASE ByNewViews(Q, x) /\ ByNewViews(R, y)
  <2>1. PICK n \in Nodes : n \in Q /\ n \in R
    BY <1>1, <1>2, ThreeQuorumsMeet
  <2>2. PICK m \in new_views : m.sender = n /\ m.view = view /\ x \in m.to
    BY <1>6, <2>1
  <2>3. PICK o \in new_views : o.sender = n /\ o.view = view /\ y \in o.to
    BY <1>6, <2>1
  <2>4. m = o
    BY <2>2, <2>3 DEF BeaconInv, NewViewsOK
  <2> QED BY <1>5, <2>2, <2>3, <2>4 DEF answers
<1>7. CASE \E b \in known : b.view = view
  <2>1. PICK b \in known : b.view = view
    BY <1>7
  <2>2. PICK P : /\ Quorum(P)
                 /\ \A n \in P : \A m, o \in answers :
                      m.sender = n /\ o.sender = n /\ m.view = b.view /\ o.view = b.view => m = o
    BY OnceAnswered
  <2>3. Answered(Q, x) /\ Answered(R, y)
    <3> HIDE DEF ByNewViews, ByVotes, Answered
    <3> QED BY <1>1, <1>2, <1>3, <1>4
  <2>4. PICK n \in Nodes : n \in P /\ n \in Q /\ n \in R
    BY <1>1, <1>2, <2>2, ThreeQuorumsMeet
  <2>5. PICK m \in answers : m.sender = n /\ m.view = view /\ x \in m.to
    BY <2>3, <2>4
  <2>6. PICK o \in answers : o.sender = n /\ o.view = view /\ y \in o.to
    BY <2>3, <2>4
  <2> QED BY <1>5, <2>1, <2>2, <2>4, <2>5, <2>6
<1> QED BY <1>1, <1>2, <1>6, <1>7

LEMMA ProposeKeeps ==
  ASSUME BeaconInv, NEW n \in Nodes, NEW m, Propose(n, m), TimeoutQcsTyped'
  PROVE  BeaconInv'
<1> DEFINE b == m.block
           w == b.view
           qc == b.qc
<1>1. /\ m.proposer = n /\ proposals' = proposals \cup {m} /\ w = qc.view + 1
      /\ UNCHANGED << current_view, highest_voted_view, safe_blocks, votes, new_views >>
  BY DEF Propose
<1>2. /\ qc.view \in Nat /\ Backed(n, qc.view)
      /\ Standard(b) => \E p \in known : qc.view = p.view /\ C!parent(b) = C!id(p)
      /\ ~ Standard(b) =>
           \E Q : Quorum(Q) /\ \A k \in Q : \E v \in new_views : v.sender = k /\ v.view = qc.view
  BY QcOfVotes, QcOfNewViews, KnownBlocks DEF Propose, Standard, C!parent, C!high_qc, BeaconInv
<1>3. w \in Nat \ {0} /\ w - 1 = qc.view
  BY <1>1, <1>2
<1>4. \A o \in proposals : o.block.view # w
  <2> SUFFICES ASSUME NEW o \in proposals, o.block.view = w PROVE FALSE
    OBVIOUS
  <2>1. Backed(o.proposer, w - 1)
    BY DEF BeaconInv, Proposed
  <2>2. o.proposer = n
    BY <1>2, <1>3, <2>1, OneIsBacked
  <2> QED BY <2>2 DEF Propose
<1>5. known' = known \cup {b} /\ answers' = answers /\ genesis' = genesis
      /\ (\A c : C!id(c)' = C!id(c) /\ C!parent(c)' = C!parent(c) /\ (Standard(c)' <=> Standard(c)))
  BY <1>1 DEF known, answers, genesis, C!genesis_block, C!StandardQc, C!id, C!parent, C!high_qc, Standard,
              C!is_standard
<1>6. \A c \in known : c.view \in Nat /\ c.view # w
  BY <1>3, <1>4, GenesisBlock, KnownBlocks DEF known, BeaconInv
<1> HIDE DEF b, w, qc
<1>7. TypeOK'
  BY <1>1, <1>3, <1>5 DEF BeaconInv, TypeOK, TimeoutQcsTyped, b, w, qc
<1>8. OneProposalPerView'
  BY <1>1, <1>4 DEF BeaconInv, OneProposalPerView, proposals, b, w
<1>9. SafeOK' /\ VotesOK' /\ NewViewsOK'
  BY <1>1, <1>5 DEF BeaconInv, SafeOK, VotesOK, NewViewsOK, Past
<1>10. Proposed'
  <2>1. ASSUME NEW o \in proposals
        PROVE  /\ Backed(o.proposer, o.block.view - 1)'
               /\ Standard(o.block) => \E p \in known' : p.view = o.block.view - 1 /\ C!parent(o.block) = C!id(p)
               /\ ~ Standard(o.block) =>
                    \E Q : Quorum(Q) /\ \A k \in Q : \E v \in new_views : v.sender = k /\ v.view = o.block.view - 1
    <3>1. Backed(o.proposer, o.block.view - 1)
      BY DEF BeaconInv, Proposed
    <3>2. Backed(o.proposer, o.block.view - 1)'
      BY <1>1, <3>1, BackedStays
    <3> QED BY <1>5, <3>2 DEF BeaconInv, Proposed
  <2>2. /\ Backed(n, w - 1)'
        /\ Standard(b) => \E p \in known' : p.view = w - 1 /\ C!parent(b) = C!id(p)
        /\ ~ Standard(b) =>
             \E Q : Quorum(Q) /\ \A k \in Q : \E v \in new_views : v.sender = k /\ v.view = w - 1
    <3>1. Backed(n, w - 1)
      BY <1>2, <1>3
    <3>2. Backed(n, w - 1)'
      BY <1>1, <3>1, BackedStays
    <3> QED BY <1>2, <1>3, <1>5, <3>2
  <2> QED BY <1>1, <1>5, <2>1, <2>2 DEF Proposed, Quorum, Threshold, b, w
<1>11. ASSUME NEW a, a.view \in Nat, NEW c \in known PROVE AnchorOf(a, c)' <=> AnchorOf(a, c)
  <2>1. AnchorOf(a, c) => AnchorOf(a, c)'
    BY <1>5 DEF AnchorOf
  <2>2. ASSUME AnchorOf(a, c)', NEW view \in a.view + 1 .. c.view PROVE \E d \in known : d.view = view /\ Standard(d)
    <3>1. PICK d \in known' : d.view = view /\ Standard(d)
      BY <1>5, <2>2 DEF AnchorOf
    <3>2. CASE d = b
      <4>1. view = w /\ c.view \in Nat /\ c.view # w /\ view <= c.view
        BY <1>6, <3>1, <3>2 DEF w
      <4>2. view + 1 \in a.view + 1 .. c.view
        BY <1>3, <1>11, <2>2, <4>1
      <4>3. PICK e \in known' : e.view = view + 1 /\ Standard(e)
        BY <1>5, <2>2, <4>2 DEF AnchorOf
      <4>4. e # b /\ e \in known /\ e # genesis
        BY <1>3, <1>5, <4>1, <4>3, GenesisBlock DEF w
      <4>5. PICK o \in proposals : o.block = e
        BY <4>4 DEF known
      <4>6. PICK p \in known : p.view = e.view - 1
        BY <4>3, <4>5 DEF BeaconInv, Proposed
      <4> QED BY <1>3, <1>6, <4>1, <4>3, <4>6
    <3> QED BY <1>5, <3>1, <3>2
  <2>3. AnchorOf(a, c)' => AnchorOf(a, c)
    BY <1>5, <2>2 DEF AnchorOf
  <2> QED BY <2>1, <2>3
<1>12. AnchorOf(b, b)' \/ Standard(b)
  BY <1>3, <1>5 DEF AnchorOf, w
<1>13. Anchored'
  <2>1. ASSUME NEW c \in known PROVE \E a \in known' : AnchorOf(a, c)'
    BY <1>5, <1>6, <1>11 DEF BeaconInv, Anchored
  <2>2. \E a \in known' : AnchorOf(a, b)'
    <3>1. CASE ~ Standard(b)
      BY <1>5, <1>12, <3>1
    <3>2. CASE Standard(b)
      <4>1. PICK p \in known : p.view = w - 1
        BY <1>2, <1>3, <3>2
      <4>2. PICK a \in known' : AnchorOf(a, p)'
        BY <2>1
      <4>3. a.view <= w - 1 /\ \A view \in a.view + 1 .. w - 1 : \E d \in known' : d.view = view /\ Standard(d)
        BY <1>5, <4>1, <4>2 DEF AnchorOf
      <4>4. a.view \in Nat
        BY <1>3, <1>5, <1>6 DEF w
      <4>5. \A view \in a.view + 1 .. w : \E d \in known' : d.view = view /\ Standard(d)
        BY <1>3, <1>5, <3>2, <4>3, <4>4 DEF w
      <4> QED BY <1>3, <1>5, <4>2, <4>3, <4>4, <4>5 DEF AnchorOf, w
    <3> QED BY <3>1, <3>2
  <2> QED BY <1>5, <2>1, <2>2 DEF Anchored
<1>14. \A k \in Nodes :
         /\ b \notin safe_blocks[k]
         /\ \A v \in answers : v.sender = k /\ v.view = w =>
              highest_voted_view[k] >= w /\ \A o \in answers : o.sender = k /\ o.view = w => v = o
  <2>1. b \notin known
    BY <1>6 DEF w
  <2>2. \A v \in votes : v.view # w
    BY <1>6, VoteBlock DEF BeaconInv
  <2> QED BY <2>1, <2>2 DEF BeaconInv, SafeOK, NewViewsOK, Past, answers
<1>15. ASSUME NEW k \in Nodes, NEW a \in known, Follows(k, a) PROVE Follows(k, a)'
  BY <1>1, <1>5, <1>6, <1>11, <1>14, <1>15 DEF Follows, w
<1>16. ASSUME ~ Standard(b), NEW k \in Nodes, NEW v \in new_views, v.sender = k, v.view = qc.view
       PROVE  Follows(k, b)'
  <2>1. current_view[k] >= w - 1
    BY <1>3, <1>16 DEF BeaconInv, NewViewsOK, Past
  <2>2. ASSUME NEW c \in known', AnchorOf(b, c)' PROVE c = b
    <3> SUFFICES ASSUME c # b PROVE FALSE
      OBVIOUS
    <3>1. c \in known /\ c.view \in Nat /\ c.view # w /\ w <= c.view
      BY <1>5, <1>6, <2>2 DEF AnchorOf, w
    <3>2. AnchorOf(b, c)
      BY <1>3, <1>11, <2>2, <3>1 DEF w
    <3>3. PICK d \in known : d.view = w + 1 /\ Standard(d)
      BY <1>3, <3>1, <3>2 DEF AnchorOf, w
    <3>4. d # genesis
      BY <1>3, <3>3, GenesisBlock
    <3>5. PICK o \in proposals : o.block = d
      BY <3>4 DEF known
    <3>6. PICK p \in known : p.view = d.view - 1
      BY <3>3, <3>5 DEF BeaconInv, Proposed
    <3> QED BY <1>3, <1>6, <3>3, <3>6
  <2> QED BY <1>1, <1>14, <2>1, <2>2, <1>5 DEF Follows, w
<1>17. AnchorQuorums'
  <2>1. ASSUME NEW a \in known, a = genesis \/ ~ Standard(a) PROVE \E Q : Quorum(Q) /\ \A k \in Q : Follows(k, a)'
    <3>1. PICK Q : Quorum(Q) /\ \A k \in Q : Follows(k, a)
      BY <2>1 DEF BeaconInv, AnchorQuorums
    <3> QED BY <1>15, <3>1 DEF Quorum
  <2>2. ASSUME ~ Standard(b) PROVE \E Q : Quorum(Q) /\ \A k \in Q : Follows(k, b)'
    <3>1. PICK Q : Quorum(Q) /\ \A k \in Q : \E v \in new_views : v.sender = k /\ v.view = qc.view
      BY <1>2, <2>2
    <3> QED BY <1>16, <2>2, <3>1 DEF Quorum
  <2>3. b # genesis
    BY <1>3, GenesisBlock DEF w
  <2> QED BY <1>5, <2>1, <2>2, <2>3 DEF AnchorQuorums, Quorum, Threshold
<1> QED BY <1>7, <1>8, <1>9, <1>10, <1>13, <1>17 DEF BeaconInv

---------------------------------------------------------------------------
(***************************************************************************)
(* The inductive invariant holds however views fail and messages are       *)
(* delayed.                                                                *)
(***************************************************************************)
THEOREM BeaconInvariant == BeaconSpec => []BeaconInv
<1>1. BeaconInv /\ [BeaconNext]_beacon_vars => BeaconInv'
  <2> SUFFICES ASSUME BeaconInv, [BeaconNext]_beacon_vars PROVE BeaconInv'
    OBVIOUS
  <2>1. TypeOK
    BY DEF BeaconInv
  <2> QED BY <2>1, Steps, QuietKeeps, VoteKeeps, NewViewKeeps, ReceiveKeeps, ProposeKeeps
<1> QED BY <1>1, InitInv, PTL DEF BeaconSpec

(***************************************************************************)
(* However nodes disagree on who leads, and although a node that missed a  *)
(* time-out QC may answer a view twice, and to different leaders: no view  *)
(* has two proposals.                                                      *)
(***************************************************************************)
THEOREM OneProposalPerViewAlways == BeaconSpec => []OneProposalPerView
<1>1. BeaconInv => OneProposalPerView
  BY DEF BeaconInv
<1> QED BY <1>1, BeaconInvariant, PTL
==========================================================================
