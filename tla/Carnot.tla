------------------------------ MODULE Carnot ------------------------------
(***************************************************************************)
(* The nodes of deprecated/carnot/carnot.py and the messages they send one *)
(* another. The overlay of the tests never changes, and is a constant.     *)
(* Messages are never taken out of the network: a node may handle each     *)
(* late, twice, or never.                                                  *)
(***************************************************************************)
EXTENDS Integers, FiniteSets, FiniteSetsExt

CONSTANTS
  Nodes,
  leader,           \* the leader of each view
  root_committee,
  child_of_root,    \* nodes for which is_child_of_root_committee holds
  childs,           \* for each node the members of its child committees
  super_majority_threshold,          \* per node
  leader_super_majority_threshold,
  MaxView,          \* bound: no view beyond it is proposed, and it is not voted in
  TimeoutViews      \* the views in which the timers may fire

ASSUME OverlayAssumption ==
  /\ root_committee \subseteq Nodes /\ child_of_root \subseteq Nodes
  /\ childs \in [Nodes -> SUBSET Nodes]
  /\ super_majority_threshold \in [Nodes -> Nat]
  /\ leader_super_majority_threshold \in Nat \ {0}
  /\ MaxView \in Nat /\ TimeoutViews \subseteq 1 .. MaxView - 1
  /\ leader \in [1 .. MaxView + 1 -> Nodes]

(***************************************************************************)
(* The quorums of leaders. Those who vote to a leader or time out are the  *)
(* root committee and its children, and a leader waits for more than two   *)
(* thirds of them: FlatOverlay and CarnotOverlay both count                *)
(* (size * 2 // 3) + 1. The messages that reach a leader or a member of    *)
(* the root committee come from these nodes only: a leader from further    *)
(* down, with children of its own, would have to be told by its driver     *)
(* which votes it gets as their parent.                                    *)
(***************************************************************************)
ASSUME QuorumAssumption ==
  LET electors == root_committee \cup child_of_root
  IN  /\ IsFiniteSet(electors)
      /\ 3 * leader_super_majority_threshold > 2 * Cardinality(electors)
      /\ \A n \in root_committee \cup { leader[v] : v \in DOMAIN leader } : childs[n] \subseteq electors

VARIABLES
  current_view, highest_voted_view, local_high_qc, safe_blocks,
  last_view_timeout_qc,    \* its view; None, -1, before there is one
  msgs

node_vars == << current_view, highest_voted_view, local_high_qc, safe_blocks, last_view_timeout_qc >>
vars == << node_vars, msgs >>

None == -1

\* A StandardQc certifies a block; an AggregateQc a view that failed.
StandardQc(block, view) == [block |-> block, view |-> view]
AggregateQc(highest_qc, view) == [highest_qc |-> highest_qc, view |-> view]
is_standard(qc) == "block" \in DOMAIN qc
high_qc(qc) == IF is_standard(qc) THEN qc ELSE qc.highest_qc
highest(qcs) == CHOOSE qc \in qcs : \A other \in qcs : other.view <= qc.view

\* propose_block hashes the two views into the id of a block.
id(block) == << block.view, block.qc.view >>
parent(block) == high_qc(block.qc).block

genesis_block == [view |-> 0, qc |-> StandardQc(<< 0, 0 >>, 0)]

parent_committee(n) == { p \in Nodes : n \in childs[p] }

Send(m) == msgs' = msgs \cup {m}
sent(type) == { m \in msgs : m.type = type }
from_distinct(quorum) == Cardinality({ m.sender : m \in quorum }) = Cardinality(quorum)
\* Every quorum of k of the messages ms, one of a sender.
quorums(k, ms) == { q \in SUBSET ms : Cardinality(q) = k /\ from_distinct(q) }

---------------------------------------------------------------------------
(* What a set of safe blocks commits.                                      *)

block_with(i, blocks) == CHOOSE b \in blocks : id(b) = i
ids(blocks) == { id(b) : b \in blocks }

can_commit_grandparent(block, blocks) ==
  LET p == block_with(parent(block), blocks)
      grand_parent == block_with(parent(p), blocks)
  IN  /\ p.view = grand_parent.view + 1
      /\ is_standard(block.qc) /\ is_standard(p.qc)

\* Faulty variant: a block is committed as soon as it is safe.
latest_committed_block_tip(blocks, view) == CHOOSE b \in blocks : \A c \in blocks : c.view <= b.view

\* Faulty variant: a block is committed as soon as a safe block certifies it.
latest_committed_block_early(blocks, view) ==
  LET last == CHOOSE b \in blocks : \A c \in blocks : c.view <= b.view
  IN  block_with(parent(last), blocks)

latest_committed_block(blocks, view) ==
  LET committing == { b \in blocks : b.view \in 1 .. view /\ can_commit_grandparent(b, blocks) }
  IN  IF committing = {} THEN genesis_block
      ELSE LET last == CHOOSE b \in committing : \A c \in committing : c.view <= b.view
           IN  block_with(parent(block_with(parent(last), blocks)), blocks)

\* The ids of committed_blocks(): the latest committed block and all below it.
committed_blocks(blocks, view) ==
  LET down_from[b \in blocks] ==
        {id(b)} \cup IF b = genesis_block THEN {} ELSE down_from[block_with(parent(b), blocks)]
  IN  down_from[latest_committed_block(blocks, view)]

---------------------------------------------------------------------------
(* Handlers. Each is called by whoever drives the node once its            *)
(* preconditions hold, as the assertions demand.                           *)

Init ==
  /\ current_view = [n \in Nodes |-> 1]
  /\ highest_voted_view = [n \in Nodes |-> -1]
  /\ local_high_qc = [n \in Nodes |-> genesis_block.qc]
  /\ safe_blocks = [n \in Nodes |-> {genesis_block}]
  /\ last_view_timeout_qc = [n \in Nodes |-> None]
  /\ msgs = { [type |-> "vote", block |-> id(genesis_block), view |-> 0, sender |-> n, to |-> {leader[1]}] :
                n \in Nodes }

\* local_high_qc and current_view after update_high_qc.
raised(old_qc, new_qc) ==
  LET new == high_qc(new_qc)
  IN  IF \/ is_standard(new_qc) /\ new.view > old_qc.view
         \/ ~ is_standard(new_qc) /\ new.view # old_qc.view
      THEN new ELSE old_qc
view_after(view, qc) == IF qc.view = view THEN view + 1 ELSE view

block_is_safe(n, block) ==
  /\ block.view >= current_view[n]
  /\ block.view = block.qc.view + 1

ignored(n, block) ==
  \/ id(block) \in ids(safe_blocks[n])
  \/ \E b \in safe_blocks[n] : b.view = block.view
  \/ block.view <= latest_committed_block(safe_blocks[n], current_view[n]).view

receive_block(n) ==
  \E m \in sent("block") :
    LET block == m.block
    IN  /\ parent(block) \in ids(safe_blocks[n])
        /\ ~ ignored(n, block) /\ block_is_safe(n, block)
        /\ safe_blocks' = [safe_blocks EXCEPT ![n] = @ \cup {block}]
        /\ local_high_qc' = [local_high_qc EXCEPT ![n] = raised(@, block.qc)]
        /\ current_view' = [current_view EXCEPT ![n] = view_after(@, block.qc)]
        /\ UNCHANGED << highest_voted_view, last_view_timeout_qc, msgs >>

\* Votes and new views go to the parent committee, the root's to the next leader.
upwards(n, view) == IF n \in root_committee THEN {leader[view + 1]} ELSE parent_committee(n)
from_children(n, type) == { m \in sent(type) : n \in m.to /\ m.sender \in childs[n] }

vote_for(n, block, to) ==
  /\ block.view \in 1 .. MaxView - 1    \* the last view's votes are for no proposal
  /\ highest_voted_view[n] < block.view
  /\ \E votes \in quorums(super_majority_threshold[n],
                          { m \in from_children(n, "vote") : m.block = id(block) }) :
       /\ highest_voted_view' = [highest_voted_view EXCEPT ![n] = block.view]
       /\ Send([type |-> "vote", block |-> id(block), view |-> block.view, sender |-> n, to |-> to])
  /\ UNCHANGED << current_view, local_high_qc, safe_blocks, last_view_timeout_qc >>

approve_block(n) == \E block \in safe_blocks[n] : vote_for(n, block, upwards(n, block.view))

\* Faulty variant: a vote is forwarded before the node's own only.
forward_vote_early(n) ==
  /\ n \in root_committee
  /\ \E m \in from_children(n, "vote") :
       /\ m.block \in ids(safe_blocks[n])
       /\ highest_voted_view[n] < m.view
       /\ Send([m EXCEPT !.to = {leader[m.view + 1]}])
  /\ UNCHANGED node_vars

\* Only the root has somebody to forward to.
forward_vote(n) ==
  /\ n \in root_committee
  /\ \E m \in from_children(n, "vote") :
       /\ m.block \in ids(safe_blocks[n])
       /\ highest_voted_view[n] = m.view
       /\ Send([m EXCEPT !.to = {leader[m.view + 1]}])
  /\ UNCHANGED node_vars

\* Faulty variant: the view is taken for the one that failed.
forward_new_view_late(n) ==
  /\ n \in root_committee
  /\ \E m \in from_children(n, "new_view") :
       /\ m.view + 1 = current_view[n]
       /\ highest_voted_view[n] = m.view
       /\ Send([m EXCEPT !.to = {leader[m.view + 1]}])
  /\ UNCHANGED node_vars

forward_new_view(n) ==
  /\ n \in root_committee
  /\ \E m \in from_children(n, "new_view") :
       /\ m.view = current_view[n]
       /\ highest_voted_view[n] = m.view
       /\ Send([m EXCEPT !.to = {leader[m.view + 1]}])
  /\ UNCHANGED node_vars

\* A leader is asked for one proposal a view, the successor of its quorum's.
may_propose(n, view) ==
  /\ view <= MaxView
  /\ leader[view] = n
  /\ \A m \in sent("block") : m.block.view # view

\* What a leader can make of the votes it was sent, and of the new views.
qcs_of_votes(n) ==
  { StandardQc(id(block), block.view) : block \in
      { b \in safe_blocks[n] :
          quorums(leader_super_majority_threshold,
                  { m \in sent("vote") : n \in m.to /\ m.block = id(b) }) # {} } }

\* Faulty variant: the aggregate's high QC is the leader's own.
qcs_of_new_views_own(n) ==
  UNION { { AggregateQc(local_high_qc[n], view) :
              quorum \in quorums(leader_super_majority_threshold,
                                 { m \in sent("new_view") : n \in m.to /\ m.view = view }) } :
            view \in 1 .. MaxView }

qcs_of_new_views(n) ==
  UNION { { AggregateQc(highest({ m.high_qc : m \in quorum }), view) :
              quorum \in quorums(leader_super_majority_threshold,
                                 { m \in sent("new_view") : n \in m.to /\ m.view = view }) } :
            view \in 1 .. MaxView }

propose_block(n) ==
  \E qc \in qcs_of_votes(n) \cup qcs_of_new_views(n) :
    /\ may_propose(n, qc.view + 1)
    /\ Send([type |-> "block", block |-> [view |-> qc.view + 1, qc |-> qc]])
    /\ UNCHANGED node_vars

local_timeout(n) ==
  /\ current_view[n] \in TimeoutViews
  /\ highest_voted_view' = [highest_voted_view EXCEPT ![n] = current_view[n]]
  /\ IF n \in root_committee \cup child_of_root
     THEN Send([type |-> "timeout", view |-> current_view[n], high_qc |-> local_high_qc[n], sender |-> n])
     ELSE UNCHANGED msgs
  /\ UNCHANGED << current_view, local_high_qc, safe_blocks, last_view_timeout_qc >>

timeout_detected(n) ==
  /\ n \in root_committee
  /\ \E view \in TimeoutViews :
       /\ view >= current_view[n]
       /\ \E quorum \in quorums(leader_super_majority_threshold,
                                { m \in sent("timeout") : m.view = view }) :
            Send([type |-> "timeout_qc", view |-> view,
                  high_qc |-> highest({ m.high_qc : m \in quorum })])
  /\ UNCHANGED node_vars

\* Faulty variant: a timeout QC of a view long passed is followed.
receive_timeout_qc_old(n) ==
  \E m \in sent("timeout_qc") :
    /\ local_high_qc' = [local_high_qc EXCEPT ![n] = raised(@, m.high_qc)]
    /\ last_view_timeout_qc' = [last_view_timeout_qc EXCEPT ![n] = Max({@, m.view})]
    /\ current_view' = [current_view EXCEPT ![n] = m.view + 1]
    /\ UNCHANGED << highest_voted_view, safe_blocks, msgs >>

receive_timeout_qc(n) ==
  \E m \in sent("timeout_qc") :
    /\ m.view >= current_view[n]
    /\ local_high_qc' = [local_high_qc EXCEPT ![n] = raised(@, m.high_qc)]
    /\ last_view_timeout_qc' = [last_view_timeout_qc EXCEPT ![n] = Max({@, m.view})]
    /\ current_view' = [current_view EXCEPT ![n] = m.view + 1]
    /\ UNCHANGED << highest_voted_view, safe_blocks, msgs >>

\* approve_new_view(timeout_qc, new_views), once receive_timeout_qc has seen the QC.
new_view_after(n, timeout_qc, to) ==
  LET view == timeout_qc.view + 1
  IN  /\ current_view[n] >= view
      /\ highest_voted_view[n] < view
      /\ \E new_views \in quorums(super_majority_threshold[n],
                                  { m \in from_children(n, "new_view") : m.view = view }) :
           LET qc == highest({timeout_qc.high_qc} \cup { m.high_qc : m \in new_views })
           IN  /\ new_views # {} => view > last_view_timeout_qc[n]
               /\ local_high_qc' = [local_high_qc EXCEPT ![n] = raised(@, qc)]
               /\ current_view' = [current_view EXCEPT ![n] = view_after(@, qc)]
               /\ highest_voted_view' = [highest_voted_view EXCEPT ![n] = view]
               /\ Send([type |-> "new_view", view |-> view, high_qc |-> local_high_qc'[n],
                        sender |-> n, to |-> to])
      /\ UNCHANGED << safe_blocks, last_view_timeout_qc >>

approve_new_view(n) ==
  \E timeout_qc \in sent("timeout_qc") :
    new_view_after(n, timeout_qc, upwards(n, timeout_qc.view + 1))

Next ==
  \E n \in Nodes :
    \/ receive_block(n) \/ approve_block(n) \/ forward_vote(n) \/ forward_new_view(n)
    \/ propose_block(n)
    \/ local_timeout(n) \/ timeout_detected(n) \/ receive_timeout_qc(n) \/ approve_new_view(n)

Spec == Init /\ [][Next]_vars

\* Whatever can be delivered or done is, sooner or later.
FairSpec == Spec /\ WF_vars(Next)

---------------------------------------------------------------------------
(* Properties.                                                             *)

committed(n) == committed_blocks(safe_blocks[n], current_view[n])

(***************************************************************************)
(* Carnot avoids reorgs: what any two nodes have committed is on one chain *)
(* (latest_committed_block, 303-309), and a node's committed blocks stay   *)
(* committed whatever it receives later.                                   *)
(***************************************************************************)
Agreement ==
  LET chains == { committed(n) : n \in Nodes }
  IN  \A x, y \in chains : x \subseteq y \/ y \subseteq x

CommitsStay ==
  [][\A n \in Nodes : \A blocks \in {safe_blocks'[n]}, view \in {current_view'[n]} :
       blocks # safe_blocks[n] \/ view # current_view[n]
       => committed(n) \subseteq committed_blocks(blocks, view)]_vars

(***************************************************************************)
(* Why that is so: once a quorum has voted for a block, every block of a   *)
(* later view carries a QC at least as recent as that block's own, however *)
(* many nodes missed the block, its QC or a view change, and although      *)
(* update_high_qc lets an aggregate lower a high QC. Such a block could be *)
(* all that makes its parent committed.                                    *)
(***************************************************************************)
voters(block) ==
  { n \in root_committee \cup child_of_root : \E m \in sent("vote") : m.sender = n /\ m.block = id(block) }

CertifiedQcSurvives ==
  \A m, later \in sent("block") :
    /\ Cardinality(voters(m.block)) >= leader_super_majority_threshold
    /\ later.block.view > m.block.view
    => high_qc(later.block.qc).view >= high_qc(m.block.qc).view

\* A late timeout QC, a QC in a block or in a new view never take a node to an earlier view.
ViewsOnlyRise == [][\A n \in Nodes : current_view'[n] >= current_view[n]]_vars

\* When no timer ever fires, every block but the last two is committed by every node.
Progress ==
  [](sent("timeout") = {}) =>
    <>(\A n \in Nodes : latest_committed_block(safe_blocks[n], current_view[n]).view = MaxView - 2)

(***************************************************************************)
(* However votes and timeouts race in the first view, a later block is     *)
(* proposed: timeouts become a QC, new views climb the overlay and are     *)
(* forwarded, unless the votes were enough.                                *)
(***************************************************************************)
FailedViewIsLeft == <>(\E m \in sent("block") : m.block.view > 1)

---------------------------------------------------------------------------
(* A statement of the source that the code does not keep.                  *)

\* highest_voted_view is there to prevent a node from voting twice or after a timeout (261).
VotesCounted ==
  \A m \in sent("vote") \cup sent("timeout") : m.view > 0 => m.view <= highest_voted_view[m.sender]
==========================================================================
