--------------------------- MODULE BeaconCarnot ---------------------------
(***************************************************************************)
(* The nodes of deprecated/carnot/beaconized_carnot.py, on the flat        *)
(* overlay: each keeps an overlay of its own, which the beacons of the     *)
(* blocks it votes for advance.  Everything else is Carnot with everybody  *)
(* in the root committee; its constant `leader' is not used here.          *)
(*                                                                         *)
(* A beacon is a signature over a view, so it is named by its signer and   *)
(* the view (beacon.py's verification then always succeeds).  The beacons  *)
(* of recovery never come to be: BeaconizedCarnot.receive_timeout_qc first *)
(* calls Carnot's, after which current_view is always past the QC's view,  *)
(* and returns.  For the same reason last_beacon, which only recovery      *)
(* reads, is not kept apart from the entropy of the overlay.               *)
(***************************************************************************)
EXTENDS Integers, FiniteSets

CONSTANTS
  Nodes, MaxView, TimeoutViews,   \* as in Carnot
  genesis_sk,                     \* the key that signs the genesis block's beacon
  choice                          \* random.choice of the nodes, seeded by an entropy

ASSUME NodesAssumption == IsFiniteSet(Nodes) /\ Nodes # {}
ASSUME ViewsAssumption == MaxView \in Nat /\ TimeoutViews \subseteq 1 .. MaxView - 1

VARIABLES
  current_view, highest_voted_view, local_high_qc, safe_blocks, last_view_timeout_qc, msgs,
  overlay   \* each node's FlatOverlay: [leader, entropy]

\* Faulty variant: two thirds, and not one more.
Threshold_short == (Cardinality(Nodes) * 2) \div 3

Threshold == (Cardinality(Nodes) * 2) \div 3 + 1

C == INSTANCE Carnot WITH
       root_committee <- Nodes, child_of_root <- Nodes,
       childs <- [n \in Nodes |-> {}], super_majority_threshold <- [n \in Nodes |-> 0],
       leader_super_majority_threshold <- Threshold,
       leader <- [v \in 1 .. MaxView + 1 |-> CHOOSE n \in Nodes : TRUE]

node_vars == << current_view, highest_voted_view, local_high_qc, safe_blocks, last_view_timeout_qc >>
beacon_vars == << node_vars, msgs, overlay >>

beacon(signer, view) == << signer, view >>

\* The entropies of a network's first overlay, of its genesis block, and of its blocks.
first_entropy == << genesis_sk >>
Entropy == {first_entropy, beacon(genesis_sk, -1)} \cup (Nodes \X (0 .. MaxView))

\* view_to_bytes writes a signed number into the bytes of an unsigned one: a view that
\* needs the highest bit of its bytes, 128 the first, raises.
has_bytes(view) == \A k \in 1 .. 3 : view < 2^(8*k - 1) \/ view >= 2^(8*k)

ASSUME ChoiceAssumption == choice \in [Entropy -> Nodes]

next_leader(o) == choice[o.entropy]

advance(o, entropy) == [leader |-> next_leader(o), entropy |-> entropy]

---------------------------------------------------------------------------
\* initial_setup of the tests: genesis is known and its beacon has advanced the overlays.
BeaconInit ==
  /\ current_view = [n \in Nodes |-> 1]
  /\ highest_voted_view = [n \in Nodes |-> -1]
  /\ local_high_qc = [n \in Nodes |-> C!genesis_block.qc]
  /\ safe_blocks = [n \in Nodes |-> {C!genesis_block}]
  /\ last_view_timeout_qc = [n \in Nodes |-> C!None]
  /\ overlay = [n \in Nodes |-> [leader |-> choice[first_entropy], entropy |-> beacon(genesis_sk, -1)]]
  /\ msgs = { [type |-> "vote", block |-> C!id(C!genesis_block), view |-> 0, sender |-> n,
               to |-> {choice[first_entropy]}] : n \in Nodes }

\* Faulty variant: the vote goes to the leader of before.
approve_block_before(n) ==
  \E block \in safe_blocks[n] :
    /\ block # C!genesis_block
    /\ overlay' = [overlay EXCEPT ![n] = advance(@, block.beacon)]
    /\ C!vote_for(n, block, {overlay[n].leader})

\* The overlay advances first; the vote goes to the leader it then names.
approve_block(n) ==
  \E block \in safe_blocks[n] :
    /\ block # C!genesis_block
    /\ overlay' = [overlay EXCEPT ![n] = advance(@, block.beacon)]
    /\ C!vote_for(n, block, {overlay'[n].leader})

approve_new_view(n) ==
  /\ \E timeout_qc \in C!sent("timeout_qc") :
       C!new_view_after(n, timeout_qc, {next_leader(overlay[n])})
  /\ UNCHANGED overlay

(***************************************************************************)
(* A node proposes when its overlay names it, whatever the others' name.   *)
(* It is asked for one proposal a view.                                    *)
(***************************************************************************)
propose_block(n) ==
  /\ overlay[n].leader = n
  /\ \E qc \in C!qcs_of_votes(n) \cup C!qcs_of_new_views(n) :
       /\ qc.view < MaxView /\ has_bytes(qc.view)
       /\ \A m \in C!sent("block") : m.proposer = n => m.block.view # qc.view + 1
       /\ C!Send([type |-> "block", proposer |-> n,
                  block |-> [view |-> qc.view + 1, qc |-> qc, beacon |-> beacon(n, qc.view)]])
  /\ UNCHANGED << node_vars, overlay >>

BeaconNext ==
  \E n \in Nodes :
    \/ approve_block(n) \/ approve_new_view(n) \/ propose_block(n)
    \/ /\ C!receive_block(n) \/ C!local_timeout(n) \/ C!timeout_detected(n) \/ C!receive_timeout_qc(n)
       /\ UNCHANGED overlay

BeaconSpec == BeaconInit /\ [][BeaconNext]_beacon_vars

\* Whatever can be delivered or done is, sooner or later.
FairBeaconSpec == BeaconSpec /\ WF_beacon_vars(BeaconNext)

---------------------------------------------------------------------------
\* Properties.

(***************************************************************************)
(* After a view failed, nodes that had voted in it and nodes that had not  *)
(* name different leaders for good.  Still no two blocks of one view are   *)
(* proposed: each node answers a view once, and quorums intersect.         *)
(***************************************************************************)
OneProposalPerView ==
  \A m, o \in C!sent("block") : m.block.view = o.block.view => m = o

voted(n) == { m.view : m \in { m \in C!sent("vote") : m.sender = n } }
skips_none(n) == \A v \in voted(n) : v = 0 \/ v - 1 \in voted(n)

(***************************************************************************)
(* As long as no timer fires and every node votes for the blocks in turn,  *)
(* the votes meet at a node that takes itself for the leader, and all but  *)
(* the last two blocks are committed everywhere.                           *)
(***************************************************************************)
BeaconProgress ==
  [](C!sent("timeout") = {} /\ \A n \in Nodes : skips_none(n)) =>
    <>(\A n \in Nodes : C!latest_committed_block(safe_blocks[n], current_view[n]).view = MaxView - 2)
==========================================================================
