------------------------------ MODULE Sync ------------------------------
(***************************************************************************)
(* sync() of cryptarchia/sync.py: a node, `local', catches up with the     *)
(* block trees of its peers.  In rounds it reads, peer by peer, the blocks *)
(* from its own tip's slot on, gives each to its Follower, and then        *)
(* backfills the forks of the blocks whose parents it did not know.  It is *)
(* one thread; peers, which are Followers too, receive blocks, go online   *)
(* and prune between any two of its steps.                                 *)
(***************************************************************************)
EXTENDS Follower

CONSTANTS
  Peer,
  PeerStarts,   \* what the peers may hold when sync() is called
  Arriving,     \* blocks that peers may still receive
  Checkpoints,  \* blocks that sync() may be given as a checkpoint
  Failures      \* may a peer fail while it is read?

ASSUME PeersAssumption == Peer # {} /\ PeerStarts # {} /\ Arriving \subseteq Blocks
\* A peer is a Follower made from a ledger state, that of `root': whatever it holds, it
\* holds the chain of down to there, and what is below when that is not genesis it lacks.
ASSUME StartsAssumption ==
  \A start \in PeerStarts :
    /\ DOMAIN start = Peer
    /\ \A p \in Peer :
         /\ DOMAIN start[p] = {"tip", "forks", "stored", "root", "state"}
         /\ {start[p].root, start[p].tip} \subseteq start[p].stored
         /\ start[p].stored \subseteq Blocks
         /\ start[p].forks \in Seq(start[p].stored \ {start[p].tip}) /\ IsInjective(start[p].forks)
         /\ \A b \in start[p].stored \ {start[p].root} :
              IsPrefix(start[p].root, b) /\ parent(b) \in start[p].stored
ASSUME CheckpointsAssumption == Checkpoints \subseteq Blocks /\ Failures \in BOOLEAN

VARIABLES
  peers,            \* each peer's [tip, forks, stored, root, state], as those of a Follower
  phase,            \* where in sync() the thread is
  start_slot,       \* first slot asked for in this round
  groups,           \* groups of peers with one tip that this round has still to read
  stream,           \* the group being read: [rest, pending, slot]
  num_blocks,       \* blocks fetched in this round, counted up to 1
  orphans,          \* blocks of this round whose parents were not known
  fork_tip,         \* the checkpoint or orphan being backfilled
  unasked,          \* peers that fetch_chain_backward has still to ask for its chain
  suffix,           \* blocks backfill_fork has still to add, lowest first
  rejected_blocks,  \* blocks refused in any round
  origin,           \* history: the first slot of the first round, Unset before it, and Moved
                    \* from the moment on at which a peer changes or fails in the call
  pruned            \* history: blocks that a peer has forgotten in the call

local_vars == vars
round_vars == << start_slot, groups, stream, num_blocks >>
backfill_vars == << fork_tip, unasked, suffix >>
sync_vars == << local_vars, peers, phase, round_vars, orphans, backfill_vars,
                rejected_blocks, origin, pruned >>

Unset == -1
Moved == -2

tip(p) == peers[p].tip

\* Faulty variant: the first slot left out.
blocks_by_slot_after(p, from_slot) == { b \in peers[p].stored : from_slot < slot(b) }

blocks_by_slot(p, from_slot) == { b \in peers[p].stored : from_slot =< slot(b) }
ahead(p, from_slot) == slot(tip(p)) > from_slot

filter_and_group_peers_by_tip(from_slot) ==
  { { q \in Peer : tip(q) = tip(p) } : p \in { p \in Peer : ahead(p, from_slot) } }

(***************************************************************************)
(* A peer yields its blocks by slot, and those of one slot in the order in *)
(* which it received them: a block never before its parent.                *)
(***************************************************************************)
first_of(blocks) ==
  { b \in blocks : \A c \in blocks \ {b} : slot(b) < slot(c) \/ (slot(b) = slot(c) /\ c # parent(b)) }

(***************************************************************************)
(* What fetch_chain_backward gets of the chain of b from one peer, as far  *)
(* as find_missing_part keeps it: from b down to the first block that the  *)
(* peer lacks or local has.  A peer that prunes makes itself a new         *)
(* dictionary, and a walk goes on in the one it began in.                  *)
(***************************************************************************)
missing_part(p, b) ==
  LET n == Cardinality(iter_chain(b, peers[p].stored \ states))
  IN  [i \in 1 .. n |-> At(b, Len(b) - n + i)]

\* The block whose turn it is in the walk from fork_tip towards genesis.
wanted == IF suffix = << >> THEN fork_tip ELSE parent(Head(suffix))

---------------------------------------------------------------------------
SyncInit ==
  /\ Init
  /\ peers \in PeerStarts
  /\ phase = "before"
  /\ start_slot = 0 /\ groups = {} /\ num_blocks = 0
  /\ stream = [rest |-> {}, pending |-> {}, slot |-> 0]
  /\ orphans = {}
  /\ fork_tip = Genesis /\ unasked = {} /\ suffix = << >>
  /\ rejected_blocks = {}
  /\ origin = Unset /\ pruned = {}

\* What local has done before it calls sync().
Before ==
  /\ phase = "before"
  /\ Next
  /\ UNCHANGED << peers, phase, round_vars, orphans, backfill_vars, rejected_blocks, origin, pruned >>

CallSync ==
  /\ phase = "before"
  /\ phase' = "round"
  /\ UNCHANGED << local_vars, peers, round_vars, orphans, backfill_vars, rejected_blocks, origin, pruned >>

\* backfill_fork, up to the first peer asked: none is when local has the block.
Backfill(b) ==
  /\ fork_tip' = b
  /\ unasked' = IF b \in states THEN {} ELSE Peer
  /\ suffix' = << >>

CallSyncFrom(checkpoint) ==
  /\ phase = "before"
  /\ phase' = "checkpoint"
  /\ Backfill(checkpoint)
  /\ UNCHANGED << local_vars, peers, round_vars, orphans, rejected_blocks, origin, pruned >>

\* Faulty variant: every round asks for the same slots as the first.
BeginRound_from_origin ==
  /\ phase = "round"
  /\ phase' = "fetch"
  /\ origin' = IF origin = Unset THEN slot(local_chain) ELSE origin
  /\ start_slot' = origin'
  /\ groups' = filter_and_group_peers_by_tip(origin')
  /\ num_blocks' = 0
  /\ orphans' = {}
  /\ UNCHANGED << local_vars, peers, stream, backfill_vars, rejected_blocks, pruned >>

\* The top of the loop, up to the first block asked for.
BeginRound ==
  /\ phase = "round"
  /\ phase' = "fetch"
  /\ start_slot' = slot(local_chain)
  /\ groups' = filter_and_group_peers_by_tip(slot(local_chain))
  /\ num_blocks' = 0
  /\ orphans' = {}
  /\ origin' = IF origin = Unset THEN slot(local_chain) ELSE origin
  /\ UNCHANGED << local_vars, peers, stream, backfill_vars, rejected_blocks, pruned >>

\* blocks_by_slot lists a peer's blocks when the first of them is asked for.
ReadPeer(p, others, from_slot) ==
  stream' = [rest |-> others \ {p}, pending |-> blocks_by_slot(p, from_slot), slot |-> from_slot]

ReadGroup(g, p) ==
  /\ phase = "fetch" /\ stream.pending = {}
  /\ g \in groups /\ p \in g
  /\ groups' = groups \ {g}
  /\ ReadPeer(p, g, start_slot)
  /\ UNCHANGED << local_vars, peers, phase, start_slot, num_blocks, orphans, backfill_vars,
                  rejected_blocks, origin, pruned >>

\* A peer fails before it has yielded all: the next one goes on from the last slot.
PeerFails ==
  /\ Failures
  /\ phase = "fetch" /\ stream.pending # {}
  /\ IF stream.rest = {}
       THEN stream' = [stream EXCEPT !.pending = {}]
       ELSE \E p \in stream.rest : ReadPeer(p, stream.rest, stream.slot)
  /\ origin' = Moved
  /\ UNCHANGED << local_vars, peers, phase, start_slot, groups, num_blocks, orphans,
                  backfill_vars, rejected_blocks, pruned >>

Processed(b) == DropKnown(b) \/ ExtendLocalChain(b) \/ ExtendFork(b)
Refused(b) == RaiseImmutableFork(b) \/ RaiseInvalidLeaderProof(b)

FetchBlock(b) ==
  /\ phase = "fetch" /\ b \in first_of(stream.pending)
  /\ stream' = [stream EXCEPT !.pending = @ \ {b}, !.slot = slot(b)]
  /\ num_blocks' = 1
  /\ \/ /\ {b, parent(b)} \cap rejected_blocks # {}
        /\ rejected_blocks' = rejected_blocks \cup {b}
        /\ UNCHANGED << local_vars, orphans >>
     \/ /\ {b, parent(b)} \cap rejected_blocks = {}
        /\ \/ Processed(b) /\ orphans' = orphans \ {b} /\ UNCHANGED rejected_blocks
           \/ RaiseParentNotFound(b) /\ orphans' = orphans \cup {b} /\ UNCHANGED rejected_blocks
           \/ Refused(b) /\ rejected_blocks' = rejected_blocks \cup {b} /\ UNCHANGED orphans
  /\ UNCHANGED << peers, phase, start_slot, groups, backfill_vars, origin, pruned >>

EndFetch ==
  /\ phase = "fetch" /\ stream.pending = {} /\ groups = {}
  /\ phase' = IF num_blocks = 0 THEN "done" ELSE "orphans"
  /\ UNCHANGED << local_vars, peers, round_vars, orphans, backfill_vars, rejected_blocks, origin, pruned >>

\* The orphans are gone through by descending slot.
next_orphans == { b \in orphans : \A c \in orphans : slot(c) =< slot(b) }

SkipOrphan(b) ==
  /\ phase = "orphans" /\ b \in next_orphans
  /\ b \in states \cup rejected_blocks
  /\ orphans' = orphans \ {b}
  /\ UNCHANGED << local_vars, peers, phase, round_vars, backfill_vars, rejected_blocks, origin, pruned >>

BackfillOrphan(b) ==
  /\ phase = "orphans" /\ b \in next_orphans
  /\ b \notin states \cup rejected_blocks
  /\ phase' = "backfill"
  /\ Backfill(b)
  /\ UNCHANGED << local_vars, peers, round_vars, orphans, rejected_blocks, origin, pruned >>

EndRound ==
  /\ phase = "orphans" /\ orphans = {}
  /\ phase' = "round"
  /\ UNCHANGED << local_vars, peers, round_vars, orphans, backfill_vars, rejected_blocks, origin, pruned >>

\* The walk goes on at the next peer, in whatever order they are listed, until it meets local's tree.
AskPeer(p) ==
  /\ phase \in {"checkpoint", "backfill"} /\ p \in unasked
  /\ suffix' = missing_part(p, wanted) \o suffix
  /\ UNCHANGED << local_vars, peers, phase, round_vars, orphans, fork_tip, rejected_blocks,
                  origin, pruned >>
  /\ unasked' = IF wanted' \in states THEN {} ELSE unasked \ {p}

\* The loop of backfill_fork, for a checkpoint or an orphan.
AddToFork ==
  /\ phase \in {"checkpoint", "backfill"} /\ unasked = {} /\ suffix # << >>
  /\ Processed(Head(suffix))
  /\ suffix' = Tail(suffix)
  /\ UNCHANGED << peers, phase, round_vars, orphans, fork_tip, unasked, rejected_blocks, origin,
                  pruned >>

NotAdded(b) == Refused(b) \/ RaiseParentNotFound(b)

\* InvalidBlockFromBackfillFork leaves sync() when the checkpoint's chain is backfilled.
CancelSync ==
  /\ phase = "checkpoint" /\ unasked = {} /\ suffix # << >>
  /\ NotAdded(Head(suffix))
  /\ phase' = "cancelled"
  /\ UNCHANGED << peers, round_vars, orphans, backfill_vars, rejected_blocks, origin, pruned >>

\* Faulty variants: the whole fork is given up, the blocks already added included, and
\* only the block that was refused.
invalid_suffix_all(b, rest) == ToSet(rest) \cup { At(b, h) : h \in 1 .. Len(b) }
invalid_suffix_head(b, rest) == {Head(rest)}

invalid_suffix(b, rest) == ToSet(rest)

RejectFork ==
  /\ phase = "backfill" /\ unasked = {} /\ suffix # << >>
  /\ NotAdded(Head(suffix))
  /\ rejected_blocks' = rejected_blocks \cup invalid_suffix(fork_tip, suffix)
  /\ suffix' = << >>
  /\ UNCHANGED << peers, phase, round_vars, orphans, fork_tip, unasked, origin, pruned >>

EndBackfill ==
  /\ phase \in {"checkpoint", "backfill"} /\ unasked = {} /\ suffix = << >>
  /\ IF phase = "checkpoint"
       THEN phase' = "round" /\ UNCHANGED orphans
       ELSE phase' = "orphans" /\ orphans' = orphans \ {fork_tip}
  /\ UNCHANGED << local_vars, peers, round_vars, backfill_vars, rejected_blocks, origin, pruned >>

---------------------------------------------------------------------------
(***************************************************************************)
(* The Followers that are peers; what one receives while local syncs is    *)
(* valid, but may stand too low.                                           *)
(***************************************************************************)
peer_lib(peer) ==
  IF peer.state = "ONLINE" THEN kth_back(peer.tip, K, peer.root, peer.stored) ELSE peer.root

peer_update_lib(peer) ==
  LET lib_ == peer_lib(peer)
  IN  IF peer.state = "ONLINE"
        THEN [peer EXCEPT
                !.forks = list_keep(@, { f \in peer.stored : is_ancestor(lib_, f, peer.stored) }),
                !.stored = kept(lib_, @)]
        ELSE peer

received(peer, b) ==
  LET stored == peer.stored \cup {b}
      tips == list_remove(Append(peer.forks, b), parent(b))
      new_tip == IF peer.state = "BOOTSTRAPPING" THEN maxvalid_bg(peer.tip, tips, K, S, stored)
                 ELSE maxvalid_mc(peer.tip, tips, K, stored)
  IN  peer_update_lib(
        IF parent(b) = peer.tip
          THEN [peer EXCEPT !.tip = b, !.stored = stored]
          ELSE [peer EXCEPT !.tip = new_tip, !.stored = stored,
                            !.forks = list_remove(Append(tips, peer.tip), new_tip)])

\* A peer changes during the call: what it holds when the call begins is in PeerStarts.
PeerBecomes(p, peer) ==
  /\ phase \notin {"before", "done", "cancelled"}
  /\ peers' = [peers EXCEPT ![p] = peer]
  /\ origin' = Moved
  /\ pruned' = pruned \cup (peers[p].stored \ peer.stored)
  /\ UNCHANGED << local_vars, phase, round_vars, orphans, backfill_vars, rejected_blocks >>

PeerReceives(p, b) ==
  /\ b \in Arriving \ peers[p].stored
  /\ parent(b) \in peers[p].stored
  /\ height(peer_lib(peers[p]), peers[p].stored) =< height(parent(b), peers[p].stored)
  /\ PeerBecomes(p, received(peers[p], b))

PeerToOnline(p) ==
  /\ peers[p].state = "BOOTSTRAPPING"
  /\ PeerBecomes(p, peer_update_lib([peers[p] EXCEPT !.state = "ONLINE"]))

SyncStep ==
  \/ BeginRound
  \/ \E g \in groups, p \in Peer : ReadGroup(g, p)
  \/ PeerFails
  \/ \E b \in stream.pending : FetchBlock(b)
  \/ EndFetch
  \/ \E b \in orphans : SkipOrphan(b) \/ BackfillOrphan(b)
  \/ EndRound
  \/ \E p \in unasked : AskPeer(p)
  \/ AddToFork
  \/ CancelSync
  \/ RejectFork
  \/ EndBackfill

SyncNext ==
  \/ Before
  \/ CallSync
  \/ \E cp \in Checkpoints : CallSyncFrom(cp)
  \/ SyncStep
  \/ \E p \in Peer : PeerToOnline(p) \/ \E b \in Arriving : PeerReceives(p, b)

SyncSpec == SyncInit /\ [][SyncNext]_sync_vars

\* Once called, sync() runs until it returns.
FairSyncSpec == SyncSpec /\ WF_sync_vars(SyncStep)

---------------------------------------------------------------------------
\* Properties.

(***************************************************************************)
(* A block is refused for ever only for one of three reasons: its chain    *)
(* holds a block whose proof is bad, it leaves local's chain below the     *)
(* lib, or it stands on the block that a peer was made from, which lacks   *)
(* the chain below.  (In the last case the other peers may be asked for    *)
(* the rest too early, or not have it, and the backfill of a good chain    *)
(* fails.)  So as long as peers hold their chains down to genesis, no      *)
(* order of fetching, no pruning and no failed backfill makes sync()       *)
(* refuse a good block, and sync() is cancelled for a bad checkpoint chain *)
(* only.  (While no note is minted a proof is good when genesis holds its  *)
(* note.)                                                                  *)
(***************************************************************************)
well_formed(b) == \A h \in 1 .. Len(b) : b[h].proof \in GenesisNotes \ Nullified

on_partial_chain(b) == \E p \in Peer : peers[p].root # Genesis /\ IsPrefix(peers[p].root, b)

refusable(b) == ~ well_formed(b) \/ ~ IsPrefix(lib, b) \/ on_partial_chain(b)

RefusalsHaveCause ==
  /\ \A b \in rejected_blocks : refusable(b)
  /\ phase = "cancelled" => refusable(Head(suffix))

(***************************************************************************)
(* An orphan leaves the round's set only because it is in local's tree or  *)
(* refused, or because the node, when it added the block, switched to a    *)
(* chain whose lib the block is not on, or because a peer has pruned it    *)
(* since the call began: then it may be that nobody has it any more when   *)
(* its turn comes, and it is passed over in silence.  No fetched block     *)
(* that peers keep is left behind.                                         *)
(***************************************************************************)
OrphansAreSettled ==
  [][\A b \in orphans \ orphans' :
       b \in states' \cup rejected_blocks' \/ ~ IsPrefix(lib', b) \/ b \in pruned]_sync_vars

(***************************************************************************)
(* When sync() returns to a node whose peers have rested, the node has or  *)
(* has refused every block, from its first slot on, of one peer of each    *)
(* group whose tip was ahead, save those that now leave its chain below    *)
(* the lib.                                                                *)
(***************************************************************************)
CaughtUp ==
  phase = "done" /\ origin # Moved =>
    \A p \in Peer : ahead(p, origin) =>
      \E q \in Peer : /\ tip(q) = tip(p)
                      /\ \A b \in peers[q].stored :
                           \/ slot(b) < origin
                           \/ b \in states \cup rejected_blocks
                           \/ ~ IsPrefix(lib, b)

(***************************************************************************)
(* sync() returns, unless peers fail again and again or from some moment   *)
(* on a peer's tip is ahead of local's by slot although local has or has   *)
(* refused that tip.                                                       *)
(***************************************************************************)
ended == phase \in {"done", "cancelled"}

stuck == \E p \in Peer : ahead(p, slot(local_chain)) /\ tip(p) \in states \cup rejected_blocks

EndsUnlessStuck ==
  <>[]stuck \/ []<><<PeerFails>>_sync_vars \/ (phase # "before" ~> ended)

(***************************************************************************)
(* sync()'s loop is there "because peers' tips may advance during the sync *)
(* process": so with peers that rest it ends.                              *)
(***************************************************************************)
EndsWhenPeersRest == phase # "before" ~> ended
==========================================================================
