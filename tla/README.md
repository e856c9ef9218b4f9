# A verification of nomos-specs

TLA+ modules, TLC configurations and TLAPS proofs for the protocols that
`src/` specifies in Python. The modules follow the code, line by line where it
decides anything; the map in `PROJECT.json` names the lines of each definition.
Modelled are the Cryptarchia consensus (the `Follower` and its
synchronisation), the Carnot consensus with its tree overlay and its beaconized
nodes, the mixnet, and the DA layer: encoding and KZG, dispersal and reading, and
the assignment of nodes to subnetworks. What is said of the Follower, and the safety of
`sync`, of Carnot and of the assignment, is also proved, for every size (section 5). What is left out is said in section 6.

## 1. Inventory

| part | state it keeps | operations | how it interacts |
|---|---|---|---|
| block tree, `cryptarchia.py` 574-739 | none (functions over `ledger_state`) | `iter_chain`, `height`, `is_ancestor`, `common_prefix_depth`, `chain_density`, `maxvalid_bg`, `maxvalid_mc` | called by the Follower |
| `Follower`, `cryptarchia.py` 316-535 | `local_chain`, `forks`, `ledger_state`, `epoch_state`, `state`, `lib` | `on_block`, `to_online`, `compute_epoch_state`, `blocks_by_slot` | receives headers, raises on refusal; read by `sync` and by leaders |
| `Leader`, `cryptarchia.py` 538-572 | none | `try_prove_slot_leader` | makes the proofs `on_block` verifies |
| `sync`, `sync.py` | per call: orphans, refused blocks, the stream of blocks from a peer | rounds of fetching, backfilling of orphans, an optional checkpoint | drives the local Follower, reads the peers' |
| Carnot node, `deprecated/carnot/carnot.py` | `current_view`, `highest_voted_view`, `local_high_qc`, `safe_blocks`, `last_view_timeout_qc` | block, vote, time-out and new-view handlers | messages to committees and leaders |
| Carnot overlays | list of nodes, leader, committees, entropy | `advance`, parents and children, thresholds | asked by the node; replaced once a view by the beaconized node |
| Carnot beacon and beaconized node | the last beacon | `verify_happy`, `verify_unhappy`, the node's handlers on top | moves the overlay from view to view |
| DA assignation, `refill.py` | two heaps, one set per subnetwork | shrink, grow, fill | pure function of the previous assignation |
| DA encoding and KZG, `da/encoder.py`, `da/kzg_rs` | none (functions over a prime field and its groups) | `encode`, polynomial arithmetic, `fft`, `rs`, proofs one by one and by FK20 | called by clients and by `verify` |
| DA API and dispersal, `da/api`, `da/dispersal.py`, `da/verifier.py` | each node's shares by blob id, blob ids by application and index | `disperse`, `verify`, `write`, `read` | client to nodes; certificates from a chain that nodes read |
| Mixnet, `deprecated/mixnet_v1` | topology, packet queues, tasks, fragment sets | publish, emit, process with delay, reconstruct | asyncio tasks, Poisson clocks, sockets |

What is hard in each, and what makes each correct:

* **Follower.** Headers arrive in any order, on any fork. Four variables are
  maintained by hand in one handler and pruned by another; the fork choice rule
  changes when the node goes online; the memo of the epochs outlives the chains
  it was computed on. Correct: the fork list is the set of leaves, chains are
  never cut, an immutable block is never reverted, an online node switches only
  to longer chains and not too deep, leadership is decided by a ledger state two
  epochs old.
* **sync.** One thread, but its peers change between any two of its steps and
  may fail, prune, or lack the lower part of their chains. Correct: as long as peers
  hold their chains no good block is refused for ever, no orphan that peers keep is
  forgotten, the node ends up with what its peers had, and the call returns.
* **Carnot.** Votes, time-outs and new views race, and some nodes miss some of
  them; correct: votes are counted, views only rise, what is
  certified survives a failed view, two committed blocks never conflict, a failed
  view is left.
* **Tree overlay.** Cutting and index arithmetic; correct: every node is in one
  committee, parents and children agree, every threshold can be met.
* **Refill.** Loops over heaps, sampling and counting by hand; correct: they end, nothing is
  taken from an empty heap, every subnetwork reaches the replication factor, every active node
  serves and no other.
* **Beaconized nodes.** Each advances an overlay of its own by what it votes for, so
  that nodes may disagree on who leads; correct: still no view has two proposals, and
  nodes that vote in step commit.
* **Mixnet.** Concurrent tasks, delays and losses; packets are repeated instead of
  acknowledged. Correct: what is put together is what was published, where it was
  meant to go, not more often than copies were sent, and in spite of a loss.
* **DA.** Shares and certificates reach nodes in any order, some altered, some at other
  nodes, some never; proofs rest on hand-written polynomial arithmetic. Correct: honest columns
  verify, no node holds a column of which one chunk was changed, enough answers of different columns for an
  index decode to the data certified first for it, and what did not go astray can be read in the end.

`PROJECT.json` lists the hazards at their lines, with the properties about them.

## 2. Modules

```
BlockTree          chains, depth, density, the two fork choice rules
  Follower         the state machine         ImmutableLedger   its promise
    CommonPrefix   the loop of common_prefix_depth   (INSTANCE in Follower)
      MCFollower     instances for TLC
    Sync           sync() on a Follower
      MCSync       instances for TLC
      SyncTheorems   the invariant of sync() and its theorems (+ FollowerTheorems)
    FollowerTheorems  chains, loops, lists; the tree under extension, forks and
                      pruning; the inductive invariant, the theorems, the
                      refinement; types, epoch states and their memo; the loop
                      of common_prefix_depth (+ CommonPrefix, Lemmas)
Lemmas             induction over an interval, extremes of finite sets, quorums
Carnot             nodes, messages, committed blocks
  MCCarnot         a flat overlay of 4 nodes, the tests' tree of 5
  CarnotTheorems   the inductive invariant, part by part; chains of safe blocks;
                   the theorems (+ Lemmas)
  BeaconCarnot     nodes with overlays of their own (C == INSTANCE Carnot)
    MCBeaconCarnot   4 nodes
    BeaconTheorems   the inductive invariant and the theorem (+ Lemmas)
TreeOverlay        committees, thresholds, advance()
  MCTreeOverlay    instances for TLC
  TreeTheorems     how the division cuts a list, and the theorems (+ Lemmas)
Refill             assignment of nodes to subnetworks, session after session
  MCRefill         instances for TLC
Packet             fragments and their reconstruction
  Mixnet           client, mix nodes, destinations
    MCMixnet       2 layers of 3 candidates
    MixnetTheorems   cutting and joining, bags, fragments and routes; the inductive
                     invariant and the theorems (+ Lemmas)
Kzg                polynomials, transforms, commitments and proofs
  DaFlow           encoding, dispersal, certificates, reading
    MCDaFlow       4 nodes, a field of 97
DaTheorems         the invariant of Refill's loops; indexes follow the chain; sums, powers
                   and polynomials over the field, altered shares, what is stored
                   (+ Refill, DaFlow, Lemmas)
```

**BlockTree.** A block id is a hash over the header, its parent's id included,
so that an id fixes the chain below it. The model takes that chain itself as the
id: a block is the sequence of the `[slot, proof]` headers down to genesis,
`<< >>`. Ids that differ in content differ, ids that agree are the same block,
and `parent` is "without the last header", which is all that a
collision-free hash gives the code. The `states` argument of every operator is,
as in Python, the set of ids that have a ledger state; chains stop where it
does. `common_prefix_depth` is modelled by the block its two interleaved
generators meet at. Fork choice is a fold over the fork list, in its order.

**CommonPrefix.** The loop behind that operator, as a function of the number of iterations:
the two generators advance in turn (`walk` is one half of an iteration), either may be
spent before the other, and `seen` maps each block yielded to its depth. In every state that
a Follower reaches, the loop is run between any two of its tips and compared with the operator.

**Follower.** The variables are the attributes of the class. `ledger_state` maps
a block to the commitments of its ledger state; nullifiers never change in the
code and are a constant, and `leader_count` is the block's height, since `apply`
adds one to a copy of the parent's. `on_block` is the disjunction of the six
ways it can end, each with the whole effect of the call: `DropKnown`,
`RaiseParentNotFound`, `RaiseImmutableFork`, `RaiseInvalidLeaderProof` (which
does leave its mark, in the epoch memo), `ExtendLocalChain` and `ExtendFork`,
the last two including `update_lib` and its pruning when the node is online
(`settle`). `compute_epoch_state` is `epoch_states` (what it returns for each
epoch) and `memoised` (what it stores). The floating-point estimate is computed
over exact fractions and truncated; the rate and ln(1/(1-f)) are rational
constants. A leader proof is the note it was made for, or `Misbound` when it was
made for another slot or parent (`MockLeaderProof.verify`).
Two actions are external: `MintNote`, the ledger's transactions as the tests
play them, and `Rebootstrap`, the assignment `test_fork_choice.py` makes to send
an online node back to bootstrapping; only `RestartSpec` has the latter, which no run
uses: the theorems of section 5 that name it hold with it.

**ImmutableLedger.** What a Follower promises: `tip` and `final` are blocks,
`final` is below `tip`, it stays at genesis until the node goes online and then
only rises along its own chain. `KeepsPromise` maps `tip`, `final` and `mode` to
`local_chain`, `lib` and `state`.

**Sync.** Extends Follower: the Follower's variables are those of `local`. `phase`
says where the thread is; each block fetched, orphan examined and block
backfilled is a step, so that peers change in between. `Before` lets local reach
any state of a Follower first; `CallSync` and `CallSyncFrom` enter `sync`. Peers
are Followers too, bootstrapping or online: each has its tip, fork list and
stored blocks, and the block it was made from, `root`. That is genesis or, as a Follower can be made
from any ledger state, a later block; such a peer lacks the chain below. While the call lasts, peers receive blocks
(`PeerReceives`), go online (`PeerToOnline`) and, online, prune (`peer_update_lib`). Peers may also hold
blocks no Follower would accept, which is how
`test_sync.py` (464-467) builds dishonest ones. `filter_and_group_peers_by_tip`,
`blocks_by_slot`, the replacement of a failing peer (`PeerFails`), the descent of
the orphans by slot and the three ways of ending are as in the code.
`fetch_chain_backward` is a walk from `fork_tip` down: each peer in turn is asked for the block `wanted`, gives of
its chain what it has (`missing_part`), and is not asked again (`AskPeer`, `unasked`); the walk ends when it meets local's tree or
everybody was asked. It asks in any order, as nothing fixes that of the list, and peers may change between two turns. Within
its turn a peer answers at once: pruning makes a new dictionary, and the
iteration goes on over the old one.
A failure after a peer's last block is left out: it would ask another peer for the
last slot once more. Two variables are history: `origin`, the first slot asked for, and whether
a peer has moved since; `pruned`, the blocks that peers have forgotten in the call.

**Carnot.** The variables are the attributes of the nodes, as functions of the node,
and `msgs`, every message ever sent: each may be handled late, twice or never.
Every handler is an action, `update_high_qc` and the other helpers it calls
included. The source leaves to a caller when a handler is called, and asserts what
the caller has to see to; the actions have these assertions as guards, so that a failed assertion
or an early return is no step. What the source leaves unsaid the model takes from its
tests and docstrings: a leader proposes once in a view, in the view after its
quorum's; a quorum's messages are from distinct nodes; `approve_new_view` follows
`receive_timeout_qc` of the same QC. `carnot.py` itself never changes its overlay,
which is therefore a constant. A block's id is the pair of views that `propose_block` hashes, and of a
QC only what is read again is kept. `committed_blocks` is computed from
`safe_blocks` as the code does, from the latest view down. Nodes are honest.
`SecondViewSpec` starts where a first view without time-outs ends, which puts more
of the bounded views after an interesting point.

**BeaconCarnot.** Composes `Carnot`, by INSTANCE with everybody in the root committee, with what
`beaconized_carnot.py` overrides. Each node has its own flat overlay (`leader`, `entropy`). A beacon
is a signature over a view, so it is the pair of its signer and the view; `choice` stands for
the seeded `random.choice`. `approve_block` advances the node's overlay by the block's beacon and
only then addresses the vote; `propose_block` has its assertion that the node is the leader
by its own overlay as a guard. The model starts where the tests' `initial_setup` ends.
`receive_timeout_qc` calls Carnot's first, which raises `current_view` past the QC's
view, so that the early return is always taken: the branch that would make a beacon of recovery is
dead code, and `last_beacon`, which only it reads, is no variable.

**TreeOverlay.** `CarnotTree` is what it builds, the committees by index; an id is a hash of the
committee's members, here the set. An entropy is the shuffle and the choice it
seeds. The constructor shuffles its copy of the list and builds the tree from the
list it was given, so committees are one shuffle behind, as the tests want it.

**Refill.** A call starts from the assignation the last one returned and from any
set of active nodes. Each iteration of the loops of shrink, grow and fill is an
action; a heap's pop is the least element in the order of the class, and `sample` is
any subset of the size asked for. A call with too few nodes raises before it does anything
and is no step.

**Packet, Mixnet.** `Packet` cuts messages and puts them together. A Sphinx packet is what its
layers hide: a fragment and the nodes still to pass. Bytes are opaque, `ByteValues` is how many
an unsigned byte has (3 in the run for 256). In `Mixnet` a node handles each packet in a
task that sleeps for its own delay, and queues and sockets never block, so what is
on its way is one bag of packets of which any may be next. `emit` is one turn of the client's loop:
a redundant copy if one is queued, else a real packet with its copies, else a cover packet.
`set_topology` is an entropy that reaches the client; nodes need not know the
topology, a packet carries its route. The clock's ticks are abstracted to "the next turn
comes". `Lose` is external. A destination reconstructs as `test_packet.py` does: `src/` has no
other receiver.

**Kzg.** `da/kzg_rs` over a small prime field. Points of G1 and G2 are named by their discrete
logarithm: addition and multiplication by a scalar are the field's, and the equation of pairings becomes one
of products. The rest is computed as in the code: `divide` turn by turn with its pop
of leading zeros, `fft` by halves, FK20's three Toeplitz steps. `ascending` is the order
in which `decode` keeps the points that it has, and that of sorted ids. `interpolate` is eth2spec's and
external, and so are hashes.

**DaFlow.** `shares_of` is what `DAEncoder.encode` makes of a publication. `disperse` pairs the sorted
nodes (`sorted_ids`) and the columns until either are spent (`pairs_left`), and `send_and_await_response`
sends one share a step and goes on whatever the response. A share arrives intact, or it goes astray
(`go_astray`): it is lost, or arrives at any node, its own or another one, with anything of `Changes` added to any of its
chunks (`altered`). `receive_blob`, `add` and `read` are the
node and the store of `test_full_flow.py` and `test_flow.py`, which are the only ones. Certificates
come from a chain that any number of blocks extend and each node reads at its own pace. Only the
`verify` of a share keeps it out of a store, only `ValueError` keeps a written index.

Operators named `x_something` beside an operator `x` are its faulty variants
(a lost guard, a swapped comparison, a missing step). Nothing uses them but the
mutants of `PROJECT.json`, which show for every property a plausible bug that
the property catches.

## 3. Runs

| run | what it asks | bounds | states |
|---|---|---|---|
| `Follower.cfg` | types, memo exact, stake frozen; chains complete, fork list = leaves, all on the lib's line, height test = descent, lib K deep; the loop of `common_prefix_depth` finds the fork point; lib never reverted, switches shallow and to longer chains, longest stays longest; refinement | 13 blocks on five chains that part deeper and shallower than K = 2, windows of six slots, epochs of four, one chain with slots that go back; a note minted on any block | 56 k |
| `Sync.cfg` | refusals have a cause; the node has caught up when sync returns; an orphan leaves the round's set only when settled; sync returns unless stuck (liveness) | two peers in three starting positions, in one of which a peer lacks the lower part of its chain; 10 blocks, the last one of the best chain arriving and peers going online and pruning while sync runs, failures at any block, a good and a bad checkpoint; K = 1 | 189 k |
| `SyncLoops.cfg` | (violated) sync returns when the peers rest | no arrivals, no failures, fair | |
| `CarnotSafety.cfg` | a certified QC survives a failed view; agreement; what a node has committed it keeps; views only rise | 4 nodes, quorums of 3, from the second view on to view 4, timers fire in view 2 | 442 k |
| `CarnotTree.cfg` | a failed view is left; without time-outs blocks are committed (both liveness) | tree of 5 nodes, led by a leaf, views to 3, timers fire in view 1 | 83 k |
| `CarnotVotes.cfg` | (violated) `highest_voted_view` counts every vote | 4 nodes, timers fire in view 1 | |
| `BeaconCarnot.cfg` | one proposal a view; nodes that vote in step commit (liveness) | 4 nodes, views to 3, timers fire in view 1, leaders that repeat and change | 504 k |
| `TreeCommittees.cfg` | `TreeWellFormed`: committees partition the nodes evenly, parents and children agree; `ThresholdsSound`: thresholds can be met, leaders' quorums intersect | 1 to 5 nodes in 1 to 6 committees, every order of the list | 41 k |
| `Refill.cfg` | types and exact counts; no sample and no pop comes short; `ActiveNodesServe`: what is returned has every active node, no other, every subnetwork filled; calls return (liveness) | 7 nodes, 3 subnetworks, replication factor 2, any number of calls | 377 k |
| `RefillSizes.cfg` | (violated) sizes of subnetworks differ by at most one | 6 nodes, 3 subnetworks, replication factor 4 | |
| `Mixnet.cfg` | types; delivered as published; at most as often as copies are sent; every message is delivered (liveness) | 2 layers, 2 topologies, redundancy 2, two messages of one or two fragments and one that does not fit, one loss, one cover packet on its way at a time | 332 k |
| `DaFlow.cfg` | an index is of the first certificate seen; stores hold shares of published blobs, none with one chunk changed; answers of different columns decode; proofs verify but for gaps, FK20's too; all shares sent but two for each that went astray can be read in the end (liveness) | 4 nodes, field 97 with roots of order 8, three publications of which two are dispersed, two certificates for one key, one share that goes astray, chunks changed by 0, by 1 and by what makes up for 1 | 309 k |

*Why the bounds are enough.* What the Follower's code distinguishes is the depth
of a fork relative to K, the length and density order of two chains, the place of
a fork in the list, and the position of a snapshot in an epoch. The block
universes hold each of these on both sides of the boundary, and the blocks come
in every order the parents allow.
In `Sync`, two of the starting positions give groups of one and of
two peers, orphans that need backfilling, forks that end in the first slot
asked for, and a fork whose upper part is bad. In the third a peer was made from the second block of
the best chain and the other peer has the first block but not the second, so that
the walk reaches local's tree in one order of asking and ends short of it in the other. One arriving block is enough for a
peer that is online to prune a fork whose tip has been fetched from it.
In Carnot, four nodes are the fewest whose quorum leaves a node behind, which may miss
a proposal, a vote or a time-out QC. Timers fire only in `TimeoutViews`: there at any
moment and in any subset of the nodes. The views of `CarnotSafety.cfg` are two before
the failed one, so that the block of view 1 may or may not be committed on either side
of the failure, and two after it, in which the leader proposes on what the new views
report. The tree of five nodes
has leaves, a root, and a leader who depends on what the root forwards.
Nodes on the flat overlay that do not lead are symmetric. In `BeaconCarnot.cfg` the view that may
fail is the first with a choice of leader, and the nodes name up to three different ones after it.
In Mixnet a destination can have fragments of both messages open, copies of either in any order,
and become a node of the first layer of the next topology; two layers have each kind of hop. In
DaFlow the publications are whole rows, a row and a half, and one row as wide as there are nodes, in
which one column of eight has a gap (see section 4); one share astray may take the place of another, which
are the two shares that `ReadableInTheEnd` gives up for it, and may carry two changes that
cancel each other; two certificates can name one key for different blobs. A field
of 97 has the roots of unity needed and keeps products within TLC's integers; `BindingAssumption` of
`DaFlow` says that publications with the same commitments have the same row polynomials, as binding
commitments do. In TreeOverlay the division of
1 to 5 by 1 to 6 has every remainder up to 4, and more committees than nodes. In Refill
the calls go on without end, over every sequence of active nodes: two to seven nodes
for six places, so that there are fewer nodes than places and more, and a call may lose
or gain any of them.

`CHECK_DEADLOCK FALSE` is set for the runs of Sync, where after the call
has returned nothing happens, for those of Carnot and BeaconCarnot, which end with the last view,
and for DaFlow, which ends when everything was sent and read.
A Follower never stops (a known block may always come again), nor do Refill and TreeOverlay, nor
the mixnet, whose client emits for ever.

*Fairness.* `FairSyncSpec` has weak fairness of `SyncStep`. Called,
`sync()` is a loop in one thread that waits for nobody, so that it takes
another step as long as it has one. Nothing is assumed of the peers, nor that
`sync()` is ever called. `Carnot!FairSpec` has weak fairness of `Next`: as long as a message can be
handled or a timer fire, something happens. Every step adds a block or a message or raises a
view, and the bounds are finite, so all that can be handled is in the end; it is the
assumption that the network delivers and that timers expire, without which
no consensus moves. `Refill!FairSpec` has weak fairness of the loops: a call runs on; calls themselves
are not fair. `FairBeaconSpec` is as Carnot's. `FairMixnetSpec` has weak fairness of `emit` (the notifier
ticks for ever), and of processing a real packet and of processing a cover packet (every delay ends;
real packets make finitely many hops, so which of them goes next need not be said). `FairFlowSpec`
has weak fairness of the dispersal's loop and of each node's reading of the chain; nobody has to disperse
or certify.

## 4. What the runs show

The properties hold. These statements of the sources do not:

* **sync() may never return** (`SyncLoops`). The peers' filter compares slots
  (`sync.py:137`), fork choice compares lengths. A peer whose tip has a later slot
  on a chain that is not better is fetched from in every round, and nothing
  changes. `EndsUnlessStuck` says that this is the only way not to return.
* **A node may vote twice** (`CarnotVotes`): a node that missed a time-out QC stays in its
  old view while it votes in later ones, and `local_timeout` sets `highest_voted_view` to the
  current view, below the view it has voted in. It votes
  for the same block again: quorums of distinct senders are not affected.
* **Subnetworks may differ by more than one** (`RefillSizes`), after calls none of which lost a
  node: growing takes a node out of subnetworks wherever it serves, and the
  filling ends when all have enough, which may be before the small ones have caught up. With 3 subnetworks
  and replication factor 4, four nodes, then a fifth and a sixth in turn, then the same six again
  end as 6, 4, 4; the Python function does so with the seeds 0, 9, 9 and 37 in four big-endian bytes.
  The bounds of `Refill.cfg` do not show it, the attempt to prove balance did; that
  shrinking and filling keep it is proved (`SizesStayBalancedAlways`).

Agreement holds in spite of the stuck nodes (section 5 has the proof). A quorum has more than two
thirds of the nodes, q of n, and the view after a failed one starts from a quorum of new views, all of
nodes that have seen the time-out QC. At most n - q nodes are stuck below it, fewer than the 2q - n that
two quorums share, so that every quorum of new views has a node that reports the certified
block (`CertifiedQcSurvives`), and the falling of the high QC hurts only nodes outside of it.

Seen while modelling, without a run of its own:

* In the Follower, going online
  keeps the tip the density rule had chosen, even if it is not a longest chain,
  until the next block on a fork (so `LongestStaysLongest` has `follows_longest`
  as its premise); `maxvalid_bg` is not transitive; the bound k in `maxvalid_mc` never
  rejects anything, because pruning has already removed what it would reject; the
  estimate of the stake can reach 0, where it stays; slots may decrease along a chain.
  If a node is sent back to bootstrapping (`Rebootstrap`), its lib may be reverted later:
  `update_lib` looks only at the tip, and the density rule may have moved it to a
  shorter chain on top of the lib. Without that it cannot (`LibNeverReverts`).
* In `sync`, the failure of a group's last peer is swallowed, and a round that fetched
  nothing ends the call, possibly behind the peers (so `CaughtUp` is asked without
  failures). A second peer of a group is never asked for forks the first lacks; a
  checkpoint that no peer holds is silently ignored. If a peer without the full chain (`fetch_chain_backward`
  speaks of such, 162-164) is asked after the peer that has the rest, or nobody has it, the walk ends short of local's tree:
  the first block added has no parent there, a good fork is refused for ever, and with a checkpoint the call is cancelled, while the comment
  (21-24) concludes from a failed backfill that the checkpoint's chain is invalid. (`RefusalsHaveCause` names this as its third
  reason.) An orphan whose fork every peer prunes before its turn is passed over in silence (the last disjunct of `OrphansAreSettled`).
* In Carnot, `update_high_qc` moves `current_view` only if it equals the QC's view, so a node
  that missed a time-out QC has a high QC above its view; and an aggregate QC replaces
  the high QC whenever views differ, so that it may fall.
* In `refill.py`, participation may not be uniform when small networks grow, against
  `test_refill.py` (104-109): five nodes, three subnetworks and a replication factor of 3 may end as 3, 2, 2, 1, 1.
* In the tree, the index formula of `parent_committee` is not the inverse of the children's from
  index 3 on, that is with five committees and more (`TreeWellFormed` asks it of up to three, the
  trees of the tests). The overlay's own `parent_committee` has no `return`. A root member's
  threshold is taken from the root's size, not from that of the children who vote.
* In the beaconized node, no beacon of recovery is ever made (section 2). After a failed view, nodes
  that had voted in it have advanced their overlays and the others have not, for good. New views
  are sent to `next_leader()` while `propose_block` asserts `is_leader`, so that after a failure
  the next proposal comes only if some node happens to be both: `BeaconProgress` is therefore asked
  of behaviours without time-outs in which no node skips a vote. `view_to_bytes` raises
  OverflowError at view 128 (`has_bytes`), out of the run's reach. With `CarnotOverlay`, whose
  `parent_committee` has no `return`, an inner node's vote would be sent to None, so only the flat overlay is modelled.
* In the mixnet, a redundancy of 1 loses every real packet: the loops of `__emit` run `redundancy - 1`
  times, also the one that sends. A turn that emits a real packet puts out `redundancy - 1` copies
  and a cover packet at once, where the docstring speaks of one packet a turn. The copies of a packet share one route, so a
  node that fails takes all of them. A copy that arrives after its set is complete opens it again, and
  what is not completed then stays for ever. A message of 256 fragments passes the check of
  `FragmentSet` and raises when a header is written.
* In the DA layer, `Polynomial.divide` pops every leading zero of the remainder and prepends one
  coefficient a turn: a zero in the middle of the quotient is dropped, and the coefficients above it
  move down. In Python, (x - 5)(x^2 + 1) divided by x - 5 gives x + 1. The proof of an honest column is then
  refused; `gap` is the exact condition and `ProofsUnlessGap` says there is no other, FK20's proofs not
  being concerned. Over the real field a gap is improbable, but for rows that are mostly zeros. Data that does
  not fill its last row yields columns padded with empty chunks, whose proofs do not verify, so that only
  whole rows are promised anything. `zip` drops the columns in excess of the nodes, and `disperse` looks
  neither at the responses nor at its threshold. The docstring of `verify` (`verifier.py` 30-34) says that it checks
  the column's consistency with the row commitments; what it checks is one combination of the chunks, by
  powers of a challenge that depends on the commitments only. Changes of two chunks that
  cancel in it pass, so that a stored column may be none of the blob's; `StoredAsSent`
  therefore excludes a single changed chunk, and `ReadsDecode` asks for answers with no more than that. Nor does anything tie a node to
  its column: it stores another one's, and a second one overwrites the first.

## 5. What is proved

All with TLAPS, for every value of the constants that satisfies the named assumptions of the
modules: no bound of section 3 appears in a theorem.

| theorem | says |
|---|---|
| `TypesAlways` | `RestartSpec => []TypeOK`: the Follower's type invariant, epoch memo included |
| `ChainsReachGenesisAlways` | `RestartSpec => []ChainsReachGenesis` |
| `TipsAreTheLeavesAlways` | `RestartSpec => []TipsAreTheLeaves` |
| `EverythingOnLibLineAlways` | `RestartSpec => []EverythingOnLibLine` |
| `HeightTestIsDescentAlways` | `RestartSpec => []HeightTestIsDescent` |
| `LibIsKDeepAlways` | `RestartSpec => []LibIsKDeep` |
| `LibNeverRevertsAlways` | `Spec => LibNeverReverts` |
| `OnlineSwitchIsShallowAlways` | `Spec => OnlineSwitchIsShallow` |
| `LongestStaysLongestAlways` | `RestartSpec => LongestStaysLongest` |
| `MemoIsExactAlways` | `RestartSpec => []MemoIsExact` |
| `StakeIsFrozenAlways` | `RestartSpec => []StakeIsFrozen` |
| `FindsForkPointAlways` | `RestartSpec => []FindsForkPoint` |
| `Implements` | `Spec => KeepsPromise`, the refinement of `ImmutableLedger` |
| `RefusalsHaveCauseAlways` | `SyncSpec => []RefusalsHaveCause` |
| `OrphansAreSettledAlways` | `SyncSpec => OrphansAreSettled` |
| `CaughtUpAlways` | `SyncSpec => []CaughtUp` |
| `CarnotInvariant` | `Spec => []Inv`, the inductive invariant of Carnot |
| `CarnotType` | `Spec => []TypeOK`: the nodes' attributes and all messages |
| `CarnotCertifiedQcSurvives` | `Spec => []CertifiedQcSurvives` |
| `CarnotAgreement` | `Spec => []Agreement` |
| `CarnotCommitsStay` | `Spec => CommitsStay` |
| `CarnotViewsOnlyRise` | `Spec => ViewsOnlyRise` |
| `BeaconInvariant` | `BeaconSpec => []BeaconInv`, the inductive invariant of the beaconized nodes |
| `OneProposalPerViewAlways` | `BeaconSpec => []OneProposalPerView` |
| `TreeWellFormedAlways` | `Spec => []TreeWellFormed`, of TreeOverlay |
| `ThresholdsSoundAlways` | `Spec => []ThresholdsSound` |
| `MixInvariant` | `MixnetSpec => []MixInv`, the inductive invariant of the mixnet |
| `DeliveredAsPublishedAlways` | `MixnetSpec => []DeliveredAsPublished` |
| `DeliveredAtMostCopiesAlways` | `MixnetSpec => []DeliveredAtMostCopies` |
| `MixnetTypeAlways` | `MixnetSpec => []MixnetTypeOK` |
| `CountsAreExactAlways` | `Spec => []CountsAreExact`, of Refill |
| `NeverRunsOutAlways` | `Spec => []NeverRunsOut` |
| `ActiveNodesServeAlways` | `Spec => []ActiveNodesServe` |
| `SizesStayBalancedAlways` | `Spec => SizesStayBalanced`: only growing unbalances sizes |
| `IndexesFollowTheChainAlways` | `FlowSpec => []IndexesFollowTheChain` |
| `StoredAsSentAlways` | `FlowSpec => []StoredAsSent` |
| `ReadsDecodeAlways` | `FlowSpec => []ReadsDecode` |

**Follower.** *Assumed:* K, the base period and the nonce window are
positive, the learning rate is at most 1, genesis is a block; the rest are types.
None of the invariants is inductive alone. That pruning keeps the
fork list equal to the leaves needs every block to be on one line with the old
lib, which needs the height test to be a descent test, which needs the chains to
be complete. `TreeInv` is their conjunction: the stored blocks are a `Tree` (prefix
closed), tip and fork list are its leaves without repetition, the lib is stored
and below the tip, every block is below or above it, and online it is K deep. It
is preserved because adding a child makes it a leaf in the place of its
parent (`AddToTree`, `ExtendIsConsistent`, `ForkIsConsistent`), the new lib is
above the old one or the node is bootstrapping, and what is kept around a block on the tip's
chain is again a tree whose leaves are the forks that were kept (`PruneIsConsistent`).
`BootInv` (the lib is genesis until the node goes online) is what `Rebootstrap`
breaks; with it, and with the fact that the fold of `maxvalid_mc` returns the tip
or something longer (`MaxvalidMc`), the lib only rises (`LibRises`), and a switch is at
most K deep because both tips stand on a lib that is K deep on the old one
(`StepMoves`). `TypeInv` adds to `TreeInv` the types of
the ledger states and of the memo; the estimate is not negative since the nonce
snapshot of a chain is never below its stake snapshot (`SnapshotsInOrder`) and
the learning rate is at most 1 (`InferredType`).

`LongestStaysLongest`: a new block that is longer than the tip is one higher, as the tip was a
longest chain; it stands on the lib, which is at most K below the tip, so that the loop of
`maxvalid_mc` cannot pass it by (`MaxvalidMcFinds`). `MemoIsExact`: the memo is keyed by the nonce
snapshot alone, but the nonce snapshot of an epoch is above all earlier snapshots of its chain, and
so fixes them (`SnapshotsBelow`, `RunsAgree`). The invariant (`MemoExact`) says of each entry what
the epochs computed from scratch up the chain of its key would be (`ScratchRun`), a function of that
chain alone: pruning may take the blocks away and a fork bring them back. `StakeIsFrozen`: `with_block` is only reached
with a leader note that is in the stake snapshot of the block's epoch. That snapshot is genesis' or that of a
block on the chain below, before the beginning of the last epoch but one (`AcceptedStake`), and what is stored of it
changes no more but by growing (`FrozenStays`); pruning takes no block from under another.

`FindsForkPoint`: after i iterations the loop has yielded the i topmost blocks of either chain, fewer if one was spent, and
`seen` maps each to its distance from its own tip (`StateAfter`). A block that is yielded on one chain and was seen on the other is in common
(`SeenIsCommon`), hence at or below the fork point, hence not yielded on both before the deeper tip's turn to meet it (`Walks`); then it is, and
the suffixes are cut there (`MeetsBlock`). The recursive function by iterations is the run so constructed, by `BoundedInduction`.

The recursive functions in the code's loops are handled by `LoopRuns` (a loop over
1..n has a run) and by `BoundedInduction`, both derived from facts on finite sets.

**Sync.** *Assumed*, besides the Follower's constants: a peer holds of each block the chain down to its `root`,
any block, its tip too, and lists no fork twice (`StartsAssumption`); what arrives, and the checkpoints, are blocks. Nothing is
assumed of which blocks are good, of the order of fetching and asking, of pruning or of failures. Pruning leaves a peer's blocks `Rooted`, as
its lib is on its tip's chain (`RootedKept`, `PeerUpdates`, `PeerGrows`). Local is a Follower in every step (`SyncIsLocal`), so that the
Follower's invariants hold of it. What `sync()` relies on while local's tree is pruned under it is that a
block that leaves the tree, or that is refused for standing too low, is `OffLine`, neither above nor below the lib, which no later lib undoes
(`OffLineStays`); and that what is wrong with a block is wrong with all above it (`CauseAbove`). `SyncInv`
adds to that what each phase owns: what is fetched is held by a peer (`FetchedOK`); the blocks to
backfill are a line up to the orphan that grows downwards peer by peer (`MissingPart`, `LinesJoin`) and begins, at any time, just above
local's tree, above a block now off it, or with the root of a peer, where that peer's chain ends (`Begins`); while it is empty, a peer that holds
the orphan is still to be asked, unless it was pruned (`SuffixOK`); every refusal has its
`Cause` (`CauseOK`): if the first block's parent is not found, it is a root that is not genesis; that of a bad proof because genesis' notes are in every ledger state and notes are not spent
(`RefusedCause`); and every block of one peer of each group that was ahead is in the tree, refused, off the line, or
still in hand as an orphan or in the stream (`ServedOK`), of which the end of the call leaves the first three. A first
version of `OrphansAreSettled` had only the first two: the attempt to prove it showed that a node
may, by the very block it adds, switch to a chain whose lib the block is not on, and prune it at once.

**Carnot.** *Assumed* (`QuorumAssumption`): the electors, that is the root committee and its
children, are finitely many; a leader waits for more than two thirds of them, as both overlays have it,
`(size * 2 // 3) + 1`; the children of root members and of leaders are electors. On the flat overlay
everybody is an elector; on the tree the last part excludes only a leader further down that has children of its own,
whose driver would have to tell votes to a parent from votes to a leader. Nodes are honest; messages may be late,
lost, repeated and in any order, timers fire as they like. The invariant, `Inv`, has three parts:

* `Structure`: types; a QC, wherever it travels, is of a block that was proposed; a view has one block; a standard
  block carries a QC of the view before it that a quorum voted for.
* `Local`: a node's safe blocks reach down to genesis; who voted for a block has it safe; who sent a new view is `Past` its
  view, that is neither `highest_voted_view` nor `current_view` is below it, which nothing undoes: `local_timeout` sets the one to the other.
* `Voting`, where the difficulty is: `update_high_qc` may lower a high QC, so the usual argument, that a quorum's high
  QCs only rise, is not available. A block is `Uncertifiable` once so many electors are past its view without a vote for
  it that no quorum can be completed. The claim (`LowQcs`) is that a later block's QC is older than a block's own only
  if that block is uncertifiable. Consecutive standard blocks form runs; each starts from its *anchor*, genesis or a block after a
  failed view, whose aggregate QC stands on a quorum of new views. `AnchorQuorums` remembers that quorum: each of its members
  is past the failed view and, for each block of the run, has it safe with a lower high QC, or reports a lower one, only if the
  block is uncertifiable (`Follows`). When a view fails and a leader proposes on the highest QC of its new views, that quorum and the
  anchor's share an elector (`QuorumsMeet`), and either it reports the block's own QC or the block is uncertifiable.

TLC checked the invariant on the instance of `CarnotSafety.cfg` before it was proved. From it: a certified block is not uncertifiable
(`RestOfQuorum`), which is `CertifiedQcSurvives`; what was certified twice in a row (`Final`) is then `Settled`: no chain of a node's
safe blocks passes it by; two committed blocks are final, so that the lower is on the chain of the upper, which is `Agreement`, and the
latest committed block of a node only rises, which is `CommitsStay`. `committed_blocks` is a recursive function down a chain; that it is what its equation says on
every tree of safe blocks (`DownExists`) follows from the trees being well-founded by view, and two such functions agree by
the least view where they would not (`DownsAgree`): a set of views has a least element, no induction over data is needed.

**BeaconCarnot.** *Assumed:* finitely many nodes, at least one (`NodesAssumption`); timers fire in views from 1 on, before the last
(`ViewsAssumption`, a type of the bounds). Every node has its own overlay, so that it can be the leader of a view in its own eyes only. What saves
`OneProposalPerView` is that a proposer stands on a quorum (`Backed`): of votes for a block of the view before, or of new views. `BeaconInv`
says besides that a node has left behind every view it sent a new view of, and sent one of each only, and that the quorum of an anchor (a block
not after a voted one) keeps up with the run of blocks above it and has answered each of the run's views at most once (`Follows`,
`AnchorQuorums`). Two proposers of one view would each have a quorum of answers to the view before; these two and the anchor's share
a node, since each is more than two thirds (`ThreeQuorumsMeet`), and it would have answered twice (`OneIsBacked`).

**TreeOverlay.** *Assumed:* lists of distinct nodes, at least one; at least one committee; what an entropy gives is a
permutation (`ShufflesAssumption`: `random.shuffle`). The invariant says that the committees were cut from some order of the nodes.
Committee c of k gets the positions from c * s + 1 to (c + 1) * s, where s is the quotient, and one of the remaining ones; that these
intervals are disjoint and cover the list is arithmetic (`PositionsCut`), that committees have the sizes of the intervals is
that the list has no node twice (`ImageSize`). So a committee has s or s + 1 members (`Cut`). A committee that is not a leaf has
both children when k is odd, so 2 * s votes at least below it, and waits for two thirds of s + 1 and one at most, which is not more if s
is not 0 (`QuorumsReachable`). For more than three committees the parents are wrong, as section 4 says.

**Refill.** *Assumed:* finitely many nodes and subnetworks, at least one of these, and a replication factor of at least 1. `RefillInv` is
`CountsAreExact` with `CallOK` (in a call there are enough nodes, and the average is between 1 and the number of subnetworks, `Average`) and `ReturnedOK`
(what the filling's loop condition leaves behind). Counts stay exact in shrink, which moves nodes without
touching counts, since a node moves from a subnetwork it serves to one that it does not. Heaps pop something as
extremes of finite sets exist (`Extremes`, `FirstExists`). For the filling to find nobody, the smallest
subnetwork would have all active nodes, hence all would, and everything would be filled (`FullIsFilled`).

**Mixnet.** *Assumed:* a payload holds at least one byte and a byte has at least two values (`PacketAssumption`: a cover packet's
count of fragments, 1, can be written); layers have nodes, redundancy is at least 1, shuffles are lists that fill the layers
(`SizeAssumption`); messages are sequences of bytes (`MessagesAssumption`). `FlowInv` says that a packet carries a part of a published message
to that message's destination, or is a cover packet, and that an open set has some of the parts of one message, at its destination, but not all.
A fragment that arrives is then another part, one that was there already, or the last (`PartAdded`), and the whole is what was cut
(`JoinChunks`: joining is a recursive function over the chunks, by `BoundedInduction` along the places where chunks end, `End`).
`FlowInv` alone cannot bound deliveries, since a completed set is forgotten. `MixInv` counts, for each message, the copies of its first part: those on their
way, those queued, the one in the open set, and one for each delivery are never more than the 2 * (redundancy - 1) that were made (`Balance`).
A copy that arrives is no longer on its way; it joins the open set, repeats what is there, or completes it and is used up by the delivery, like the one that was
stored (`FinalBalance`). No copy is made twice, as no fragment is queued twice (`NoneTwice`). The copies of a fragment in a bag are a set of
numbered packets (`Copies`), so that adding and removing packets are facts on finite sets.
`times_delivered` counts the deliveries of the message as it was published; by `DeliveredAsPublished` there are no others.

**DaFlow.** `IndexesFollowTheChain` uses no assumption on constants and needs of the rest only `IndexTypes`: the chain is a sequence of
certificates for dispersed blobs, and no node has seen more of it than there is.

`StoredAsSent` is proved over every field. *Assumed:* the modulus is prime, in that everything but 0 has an inverse
(`FieldAssumption`); the roots of unity are distinct, as those of a generator are (`RootsAssumption`); chunks are numbers of the field, and a
row and its extension have roots enough; node ids are distinct, and changes of chunks are any numbers (`FlowAssumption`). Of the hash,
`ChallengeAssumption`: a challenge is not 0. If two columns differ in one chunk only, their combined evaluations differ by a multiple
of a power of the challenge; a field has no divisors
of zero (`NoZeroDivisors`), so that both cannot satisfy the
equation of pairings with the same proof (`AlterationRejected`). The sums are folds whose order of summation is a
`CHOOSE`: that a fold is what its equation says (`FoldExists`, `SumRuns`) and that two sums that differ in one summand differ (`SumsDiffer`) goes by
`SubsetInduction`, which follows from `BoundedInduction` on cardinalities. That all of it is numbers of the field is
`RowPolynomial`, since interpolation's denominators are differences of distinct roots, and `ShareType`. `SendingTypes` and
`SharesVerify` are the invariant (`SendingInvariant`): what is on its way is of a dispersed blob, and what is stored is like a share of
such a blob, but for the values of its chunks, and verifies. Where it arrived does not matter.

`ReadsDecode` is proved over every field too. *Assumed:* the same, and `BindingAssumption`. It is where columns, index, store and
chain meet. A node's answer for a key is a column of a blob with the commitments that the chain certified first (`AnswersAreCertified`,
by `IndexesInvariant`), hence with the same row polynomials, and if at most one of its chunks was changed, none was
(`AnswersAreColumns`), so that `column_count` answers of different columns (`complementary`) give each row's values in as many distinct roots (`AnswersAreKnown`). Decoding these returns
the row's polynomial as a function (`Decodes`), because

* interpolation takes the values asked for (`Interpolates`): sums and products of polynomials evaluate to
  those of their values (`EvalSum`, `EvalProduct`), a Lagrange factor is 0 in the other points and 1 in its own;
* a polynomial with a root r is one of a lower degree times x - r, so that
  two of n coefficients that agree in n points agree everywhere. The quotient is given by Horner's rule, which
  needs that a sum over a set does not depend on the order in which the fold takes it.

`RowDecoded` then evaluates it in the first roots, which are the row, and `JoinRows` puts whole rows together to the data.

*Only model-checked:* `EndsUnlessStuck`, `FailedViewIsLeft`, `Progress`, `BeaconProgress`, Refill's `Returns`,
`PublishedIsDelivered` and `ReadableInTheEnd` are liveness and stay with TLC, and so does what
division and the transforms of `Kzg` compute for every input (`ProofsUnlessGap`): it would need an induction over data
for each of them, and FK20 a theory of Toeplitz products.

## 6. Not modelled, and plan

Plan: proofs. An abstract log that Carnot refines would say what `Agreement` and `CommitsStay` say
together; TLC is too slow at it (the mapping computes `committed_blocks` of every node on both sides of
every step), so it waits for a proof.

Not modelled:

* the `Leader` and its lottery, and the search for committee sizes: stateless floating-point
  thresholds; what they decide is an input of the models (whose proof is valid; an odd number of committees);
* pairings, hashes, signatures and encryption, assumed ideal; `verify_setup`, a randomized check of
  constants, and `evaluation_form`, which only tests call;
* in the mixnet `cancel()`, which stops all tasks, and `subscribe_messages`, which returns a queue
  that nothing in `src/` writes to; the delays' distribution;
* in Carnot `download` and `rebuild_overlay_from_timeout_qc`, whose bodies only raise; in the block
  tree `block_children`, which nothing calls;
* logging, CI, the message grammar, test helpers.
