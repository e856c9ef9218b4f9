---------------------------- MODULE Follower ----------------------------
(***************************************************************************)
(* The Follower of cryptarchia/cryptarchia.py: one node's view of the      *)
(* block tree.  It receives headers one at a time in any order (on_block), *)
(* follows the chain its fork choice rule prefers, and, once told that it  *)
(* is online (to_online), makes the block K deep on that chain immutable   *)
(* and forgets every fork that leaves the chain below it.                  *)
(***************************************************************************)
EXTENDS BlockTree, Functions, SequencesExt, TLC

CONSTANTS
  Blocks,              \* the blocks that circulate, genesis among them
  Note,                \* leader notes
  Misbound,            \* a leader proof made for another slot or another parent
  GenesisNotes,        \* notes whose commitments the genesis state holds
  Nullified,           \* notes whose nullifiers the genesis state holds
  Mintable,            \* notes that the environment may add to a ledger state
  GenesisState,        \* the object Follower.genesis_state, distinct from its copy in ledger_state
  K,                   \* Config.k
  BasePeriodLength,    \* Config.base_period_length, floor(k / f)
  Stabilization,       \* Config.epoch_stake_distribution_stabilization
  NonceBuffer,         \* Config.epoch_period_nonce_buffer
  NonceStabilization,  \* Config.epoch_period_nonce_stabilization
  InitialStake,        \* Config.initial_total_active_stake
  Rate,                \* Config.total_active_stake_learning_rate, a fraction [num, den]
  Expected             \* ln(1 / (1 - f)), the expected blocks per slot, a fraction

Header == [slot : Nat, proof : Note \cup {Misbound}]

ASSUME BlocksAssumption == Blocks \subseteq Seq(Header) /\ Genesis \in Blocks
ASSUME NotesAssumption == GenesisNotes \cup Nullified \cup Mintable \subseteq Note
ASSUME MarkersAssumption == Misbound \notin Note /\ GenesisState \notin Blocks
ASSUME ConfigAssumption ==
  /\ K \in Nat \ {0} /\ BasePeriodLength \in Nat \ {0}
  /\ {Stabilization, NonceBuffer, NonceStabilization} \subseteq Nat
  /\ Stabilization + NonceBuffer > 0 /\ NonceStabilization > 0
ASSUME StakeAssumption ==
  /\ InitialStake \in Nat
  /\ Rate.num \in Nat /\ Rate.den \in Nat /\ Rate.num =< Rate.den
  /\ {Rate.den, Expected.num, Expected.den} \subseteq Nat \ {0}

epoch_relative_nonce_slot == (Stabilization + NonceBuffer) * BasePeriodLength
epoch_length == epoch_relative_nonce_slot + NonceStabilization * BasePeriodLength
S == 3 * BasePeriodLength

VARIABLES
  local_chain,   \* tip of the chain the node follows
  forks,         \* tips of the other chains, oldest first
  ledger_state,  \* for each stored block, the commitments of its ledger state
  epoch_state,   \* memoised epoch states, by epoch and nonce snapshot block
  state,         \* "ONLINE" or "BOOTSTRAPPING"
  lib            \* last immutable block

vars == << local_chain, forks, ledger_state, epoch_state, state, lib >>

states == DOMAIN ledger_state

(***************************************************************************)
(* A snapshot is a LedgerState object: that of a stored block, named by    *)
(* the block, or the genesis state the Follower was made with.             *)
(***************************************************************************)
block_of(snapshot) == IF snapshot = GenesisState THEN Genesis ELSE snapshot

commitments(snapshot) ==
  IF snapshot = GenesisState THEN GenesisNotes ELSE ledger_state[snapshot]

\* apply() adds one to the parent's count and genesis has none.
leader_count(snapshot) == Len(block_of(snapshot))

epoch_of(sl) == sl \div epoch_length

state_at_slot_beginning(tip, sl) ==
  LET before == { c \in iter_chain(tip, states) : slot(c) < sl }
  IN  IF before = {} THEN GenesisState
      ELSE CHOOSE c \in before : \A d \in before : Len(d) =< Len(c)

\* Faulty variant: the snapshot at the start of the epoch itself.
stake_distribution_snapshot_late(epoch, tip) ==
  state_at_slot_beginning(tip, epoch * epoch_length)

stake_distribution_snapshot(epoch, tip) ==
  state_at_slot_beginning(tip, (epoch - 1) * epoch_length)

nonce_snapshot(epoch, tip) ==
  state_at_slot_beginning(tip, epoch_relative_nonce_slot + (epoch - 1) * epoch_length)

\* Faulty variant: the observed rate enters with the wrong sign.
infer_total_active_stake_sign(prev, nonce_snap, stake_snap) ==
  LET T == epoch_relative_nonce_slot
      observed == leader_count(nonce_snap) - leader_count(stake_snap)
  IN  (prev * ((Rate.den - Rate.num) * T * Expected.num
                 - Rate.num * observed * Expected.den))
        \div (Rate.den * T * Expected.num)

(***************************************************************************)
(* The new estimate is prev - h * (expected - observed / T), truncated,    *)
(* with h = rate * prev / expected: written here over one denominator.     *)
(***************************************************************************)
infer_total_active_stake(prev, nonce_snap, stake_snap) ==
  LET T == epoch_relative_nonce_slot
      observed == leader_count(nonce_snap) - leader_count(stake_snap)
  IN  (prev * ((Rate.den - Rate.num) * T * Expected.num
                 + Rate.num * observed * Expected.den))
        \div (Rate.den * T * Expected.num)

GenesisEpoch == [stake |-> GenesisState, nonce |-> GenesisState, inferred |-> InitialStake]

\* Faulty variant: the memo keyed by the other snapshot.
memo_key_by_stake(epoch, tip) ==
  << epoch, block_of(stake_distribution_snapshot(epoch, tip)) >>

memo_key(epoch, tip) == << epoch, block_of(nonce_snapshot(epoch, tip)) >>

\* compute_epoch_state over a given memo: the state of each epoch up to `epoch'.
epoch_states(epoch, tip, memo) ==
  LET st[e \in 0 .. epoch] ==
        IF e = 0 THEN GenesisEpoch
        ELSE IF memo_key(e, tip) \in DOMAIN memo THEN memo[memo_key(e, tip)]
        ELSE LET stake == stake_distribution_snapshot(e, tip)
                 nonce == nonce_snapshot(e, tip)
             IN  [stake |-> stake, nonce |-> nonce,
                  inferred |-> infer_total_active_stake(st[e-1].inferred, nonce, stake)]
  IN  st

compute_epoch_state(epoch, tip) == epoch_states(epoch, tip, epoch_state)[epoch]

\* The recursion stops at the first epoch found in the memo and stores the ones above it.
memoised(epoch, tip) ==
  LET computed == { e \in 1 .. epoch : \A i \in e .. epoch :
                                         memo_key(i, tip) \notin DOMAIN epoch_state }
      st == epoch_states(epoch, tip, epoch_state)
      fresh == { memo_key(e, tip) : e \in computed }
  IN  [key \in DOMAIN epoch_state \cup fresh |->
         IF key \in fresh THEN st[key[1]] ELSE epoch_state[key]]

header(b) == b[Len(b)]

\* MockLeaderProof.verify, against the state on_block has computed
verify(proof, stake_commitments) ==
  /\ proof # Misbound
  /\ proof \in stake_commitments
  /\ proof \notin Nullified

leader_proof_valid(b) ==
  verify(header(b).proof,
         commitments(compute_epoch_state(epoch_of(slot(b)), parent(b)).stake))

parent_found(b) == parent(b) \in states
below_lib(b) == height(parent(b), states) < height(lib, states)

---------------------------------------------------------------------------
Init ==
  /\ local_chain = Genesis
  /\ forks = << >>
  /\ ledger_state = [b \in {Genesis} |-> GenesisNotes]
  /\ epoch_state = << >>
  /\ state = "BOOTSTRAPPING"
  /\ lib = Genesis

fork_choice(tip, tips, stored) ==
  IF state = "BOOTSTRAPPING"
    THEN maxvalid_bg(tip, tips, K, S, stored)
    ELSE maxvalid_mc(tip, tips, K, stored)

\* Faulty variant: a lib one block too deep.
lib_of_deeper(tip, stored) == kth_back(tip, K + 1, Genesis, stored)

lib_of(tip, stored) == kth_back(tip, K, Genesis, stored)

\* Faulty variants: the chain below the lib forgotten, nothing dropped, and pruning
\* done with the lib of before.
kept_above(root, stored) == { b \in stored : is_ancestor(root, b, stored) }
kept_all(root, stored) == stored
kept_by_old_lib(root, stored) ==
  { b \in stored : is_ancestor(lib, b, stored) \/ is_ancestor(b, lib, stored) }

\* A block stays when it is on the chain below the lib or stands on it.
kept(root, stored) ==
  { b \in stored : is_ancestor(root, b, stored) \/ is_ancestor(b, root, stored) }

\* update_lib, on the tip, the fork list and the ledger states its caller has just written
update_lib(tip, tips, ledger) ==
  LET stored == DOMAIN ledger
      root == lib_of(tip, stored)
  IN  /\ lib' = root
      /\ forks' = list_keep(tips, { f \in stored : is_ancestor(root, f, stored) })
      /\ ledger_state' = Restrict(ledger, kept(root, stored))

settle(tip, tips, ledger) ==
  /\ local_chain' = tip
  /\ IF state' = "ONLINE"
       THEN update_lib(tip, tips, ledger)
       ELSE lib' = lib /\ forks' = tips /\ ledger_state' = ledger

\* Faulty variant: going online without computing the lib.
to_online_only ==
  /\ state = "BOOTSTRAPPING"
  /\ state' = "ONLINE"
  /\ UNCHANGED << local_chain, forks, ledger_state, epoch_state, lib >>

to_online ==
  /\ state = "BOOTSTRAPPING"
  /\ state' = "ONLINE"
  /\ settle(local_chain, forks, ledger_state)
  /\ UNCHANGED epoch_state

---------------------------------------------------------------------------
\* on_block, one action for each way it can end.

DropKnown(b) ==
  /\ b \in states
  /\ UNCHANGED vars

RaiseParentNotFound(b) ==
  /\ b \notin states
  /\ ~ parent_found(b)
  /\ UNCHANGED vars

RaiseImmutableFork(b) ==
  /\ b \notin states
  /\ parent_found(b)
  /\ below_lib(b)
  /\ UNCHANGED vars

RaiseInvalidLeaderProof(b) ==
  /\ b \notin states
  /\ parent_found(b)
  /\ ~ below_lib(b)
  /\ ~ leader_proof_valid(b)
  /\ epoch_state' = memoised(epoch_of(slot(b)), parent(b))
  /\ UNCHANGED << local_chain, forks, ledger_state, state, lib >>

Accepted(b) ==
  /\ b \notin states
  /\ parent_found(b)
  /\ ~ below_lib(b)
  /\ leader_proof_valid(b)
  /\ epoch_state' = memoised(epoch_of(slot(b)), parent(b))
  /\ UNCHANGED state

\* The ledger states once the new block's, a copy of its parent's, is added.
with_block(b) ==
  [c \in states \cup {b} |-> ledger_state[IF c = b THEN parent(b) ELSE c]]

ExtendLocalChain(b) ==
  /\ Accepted(b)
  /\ parent(b) = local_chain
  /\ settle(b, forks, with_block(b))

\* Faulty variant: the superseded fork stays on the list.
with_fork_stale(b) == Append(forks, b)

\* The fork list once the new block's fork is on it in the place of its parent's.
with_fork(b) == list_remove(Append(forks, b), parent(b))

ExtendFork(b) ==
  /\ Accepted(b)
  /\ parent(b) # local_chain
  /\ \E new_tip \in {fork_choice(local_chain, with_fork(b), states \cup {b})} :
       settle(new_tip, list_remove(Append(with_fork(b), local_chain), new_tip), with_block(b))

on_block(b) ==
  \/ DropKnown(b)
  \/ RaiseParentNotFound(b)
  \/ RaiseImmutableFork(b)
  \/ RaiseInvalidLeaderProof(b)
  \/ ExtendLocalChain(b)
  \/ ExtendFork(b)

---------------------------------------------------------------------------
(***************************************************************************)
(* What the program leaves to its surroundings.  Ledger states change      *)
(* through transactions, which are not in src/: the tests stand in for     *)
(* them by adding a commitment to a stored state (MintNote).  The code has *)
(* no way back from ONLINE; a node that must catch up again is set to      *)
(* BOOTSTRAPPING from outside, as test_fork_choice does (Rebootstrap).     *)
(***************************************************************************)
MintNote(b, n) ==
  /\ b \in states
  /\ n \notin ledger_state[b]
  /\ ledger_state' = [ledger_state EXCEPT ![b] = @ \cup {n}]
  /\ UNCHANGED << local_chain, forks, epoch_state, state, lib >>

Rebootstrap ==
  /\ state = "ONLINE"
  /\ state' = "BOOTSTRAPPING"
  /\ UNCHANGED << local_chain, forks, ledger_state, epoch_state, lib >>

Next ==
  \/ to_online
  \/ \E b \in Blocks : on_block(b)
  \/ \E b \in Blocks, n \in Mintable : MintNote(b, n)

Spec == Init /\ [][Next]_vars

\* The same node when its operator may send it back to bootstrapping.
RestartSpec == Init /\ [][Next \/ Rebootstrap]_vars

---------------------------------------------------------------------------
\* Properties.

\* The variables have the types the code gives them (Follower.__init__).
TypeOK ==
  /\ local_chain \in Blocks
  /\ forks \in Seq(Blocks)
  /\ states \subseteq Blocks
  /\ \A b \in states : ledger_state[b] \subseteq Note
  /\ DOMAIN epoch_state \subseteq (Nat \ {0}) \X Blocks
  /\ \A key \in DOMAIN epoch_state :
       epoch_state[key] \in [stake : Blocks \cup {GenesisState}, nonce : Blocks, inferred : Nat]
  /\ state \in {"ONLINE", "BOOTSTRAPPING"}
  /\ lib \in Blocks

(***************************************************************************)
(* Every chain the node can walk reaches genesis: no accepted block, no    *)
(* switch and no pruning (update_lib rebuilds the dictionary) ever cuts a  *)
(* chain in the middle.  iter_chain, height and common_prefix_depth are    *)
(* right only because of this; the last loops for ever without it.         *)
(***************************************************************************)
ChainsReachGenesis ==
  /\ Genesis \in states
  /\ {local_chain, lib} \cup ToSet(forks) \subseteq states
  /\ \A b \in states \ {Genesis} : parent(b) \in states

(***************************************************************************)
(* The fork list is kept by hand (append, remove, filter) and yet is right *)
(* at every moment: it and the tip are the blocks without a child, each    *)
(* listed once, so fork choice overlooks no chain and weighs none twice.   *)
(***************************************************************************)
leaves_of(T) == { b \in T : ~ \E c \in T \ {Genesis} : parent(c) = b }

TipsAreTheLeaves ==
  /\ {local_chain} \cup ToSet(forks) = leaves_of(states)
  /\ local_chain \notin ToSet(forks)
  /\ \A i, j \in DOMAIN forks : forks[i] = forks[j] => i = j

(***************************************************************************)
(* The last immutable block is on the chain the node follows, and every    *)
(* block it keeps is on one line with it (the comment of update_lib:       *)
(* "prune forks that do not descend from it").                             *)
(***************************************************************************)
EverythingOnLibLine ==
  /\ is_ancestor(lib, local_chain, states)
  /\ \A b \in states : is_ancestor(lib, b, states) \/ is_ancestor(b, lib, states)

(***************************************************************************)
(* validate_header compares two heights where its comment says "if the     *)
(* block is not a descendant of the last immutable block": for every       *)
(* stored parent the two are the same question, whatever was pruned.       *)
(***************************************************************************)
HeightTestIsDescent ==
  \A p \in states :
    height(p, states) < height(lib, states) <=> ~ is_ancestor(lib, p, states)

\* An online node's lib is K deep on its chain (Config.k, update_lib's docstring).
LibIsKDeep ==
  state = "ONLINE" => lib = kth_back(local_chain, K, Genesis, states)

(***************************************************************************)
(* The memo of compute_epoch_state is keyed by epoch and nonce snapshot    *)
(* only, and outlives switches and pruning; what it answers is what a      *)
(* computation from scratch on the same chain would.                       *)
(***************************************************************************)
MemoIsExact ==
  \A tip \in states : \A key \in DOMAIN epoch_state :
    memo_key(key[1], tip) = key =>
      epoch_state[key] = epoch_states(key[1], tip, << >>)[key[1]]

(***************************************************************************)
(* A block's leader note was already in the ledger of one of the block's   *)
(* ancestors at least two epochs back, or in genesis: the stake snapshot   *)
(* freezes before the nonce that decides its lottery is known              *)
(* (test_note_added_after_stake_freeze_is_ineligible_for_leadership).      *)
(***************************************************************************)
StakeIsFrozen ==
  \A b \in states \ {Genesis} :
    \/ header(b).proof \in GenesisNotes
    \/ \E m \in iter_chain(b, states) :
         /\ header(b).proof \in ledger_state[m]
         /\ epoch_of(slot(m)) + 2 =< epoch_of(slot(b))

(***************************************************************************)
(* "The last immutable block ... will not be reverted" (update_lib): it    *)
(* only moves up its own chain.                                            *)
(***************************************************************************)
LibNeverReverts == [][IsPrefix(lib, lib')]_vars

(***************************************************************************)
(* An online node leaves its chain only for a longer one and gives up no   *)
(* block more than K deep, although its rule compares each fork with the   *)
(* best one so far and not with the chain it follows.                      *)
(***************************************************************************)
OnlineSwitchIsShallow ==
  [][state = "ONLINE" /\ local_chain' # local_chain =>
       /\ Len(local_chain') > Len(local_chain)
       /\ \E c \in states : /\ IsPrefix(c, local_chain) /\ IsPrefix(c, local_chain')
                            /\ Len(local_chain) - Len(c) =< K]_vars

(***************************************************************************)
(* Once an online node follows a longest chain of its tree it always does, *)
(* though a longer fork must first be found in the fork list and pruning   *)
(* and extending the tip skip fork choice.  (Going online does not by      *)
(* itself establish it: to_online changes the rule without running it.)    *)
(***************************************************************************)
follows_longest == \A b \in states : Len(b) =< Len(local_chain)

LongestStaysLongest ==
  [][state = "ONLINE" /\ follows_longest /\ state' = "ONLINE" => follows_longest']_vars

(***************************************************************************)
(* The node keeps the promise of ImmutableLedger, its tip being the chain  *)
(* followed and its lib the end of the immutable part.                     *)
(***************************************************************************)
Promise == INSTANCE ImmutableLedger
             WITH Chain <- Blocks, Depth <- K, tip <- local_chain, final <- lib, mode <- state

KeepsPromise == Promise!LedgerSpec
==========================================================================
