-------------------------- MODULE SyncTheorems --------------------------
(***************************************************************************)
(* What sync() promises, for any peers, checkpoints and Follower: proved   *)
(* from the Follower's own invariants, as every step of sync() that        *)
(* touches local is one of on_block.                                       *)
(***************************************************************************)
EXTENDS Sync, FollowerTheorems

\* On neither side of the last immutable block.
OffLine(b, root) == ~ Below(root, b) /\ ~ Below(b, root)

\* What justifies refusing a block for ever.
Cause(b, root, bases) ==
  ~ well_formed(b) \/ OffLine(b, root) \/ \E base \in bases \ {Genesis} : Below(base, b)

LEMMA PrefixIsBelow ==
  ASSUME NEW a \in Seq(Header), NEW b, IsPrefix(a, b)
  PROVE  Below(a, b)
<1>1. Len(a) =< Len(b) /\ SubSeq(a, 1, Len(a)) = SubSeq(b, 1, Len(a))
  BY DEF IsPrefix
<1>2. SubSeq(a, 1, Len(a)) = a
  BY AtEnds DEF At
<1> QED BY <1>1, <1>2 DEF Below, At

LEMMA OffLineAbove ==
  ASSUME NEW a \in Seq(Header), NEW b \in Seq(Header), NEW root \in Seq(Header),
         Below(a, b), OffLine(a, root)
  PROVE  OffLine(b, root)
<1>1. ~ Below(b, root)
  BY BelowTransitive DEF OffLine
<1>2. ASSUME Below(root, b) PROVE FALSE
  <2>1. Len(root) =< Len(a) \/ Len(a) =< Len(root)
    OBVIOUS
  <2>2. Below(root, a) \/ Below(a, root)
    BY <1>2, <2>1, BelowLinear
  <2> QED BY <2>2 DEF OffLine
<1> QED BY <1>1, <1>2 DEF OffLine

LEMMA OffLineStays ==
  ASSUME NEW c \in Seq(Header), NEW root \in Seq(Header), NEW root2 \in Seq(Header),
         Below(root, root2), OffLine(c, root)
  PROVE  OffLine(c, root2)
<1>1. ~ Below(root2, c)
  BY BelowTransitive DEF OffLine
<1>2. ASSUME Below(c, root2) PROVE FALSE
  <2>1. Len(root) =< Len(c) \/ Len(c) =< Len(root)
    OBVIOUS
  <2>2. Below(root, c) \/ Below(c, root)
    BY <1>2, <2>1, BelowLinear
  <2> QED BY <2>2 DEF OffLine
<1> QED BY <1>1, <1>2 DEF OffLine

\* What is wrong with a block is wrong with every block above it.
LEMMA CauseAbove ==
  ASSUME NEW a \in Seq(Header), NEW b \in Seq(Header), NEW root \in Seq(Header),
         NEW bases, bases \subseteq Seq(Header), Below(a, b), Cause(a, root, bases)
  PROVE  Cause(b, root, bases)
<1>1. CASE OffLine(a, root)
  BY <1>1, OffLineAbove DEF Cause
<1>2. CASE ~ well_formed(a)
  <2>1. PICK h \in 1 .. Len(a) : a[h].proof \notin GenesisNotes \ Nullified
    BY <1>2 DEF well_formed
  <2>2. Len(a) \in 0 .. Len(b) /\ a = At(b, Len(a))
    BY DEF Below
  <2>3. a[h] = b[h] /\ h \in 1 .. Len(b)
    BY <2>1, <2>2, AtProperties
  <2> QED BY <2>1, <2>3 DEF Cause, well_formed
<1>3. CASE \E base \in bases \ {Genesis} : Below(base, a)
  BY <1>3, BelowTransitive DEF Cause
<1> QED BY <1>1, <1>2, <1>3 DEF Cause

---------------------------------------------------------------------------
\* The Follower that syncs.

GenesisNotesStay == \A c \in states : GenesisNotes \subseteq ledger_state[c]

LocalInv == MemoInv /\ BootInv /\ GenesisNotesStay

\* A block that is settled on is kept, unless it is off the new lib's line.
LEMMA SettleKeeps ==
  ASSUME NEW tip_, NEW tips, NEW ledger, settle(tip_, tips, ledger), TreeInv',
         Tree(DOMAIN ledger, Header)
  PROVE  \A c \in DOMAIN ledger : c \in states' \/ OffLine(c, lib')
<1> DEFINE T == DOMAIN ledger
           root == lib_of(tip_, T)
<1>1. CASE state' = "ONLINE"
  <2>1. lib' = root /\ ledger_state' = Restrict(ledger, kept(root, T))
    BY <1>1 DEF settle, update_lib
  <2>2. kept(root, T) \subseteq T
    BY DEF kept
  <2> HIDE DEF root
  <2>3. states' = kept(root, T)
    BY <2>1, <2>2 DEF Restrict, states
  <2>4. lib' \in states'
    BY DEF TreeInv
  <2>5. root \in T
    BY <2>1, <2>2, <2>3, <2>4
  <2>6. kept(root, T) = { b \in T : Below(root, b) \/ Below(b, root) }
    <3> HIDE DEF T
    <3> QED BY <2>5, KeptIsLine DEF T
  <2> QED BY <2>1, <2>3, <2>6 DEF OffLine
<1>2. CASE state' # "ONLINE"
  BY <1>2 DEF settle, states
<1> QED BY <1>1, <1>2

LEMMA LocalStep ==
  ASSUME LocalInv, [Next]_vars
  PROVE  /\ LocalInv'
         /\ Below(lib, lib') /\ lib \in Seq(Header) /\ lib' \in Seq(Header)
         /\ \A c \in states : c \in states' \/ OffLine(c, lib')
         /\ \A b \in Blocks : ExtendLocalChain(b) \/ ExtendFork(b) =>
                                b \in states' \/ OffLine(b, lib')
<1>1. MemoInv' /\ BootInv' /\ TreeInv /\ TreeInv'
  BY StepMemo, StepBoot DEF LocalInv, MemoInv, TypeInv
<1>2. Below(lib, lib') /\ lib' \in Seq(Header) /\ lib \in Seq(Header)
  BY <1>1, StepMoves DEF LocalInv, TreeInv, Consistent, Tree
<1>3. Tree(states, Header)
  BY <1>1 DEF TreeInv, Consistent
<1>4. ASSUME NEW b \in Blocks, ExtendLocalChain(b) \/ ExtendFork(b)
      PROVE  /\ GenesisNotesStay'
             /\ \A c \in states \cup {b} : c \in states' \/ OffLine(c, lib')
  <2> DEFINE ledger == with_block(b)
  <2>1. Accepted(b) /\ b \notin states /\ parent(b) \in states
    BY <1>4 DEF ExtendLocalChain, ExtendFork, Accepted, parent_found
  <2>2. /\ DOMAIN ledger = states \cup {b}
        /\ \A c \in DOMAIN ledger : GenesisNotes \subseteq ledger[c]
    BY <2>1 DEF with_block, LocalInv, GenesisNotesStay
  <2>3. Tree(states \cup {b}, Header)
    BY <1>1, <2>1, AcceptedStands
  <2>4. PICK t : \E tips : settle(t, tips, ledger)
    BY <1>4 DEF ExtendLocalChain, ExtendFork
  <2>5. PICK tips : settle(t, tips, ledger)
    BY <2>4
  <2> HIDE DEF ledger
  <2>6. /\ states' \subseteq DOMAIN ledger
        /\ \A c \in states' : ledger_state'[c] = ledger[c]
    BY <2>5, SettledStates
  <2>7. \A c \in DOMAIN ledger : c \in states' \/ OffLine(c, lib')
    BY <1>1, <2>2, <2>3, <2>5, SettleKeeps
  <2> QED BY <2>2, <2>6, <2>7 DEF GenesisNotesStay
<1>5. CASE to_online
  <2>1. settle(local_chain, forks, ledger_state) /\ states = DOMAIN ledger_state
    BY <1>5 DEF to_online, states
  <2>2. /\ states' \subseteq states
        /\ \A c \in states' : ledger_state'[c] = ledger_state[c]
    BY <2>1, SettledStates
  <2>3. \A c \in states : c \in states' \/ OffLine(c, lib')
    BY <1>1, <1>3, <2>1, SettleKeeps
  <2>4. GenesisNotesStay'
    BY <2>2 DEF LocalInv, GenesisNotesStay
  <2>5. \A b : ~ ExtendLocalChain(b) /\ ~ ExtendFork(b)
    BY <1>5 DEF to_online, ExtendLocalChain, ExtendFork, Accepted
  <2> QED BY <1>1, <1>2, <2>3, <2>4, <2>5 DEF LocalInv
<1>6. CASE QuietStep
  <2>1. states' = states
    BY <1>6 DEF QuietStep
  <2>2. CASE ledger_state' = ledger_state
    BY <1>1, <1>2, <1>4, <2>1, <2>2 DEF LocalInv, GenesisNotesStay
  <2>3. ASSUME NEW b \in Blocks, NEW n \in Mintable, MintNote(b, n)
        PROVE  \A m \in states : ledger_state[m] \subseteq ledger_state'[m]
    BY <2>3 DEF MintNote, states
  <2>4. ASSUME NEW b \in Blocks, NEW n \in Mintable, MintNote(b, n)
        PROVE  GenesisNotesStay'
    BY <2>1, <2>3, <2>4 DEF LocalInv, GenesisNotesStay
  <2>5. ASSUME NEW b \in Blocks, ~ ExtendLocalChain(b), ~ ExtendFork(b), on_block(b)
        PROVE  ledger_state' = ledger_state
    BY <2>5 DEF on_block, DropKnown, RaiseParentNotFound, RaiseImmutableFork,
                RaiseInvalidLeaderProof, vars
  <2>6. CASE \E b \in Blocks : ExtendLocalChain(b) \/ ExtendFork(b)
    BY <1>1, <1>2, <1>4, <2>6 DEF LocalInv
  <2>7. CASE ~ \E b \in Blocks : ExtendLocalChain(b) \/ ExtendFork(b)
    <3>1. CASE to_online
      BY <1>5, <1>1, <1>2, <2>1, <3>1, SettledStates DEF LocalInv, to_online, GenesisNotesStay, states
    <3>2. CASE \E b \in Blocks : on_block(b)
      BY <2>2, <2>5, <2>7, <3>2
    <3>3. CASE \E b \in Blocks, n \in Mintable : MintNote(b, n)
      BY <1>1, <1>2, <2>1, <2>4, <2>7, <3>3 DEF LocalInv
    <3>4. CASE UNCHANGED vars
      BY <2>2, <3>4 DEF vars
    <3> QED BY <3>1, <3>2, <3>3, <3>4 DEF Next
  <2> QED BY <2>6, <2>7
<1>7. CASE \E b \in Blocks : ExtendLocalChain(b) \/ ExtendFork(b)
  BY <1>1, <1>2, <1>4, <1>7 DEF LocalInv
<1> QED BY <1>5, <1>6, <1>7, StepKinds

\* Whatever on_block refuses deserves it.
LEMMA RefusedCause ==
  ASSUME LocalInv, NEW b \in Blocks, Refused(b), NEW bases
  PROVE  Cause(b, lib, bases)
<1>1. /\ b \notin states /\ parent(b) \in states /\ b \in Seq(Header)
      /\ Tree(states, Header) /\ lib \in states /\ lib \in Seq(Header) /\ TreeInv
      /\ MemoType(epoch_state) /\ MemoExact(epoch_state)
  BY BlocksAssumption DEF Refused, RaiseImmutableFork, RaiseInvalidLeaderProof, parent_found,
                          LocalInv, MemoInv, TypeInv, TreeInv, Consistent, Tree
<1>2. b # Genesis
  BY <1>1 DEF Tree
<1>3. CASE RaiseImmutableFork(b)
  <2>1. height(parent(b), states) < height(lib, states)
    BY <1>3 DEF RaiseImmutableFork, below_lib
  <2>2. /\ height(parent(b), states) = Len(parent(b)) + 1
        /\ height(lib, states) = Len(lib) + 1
    BY <1>1, HeightIsLength
  <2>3. Len(parent(b)) \in Nat /\ Len(lib) \in Nat
    BY <1>1 DEF Tree
  <2>4. ~ Below(b, lib)
    BY <1>1, BelowInTree
  <2>5. ~ Below(lib, parent(b))
    BY <2>1, <2>2, <2>3 DEF Below
  <2>6. ~ Below(lib, b)
    BY <1>1, <1>2, <2>5, ParentProperties
  <2> QED BY <2>4, <2>6 DEF Cause, OffLine
<1>4. CASE RaiseInvalidLeaderProof(b)
  <2> DEFINE E == epoch_of(slot(b))
             chain == parent(b)
             st == epoch_states(E, chain, epoch_state)
             proof == header(b).proof
  <2>1. ~ verify(proof, commitments(st[E].stake))
    BY <1>4 DEF RaiseInvalidLeaderProof, leader_proof_valid, compute_epoch_state
  <2>2. E \in Nat
    BY EpochOfBlock
  <2> HIDE DEF E, chain, st, proof
  <2>3. PICK g : ScratchRun(g, E, chain)
    BY <1>1, <2>2, ScratchExists DEF chain
  <2>4. st[E] = g[E]
    <3>1. \A e \in 0 .. E : st[e] = g[e]
      BY <1>1, <2>2, <2>3, EpochStatesExact DEF st, chain
    <3> QED BY <2>2, <3>1
  <2>5. GenesisNotes \subseteq commitments(st[E].stake)
    <3>1. CASE E = 0
      BY <2>3, <2>4, <3>1 DEF ScratchRun, GenesisEpoch, commitments
    <3>2. CASE E # 0
      <4> DEFINE sl == StakeSlot(E)
                 s == state_at_slot_beginning(chain, sl)
      <4>1. E \in Nat \ {0} /\ E \in 1 .. E
        BY <2>2, <3>2
      <4>2. sl \in Int
        BY <4>1, SlotsInOrder
      <4> HIDE DEF sl
      <4>3. s = SnapshotOf(chain, sl)
        BY <1>1, SnapshotIsOf DEF chain
      <4>4. g[E].stake = s
        <5>1. g[E] = ScratchStep(g[E-1].inferred, E, chain)
          BY <2>3, <3>2, <4>1 DEF ScratchRun
        <5> QED BY <4>3, <5>1 DEF ScratchStep, sl
      <4>5. s = GenesisState \/ s \in Early(chain, sl)
        BY <1>1, <4>2, SnapshotKinds DEF chain
      <4>6. s \in Early(chain, sl) => s \in states
        BY <1>1, <4>2, EarlyBlocks DEF chain
      <4> HIDE DEF s
      <4> QED BY <2>4, <4>4, <4>5, <4>6 DEF commitments, LocalInv, GenesisNotesStay
    <3> QED BY <3>1, <3>2
  <2>6. proof \notin GenesisNotes \ Nullified
    BY <2>1, <2>5, NotesAssumption, MarkersAssumption DEF verify
  <2>7. Len(b) \in 1 .. Len(b) /\ proof = b[Len(b)].proof
    BY <1>1, <1>2, LenZero DEF proof, header
  <2> QED BY <2>6, <2>7 DEF Cause, well_formed
<1> QED BY <1>3, <1>4 DEF Refused

---------------------------------------------------------------------------
\* The peers.

\* What a Follower made from a ledger state holds: of each block the chain down to there.
Rooted(T, root) ==
  /\ root \in T /\ T \subseteq Blocks
  /\ \A b \in T \ {root} : Below(root, b) /\ parent(b) \in T

PeerOK(peer) ==
  /\ DOMAIN peer = {"tip", "forks", "stored", "root", "state"}
  /\ Rooted(peer.stored, peer.root)
  /\ peer.tip \in peer.stored
  /\ peer.forks \in Seq(peer.stored) /\ NoRepeats(peer.forks) /\ peer.tip \notin Range(peer.forks)

LEMMA RootedBlocks ==
  ASSUME NEW T, NEW root, Rooted(T, root), NEW b \in T
  PROVE  /\ b \in Blocks /\ b \in Seq(Header) /\ root \in Seq(Header)
         /\ Below(root, b) /\ Len(b) \in Nat /\ Len(root) \in 0 .. Len(b)
<1>1. b \in Blocks /\ b \in Seq(Header) /\ root \in Seq(Header)
  BY BlocksAssumption DEF Rooted
<1>2. Below(root, b)
  BY <1>1, BelowReflexive DEF Rooted
<1> QED BY <1>1, <1>2 DEF Below

\* The chain below the root makes it a tree.
LEMMA RootedHoldsChains ==
  ASSUME NEW T, NEW root, Rooted(T, root), NEW b \in T, NEW h \in Len(root) .. Len(b)
  PROVE  At(b, h) \in T
<1> DEFINE C == { At(root, i) : i \in 0 .. Len(root) }
           U == T \cup C
<1>1. /\ b \in Seq(Header) /\ root \in Seq(Header) /\ Below(root, b)
      /\ Len(b) \in Nat /\ Len(root) \in Nat /\ root \in T
  BY RootedBlocks DEF Rooted
<1>2. \A i \in 0 .. Len(root) : At(root, i) \in Seq(Header) /\ Len(At(root, i)) = i
  BY <1>1, AtProperties
<1>3. Tree(U, Header)
  <2>1. U \subseteq Seq(Header)
    BY <1>2, BlocksAssumption DEF Rooted
  <2>2. Genesis \in U
    BY <1>1, AtEnds
  <2>3. ASSUME NEW c \in T \ {Genesis} PROVE parent(c) \in U
    <3>1. CASE c = root
      <4>1. Len(root) # 0
        BY <1>1, <2>3, <3>1, LenZero
      <4>2. Len(root) - 1 \in 0 .. Len(root)
        BY <1>1, <4>1
      <4> QED BY <3>1, <4>2 DEF parent
    <3> QED BY <3>1 DEF Rooted
  <2>4. ASSUME NEW i \in 0 .. Len(root), At(root, i) # Genesis PROVE parent(At(root, i)) \in U
    <3>1. i # 0
      BY <1>1, <2>4, AtEnds
    <3>2. i - 1 \in 0 .. i /\ i - 1 \in 0 .. Len(root)
      BY <1>1, <3>1
    <3>3. parent(At(root, i)) = At(root, i - 1)
      BY <1>1, <1>2, <3>2, AtAt DEF parent
    <3> QED BY <3>2, <3>3
  <2> QED BY <2>1, <2>2, <2>3, <2>4 DEF Tree
<1>4. h \in 0 .. Len(b)
  BY <1>1
<1>5. At(b, h) \in U
  <2> HIDE DEF U
  <2>1. b \in U
    BY DEF U
  <2> QED BY <1>3, <1>4, <2>1, TreeHoldsChains
<1>6. CASE At(b, h) \in C
  <2>1. PICK i \in 0 .. Len(root) : At(b, h) = At(root, i)
    BY <1>6
  <2>2. Len(At(b, h)) = h
    BY <1>1, <1>4, AtProperties
  <2>3. h = i
    BY <1>2, <2>1, <2>2
  <2>4. h = Len(root)
    BY <1>1, <2>3
  <2> QED BY <1>1, <2>4 DEF Below
<1> QED BY <1>5, <1>6

LEMMA RootedAncestor ==
  ASSUME NEW T, NEW root, Rooted(T, root), NEW a \in T, NEW b \in T
  PROVE  is_ancestor(a, b, T) <=> Below(a, b)
<1>1. /\ a \in Seq(Header) /\ b \in Seq(Header) /\ Len(a) \in Nat /\ Len(b) \in Nat
      /\ Len(root) =< Len(a) /\ Len(root) \in Nat
  BY RootedBlocks
<1>2. ASSUME is_ancestor(a, b, T) PROVE Below(a, b)
  <2>1. PICK h \in 0 .. Len(b) : a = At(b, h)
    BY <1>2 DEF is_ancestor, iter_chain
  <2>2. Len(a) = h
    BY <1>1, <2>1, AtProperties
  <2> QED BY <2>1, <2>2 DEF Below
<1>3. ASSUME Below(a, b) PROVE is_ancestor(a, b, T)
  <2>1. Len(a) \in 0 .. Len(b) /\ a = At(b, Len(a))
    BY <1>1, <1>3 DEF Below
  <2>2. \A i \in Len(a) .. Len(b) : At(b, i) \in T
    <3> SUFFICES ASSUME NEW i \in Len(a) .. Len(b) PROVE At(b, i) \in T
      OBVIOUS
    <3>1. i \in Len(root) .. Len(b)
      BY <1>1
    <3> QED BY <3>1, RootedHoldsChains
  <2> QED BY <2>1, <2>2 DEF is_ancestor, iter_chain
<1> QED BY <1>2, <1>3

\* Pruning to the line of a block leaves the root, and each block's parent.
LEMMA RootedKept ==
  ASSUME NEW T, NEW root, Rooted(T, root), NEW c \in T
  PROVE  /\ Rooted(kept(c, T), root)
         /\ \A b \in T : Below(c, b) => b \in kept(c, T)
<1>1. kept(c, T) = { b \in T : Below(c, b) \/ Below(b, c) }
  <2>1. \A b \in T : /\ is_ancestor(c, b, T) <=> Below(c, b)
                     /\ is_ancestor(b, c, T) <=> Below(b, c)
    BY RootedAncestor
  <2> QED BY <2>1 DEF kept
<1>2. root \in kept(c, T)
  BY <1>1, RootedBlocks DEF Rooted
<1>3. ASSUME NEW b \in kept(c, T) \ {root} PROVE Below(root, b) /\ parent(b) \in kept(c, T)
  <2>1. b \in T /\ parent(b) \in T /\ Below(root, b)
    BY <1>1, <1>3 DEF Rooted
  <2>2. /\ b \in Seq(Header) /\ root \in Seq(Header) /\ c \in Seq(Header)
        /\ Len(b) \in Nat /\ Len(root) \in 0 .. Len(b)
    BY <2>1, RootedBlocks
  <2>3. b # Genesis
    <3> SUFFICES ASSUME b = Genesis PROVE b = root
      BY <1>3
    <3>1. Len(b) = 0 /\ Len(root) = 0
      BY <2>2, LenZero
    <3> QED BY <2>2, <3>1, LenZero
  <2>4. /\ parent(b) \in Seq(Header) /\ Below(parent(b), b)
        /\ Below(c, b) => c = b \/ Below(c, parent(b))
    BY <2>2, <2>3, ParentProperties
  <2>5. Below(b, c) \/ c = b => Below(parent(b), c)
    BY <2>2, <2>4, BelowTransitive
  <2> QED BY <1>1, <1>3, <2>1, <2>4, <2>5
<1> QED BY <1>1, <1>2, <1>3 DEF Rooted

LEMMA RootedGrows ==
  ASSUME NEW T, NEW root, Rooted(T, root), NEW b \in Blocks \ T, parent(b) \in T
  PROVE  Rooted(T \cup {b}, root)
<1>1. b \in Seq(Header)
  BY BlocksAssumption
<1>2. b # Genesis
  <2> SUFFICES ASSUME b = Genesis PROVE parent(b) = b
    OBVIOUS
  <2> QED BY SMT DEF parent, At, Genesis
<1>3. Below(parent(b), b) /\ parent(b) \in Seq(Header)
  BY <1>1, <1>2, ParentProperties
<1>4. Below(root, parent(b)) /\ root \in Seq(Header)
  BY RootedBlocks
<1>5. Below(root, b)
  BY <1>1, <1>3, <1>4, BelowTransitive
<1> QED BY <1>5 DEF Rooted

LEMMA PeerUpdates ==
  ASSUME NEW peer, PeerOK(peer)
  PROVE  /\ PeerOK(peer_update_lib(peer)) /\ peer_update_lib(peer).root = peer.root
         /\ peer_update_lib(peer).stored \subseteq peer.stored
<1> DEFINE T == peer.stored
           c == peer_lib(peer)
           above == { f \in T : is_ancestor(c, f, T) }
           new == peer_update_lib(peer)
<1>1. CASE peer.state # "ONLINE"
  BY <1>1 DEF peer_update_lib
<1>2. CASE peer.state = "ONLINE"
  <2>1. new = [peer EXCEPT !.forks = list_keep(@, above), !.stored = kept(c, T)]
    BY <1>2 DEF peer_update_lib
  <2>2. /\ Rooted(T, peer.root) /\ peer.tip \in T /\ peer.forks \in Seq(T)
        /\ NoRepeats(peer.forks) /\ peer.tip \notin Range(peer.forks)
        /\ DOMAIN peer = {"tip", "forks", "stored", "root", "state"}
    BY DEF PeerOK
  <2>3. peer.tip \in Seq(Header) /\ Len(peer.tip) \in Nat
    BY <2>2, RootedBlocks
  <2>4. c \in T /\ Below(c, peer.tip)
    <3>1. c = kth_back(peer.tip, K, peer.root, T)
      BY <1>2 DEF peer_lib
    <3>2. peer.root \in T /\ Below(peer.root, peer.tip)
      BY <2>2, RootedBlocks DEF Rooted
    <3>3. ASSUME NEW d \in iter_chain(peer.tip, T), Len(d) = Len(peer.tip) - K
          PROVE  At(peer.tip, Len(peer.tip) - K) \in T /\ Below(At(peer.tip, Len(peer.tip) - K), peer.tip)
      <4>1. PICK h \in 0 .. Len(peer.tip) :
              d = At(peer.tip, h) /\ \A i \in h .. Len(peer.tip) : At(peer.tip, i) \in T
        BY <3>3 DEF iter_chain
      <4>2. Len(d) = h /\ h \in h .. Len(peer.tip)
        BY <2>3, <4>1, AtProperties
      <4>3. h = Len(peer.tip) - K
        BY <3>3, <4>2
      <4> QED BY <4>1, <4>2, <4>3 DEF Below
    <3> QED BY <3>1, <3>2, <3>3 DEF kth_back
  <2> HIDE DEF c, T, new, above
  <2>5. /\ Rooted(kept(c, T), peer.root) /\ kept(c, T) \subseteq T
        /\ \A b \in T : Below(c, b) => b \in kept(c, T)
    BY <2>2, <2>4, RootedKept DEF kept
  <2>6. LET r == list_keep(peer.forks, above) IN
        r \in Seq(T) /\ Range(r) = Range(peer.forks) \cap above /\ NoRepeats(r)
    BY <2>2, ListKeep
  <2>7. above \subseteq kept(c, T)
    BY DEF above, kept
  <2>8. list_keep(peer.forks, above) \in Seq(kept(c, T))
    <3> DEFINE r == list_keep(peer.forks, above)
    <3>1. r \in Seq(T) /\ Range(r) \subseteq kept(c, T)
      BY <2>6, <2>7
    <3> HIDE DEF r
    <3>2. \A i \in 1 .. Len(r) : r[i] \in kept(c, T)
      BY <3>1, RangeEquality
    <3>3. r \in Seq(kept(c, T))
      BY <3>1, <3>2
    <3> QED BY <3>3 DEF r
  <2>9. /\ new.forks = list_keep(peer.forks, above) /\ new.stored = kept(c, T)
        /\ new.tip = peer.tip /\ new.root = peer.root
        /\ DOMAIN new = {"tip", "forks", "stored", "root", "state"}
    BY <2>1, <2>2
  <2> QED BY <2>2, <2>4, <2>5, <2>6, <2>8, <2>9 DEF PeerOK, new, T
<1> QED BY <1>1, <1>2

\* Fork choice gives a block of the tree.
LEMMA MaxvalidInTree ==
  ASSUME NEW T, NEW local \in T, NEW tips \in Seq(T), NEW k, NEW s
  PROVE  maxvalid_bg(local, tips, k, s, T) \in T /\ maxvalid_mc(local, tips, k, T) \in T
<1> DEFINE n == Len(tips)
           bg == [p \in T \X T |-> IF better_bg(p[1], p[2], k, s, T) THEN p[2] ELSE p[1]]
           mc == [p \in T \X T |-> IF better_mc(p[1], p[2], k, T) THEN p[2] ELSE p[1]]
           Best(pick) == CHOOSE f : f = [i \in 0 .. n |->
                                     IF i = 0 THEN local ELSE pick[<< f[i-1], tips[i] >>]]
<1>1. bg \in [T \X T -> T] /\ mc \in [T \X T -> T]
  OBVIOUS
<1>2. maxvalid_bg(local, tips, k, s, T) = Best(bg)[n] /\ maxvalid_mc(local, tips, k, T) = Best(mc)[n]
  BY DEF maxvalid_bg, maxvalid_mc
<1> HIDE DEF bg, mc
<1>3. ASSUME NEW pick \in [T \X T -> T] PROVE Best(pick)[n] \in T
  <2> DEFINE cmax == Best(pick)
  <2>1. cmax = CHOOSE f : PickRun(f, local, tips, pick)
    BY DEF PickRun
  <2> HIDE DEF cmax
  <2>2. PickSteps(cmax, T, local, tips, pick)
    BY <2>1, PickLoop
  <2>3. n \in 0 .. n
    OBVIOUS
  <2> QED BY <2>2, <2>3 DEF PickSteps, cmax
<1> QED BY <1>1, <1>2, <1>3

LEMMA PeerGrows ==
  ASSUME NEW peer, PeerOK(peer), NEW b \in Blocks \ peer.stored, parent(b) \in peer.stored
  PROVE  /\ PeerOK(received(peer, b)) /\ received(peer, b).root = peer.root
         /\ received(peer, b).stored \subseteq peer.stored \cup {b}
<1> DEFINE T == peer.stored \cup {b}
           all == Append(peer.forks, b)
           tips == list_remove(all, parent(b))
           new_tip == IF peer.state = "BOOTSTRAPPING" THEN maxvalid_bg(peer.tip, tips, K, S, T)
                      ELSE maxvalid_mc(peer.tip, tips, K, T)
           forks_ == Append(tips, peer.tip)
           one == [peer EXCEPT !.tip = b, !.stored = T]
           two == [peer EXCEPT !.tip = new_tip, !.stored = T,
                               !.forks = list_remove(forks_, new_tip)]
<1>1. /\ Rooted(peer.stored, peer.root) /\ peer.tip \in peer.stored
      /\ peer.forks \in Seq(peer.stored)
      /\ NoRepeats(peer.forks) /\ peer.tip \notin Range(peer.forks)
      /\ DOMAIN peer = {"tip", "forks", "stored", "root", "state"}
  BY DEF PeerOK
<1>2. Rooted(T, peer.root)
  BY <1>1, RootedGrows
<1>3. peer.forks \in Seq(T) /\ peer.tip \in T /\ b \in T /\ b # peer.tip /\ b \notin Range(peer.forks)
  BY <1>1, RangeEquality
<1>4. PeerOK(one) /\ one.root = peer.root /\ one.stored = T
  <2>1. /\ DOMAIN one = {"tip", "forks", "stored", "root", "state"}
        /\ one.tip = b /\ one.stored = T /\ one.forks = peer.forks /\ one.root = peer.root
    BY <1>1
  <2> HIDE DEF one, T
  <2> QED BY <1>1, <1>2, <1>3, <2>1 DEF PeerOK
<1>5. PeerOK(two) /\ two.root = peer.root /\ two.stored = T
  <2> HIDE DEF T
  <2>1. all \in Seq(T) /\ Range(all) = Range(peer.forks) \cup {b} /\ NoRepeats(all)
    BY <1>1, <1>3, ListAppend
  <2> HIDE DEF all
  <2>2. tips \in Seq(T) /\ Range(tips) = Range(all) \ {parent(b)} /\ NoRepeats(tips)
    BY <2>1, ListRemove
  <2> HIDE DEF tips
  <2>3. forks_ \in Seq(T) /\ NoRepeats(forks_)
    BY <1>1, <1>3, <2>1, <2>2, ListAppend
  <2> HIDE DEF forks_
  <2>4. new_tip \in T
    BY <1>3, <2>2, MaxvalidInTree
  <2> HIDE DEF new_tip
  <2>5. LET r == list_remove(forks_, new_tip) IN
        r \in Seq(T) /\ new_tip \notin Range(r) /\ NoRepeats(r)
    BY <2>3, ListRemove
  <2>6. /\ DOMAIN two = {"tip", "forks", "stored", "root", "state"}
        /\ two.tip = new_tip /\ two.stored = T /\ two.root = peer.root
        /\ two.forks = list_remove(forks_, new_tip)
    BY <1>1
  <2> HIDE DEF two
  <2> QED BY <1>2, <2>4, <2>5, <2>6 DEF PeerOK
<1>6. received(peer, b) = peer_update_lib(one) \/ received(peer, b) = peer_update_lib(two)
  BY DEF received
<1> HIDE DEF one, two
<1> QED BY <1>4, <1>5, <1>6, PeerUpdates DEF T

---------------------------------------------------------------------------
\* The invariant of sync().

\* What a peer holds, or has forgotten in the call.
Held == pruned \cup UNION { peers[p].stored : p \in Peer }

\* What the peers were made from.
Roots == { peers[p].root : p \in Peer }

\* Nothing is left to do about b.
Settled(b, T, refused, root) == b \in T \cup refused \/ OffLine(b, root)

PeersOK ==
  /\ DOMAIN peers = Peer /\ pruned \subseteq Blocks
  /\ \A p \in Peer : PeerOK(peers[p])

\* What is fetched is, or was, held by a peer.
FetchedOK ==
  /\ DOMAIN stream = {"rest", "pending", "slot"}
  /\ stream.rest \subseteq Peer /\ groups \subseteq SUBSET Peer
  /\ stream.pending \cup orphans \subseteq Held
  /\ rejected_blocks \subseteq Blocks
  /\ phase = "fetch" /\ num_blocks = 0 => orphans = {}

CauseOK ==
  /\ \A b \in rejected_blocks : Cause(b, lib, Roots)
  /\ phase = "cancelled" => suffix # << >> /\ Cause(Head(suffix), lib, Roots)

\* Each block of the list is the parent of the next.
Line(list) ==
  \A i, j \in 1 .. Len(list) : i =< j =>
    Below(list[i], list[j]) /\ Len(list[j]) = Len(list[i]) + (j - i)

\* Where a backfill may begin: above local's tree, as far as pruning has left it, or at
\* the block a peer was made from.
Begins(b, T, root, bases) ==
  parent(b) \in T \/ OffLine(parent(b), root) \/ b \in bases \ {Genesis}

\* What a fork is backfilled with: a line up to its tip.  While there is none, a peer
\* that holds the tip is still to be asked, unless there is none any more or no need.
SuffixOK ==
  /\ suffix \in Seq(Blocks \ {Genesis}) /\ Line(suffix)
  /\ unasked \subseteq Peer
  /\ phase \in {"checkpoint", "backfill"} =>
       /\ fork_tip \in Blocks
       /\ suffix # << >> => /\ Begins(Head(suffix), states, lib, Roots)
                            /\ suffix[Len(suffix)] = fork_tip
  /\ phase = "backfill" /\ suffix = << >> =>
       \/ Settled(fork_tip, states, rejected_blocks, lib)
       \/ fork_tip \in pruned
       \/ \E p \in unasked : fork_tip \in peers[p].stored

GroupOf(p) == { q \in Peer : tip(q) = tip(p) }

\* The round, or an earlier one, has b in hand.
Handled(b) ==
  \/ Settled(b, states, rejected_blocks, lib)
  \/ b \in orphans
  \/ phase = "fetch" /\ b \in stream.pending

\* A peer of p's group has been read.
Served(p) ==
  \E q \in GroupOf(p) : \A b \in peers[q].stored : slot(b) < origin \/ Handled(b)

ServedOK ==
  /\ phase \in {"before", "checkpoint", "round", "done"} => orphans = {}
  /\ origin = Unset => phase \in {"before", "checkpoint", "round", "cancelled"}
  /\ phase = "before" => origin = Unset
  /\ origin \in Nat \cup {Unset, Moved}
  /\ pruned # {} => origin = Moved
  /\ phase # "fetch" => stream.pending = {}
  /\ origin \notin {Unset, Moved} => \A p \in Peer : ahead(p, origin) =>
       \/ Served(p)
       \/ phase = "fetch" /\ start_slot = origin /\ GroupOf(p) \in groups

SyncInv == LocalInv /\ PeersOK /\ FetchedOK /\ CauseOK /\ SuffixOK /\ ServedOK

LEMMA HeldBlocks ==
  ASSUME PeersOK
  PROVE  /\ Held \subseteq Blocks /\ Roots \subseteq Seq(Header)
         /\ \A b \in Blocks : b \in Seq(Header)
BY BlocksAssumption DEF PeersOK, PeerOK, Rooted, Held, Roots

\* How far a chain can be followed from its tip in a set of blocks.
LEMMA ChainReaches ==
  ASSUME NEW b \in Seq(Header), NEW T, Genesis \notin T
  PROVE  LET n == Cardinality(iter_chain(b, T)) IN
         /\ n \in 0 .. Len(b) /\ At(b, Len(b) - n) \notin T
         /\ \A h \in Len(b) - n + 1 .. Len(b) : At(b, h) \in T
<1> DEFINE len == Len(b)
           gaps == { h \in 0 .. len : At(b, h) \notin T }
<1>1. len \in Nat /\ At(b, 0) = Genesis
  BY AtEnds
<1>2. gaps \in SUBSET (0 .. len) /\ gaps # {}
  BY <1>1
<1>3. PICK g \in gaps : \A h \in gaps : h =< g
  <2> HIDE DEF gaps
  <2> QED BY <1>1, <1>2, GreatestExists
<1>4. /\ g \in 0 .. len /\ At(b, g) \notin T
      /\ \A h \in g + 1 .. len : At(b, h) \in T
  <2>1. ASSUME NEW h \in g + 1 .. len PROVE At(b, h) \in T
    <3>1. h \in 0 .. len /\ h > g
      BY <1>1, <1>3
    <3> QED BY <1>3, <3>1
  <2> QED BY <1>3, <2>1
<1> DEFINE C == { At(b, h) : h \in g + 1 .. len }
           f == [h \in g + 1 .. len |-> At(b, h)]
<1>5. iter_chain(b, T) = C
  <2>1. ASSUME NEW h \in 0 .. len, \A i \in h .. len : At(b, i) \in T PROVE h \in g + 1 .. len
    <3>1. g \notin h .. len
      BY <1>4, <2>1
    <3> QED BY <1>1, <1>4, <3>1
  <2>2. ASSUME NEW h \in g + 1 .. len PROVE h \in 0 .. len /\ \A i \in h .. len : At(b, i) \in T
    <3>1. \A i \in h .. len : i \in g + 1 .. len
      BY <1>1, <1>4
    <3> QED BY <1>1, <1>4, <3>1
  <2> HIDE DEF len
  <2> QED BY <2>1, <2>2 DEF iter_chain, len
<1>6. f \in Bijection(g + 1 .. len, C)
  <2>1. \A h, i \in g + 1 .. len : f[h] = f[i] => h = i
    <3> SUFFICES ASSUME NEW h \in g + 1 .. len, NEW i \in g + 1 .. len, At(b, h) = At(b, i)
                 PROVE h = i
      OBVIOUS
    <3>1. h \in 0 .. len /\ i \in 0 .. len
      BY <1>1, <1>4
    <3>2. Len(At(b, h)) = h /\ Len(At(b, i)) = i
      BY <3>1, AtProperties
    <3> QED BY <3>2
  <2>2. f \in [g + 1 .. len -> C] /\ \A c \in C : \E h \in g + 1 .. len : f[h] = c
    OBVIOUS
  <2> HIDE DEF C, f
  <2> QED BY <2>1, <2>2 DEF Bijection, Injection, Surjection, IsInjective
<1>7. Cardinality(C) = len - g
  <2>1. IsFiniteSet(g + 1 .. len) /\ Cardinality(g + 1 .. len) = len - g
    <3>1. g \in Int /\ g + 1 \in Int /\ len \in Int /\ (g + 1 > len => len - g = 0)
      BY <1>1, <1>4
    <3> HIDE DEF len
    <3>2. /\ IsFiniteSet(g + 1 .. len)
          /\ Cardinality(g + 1 .. len) = IF g + 1 > len THEN 0 ELSE len - (g + 1) + 1
      BY <3>1, FS_Interval
    <3> QED BY <3>1, <3>2
  <2>2. ExistsBijection(g + 1 .. len, C)
    <3> HIDE DEF C, f, len
    <3> QED BY <1>6 DEF ExistsBijection
  <2> HIDE DEF C
  <2> QED BY <2>1, <2>2, FS_Bijection
<1>8. Cardinality(iter_chain(b, T)) = len - g /\ len - (len - g) = g
  BY <1>1, <1>4, <1>5, <1>7
<1> QED BY <1>1, <1>4, <1>8

(***************************************************************************)
(* What one peer gives of a chain is a line that ends with the block asked *)
(* for and begins above local's tree, or with the block that the peer was  *)
(* made from.                                                              *)
(***************************************************************************)
LEMMA MissingPart ==
  ASSUME Genesis \in states, NEW p \in Peer, PeerOK(peers[p]), NEW b \in Seq(Header)
  PROVE  LET list == missing_part(p, b) IN
         /\ list \in Seq(Blocks \ {Genesis}) /\ Line(list)
         /\ list # << >> => /\ parent(Head(list)) \in states \/ Head(list) = peers[p].root
                            /\ list[Len(list)] = b
         /\ b \in peers[p].stored /\ b \notin states => list # << >>
<1> DEFINE T == peers[p].stored \ states
           n == Cardinality(iter_chain(b, T))
           g == Len(b) - n
           list == missing_part(p, b)
<1>1. Len(b) \in Nat /\ Genesis \notin T /\ Rooted(peers[p].stored, peers[p].root)
  BY DEF PeerOK
<1>2. list = [i \in 1 .. n |-> At(b, Len(b) - n + i)]
  BY DEF missing_part
<1> HIDE DEF T
<1>3. /\ n \in 0 .. Len(b) /\ At(b, Len(b) - n) \notin T
      /\ \A h \in Len(b) - n + 1 .. Len(b) : At(b, h) \in T
  BY <1>1, ChainReaches
<1> HIDE DEF n
<1>4. /\ n \in Nat /\ g \in 0 .. Len(b) /\ g + n = Len(b) /\ At(b, g) \notin T
      /\ \A i \in 1 .. n : Len(b) - n + i = g + i /\ g + i \in g + 1 .. Len(b)
  BY <1>1, <1>3
<1>5. list = [i \in 1 .. n |-> At(b, g + i)]
  BY <1>2, <1>4
<1> HIDE DEF g, list
<1>6. ASSUME NEW i \in 1 .. n
      PROVE  /\ At(b, g + i) \in T /\ At(b, g + i) \in Blocks \ {Genesis}
             /\ Len(At(b, g + i)) = g + i /\ At(b, g + i) \in Seq(Header)
  <2>1. At(b, g + i) \in T /\ g + i \in 0 .. Len(b)
    BY <1>1, <1>3, <1>4 DEF g
  <2>2. Len(At(b, g + i)) = g + i /\ At(b, g + i) \in Seq(Header)
    BY <2>1, AtProperties
  <2>3. At(b, g + i) \in Blocks
    BY <1>1, <2>1 DEF Rooted, T
  <2> QED BY <1>1, <2>1, <2>2, <2>3
<1>7. list \in Seq(Blocks \ {Genesis}) /\ Len(list) = n /\ \A i \in 1 .. n : list[i] = At(b, g + i)
  <2> DEFINE Step(i) == At(b, g + i)
  <2>1. n \in Nat /\ list = [i \in 1 .. n |-> Step(i)] /\ \A i \in 1 .. n : Step(i) \in Blocks \ {Genesis}
    BY <1>4, <1>5, <1>6
  <2> HIDE DEF Step
  <2>2. list \in Seq(Blocks \ {Genesis}) /\ Len(list) = n /\ \A i \in 1 .. n : list[i] = Step(i)
    BY <2>1
  <2> QED BY <2>2 DEF Step
<1>8. Line(list)
  <2> SUFFICES ASSUME NEW i \in 1 .. n, NEW j \in 1 .. n, i =< j
               PROVE  /\ Below(list[i], list[j])
                      /\ Len(list[j]) = Len(list[i]) + (j - i)
    BY <1>7 DEF Line
  <2>1. g + j \in 0 .. Len(b) /\ g + i \in 0 .. g + j
    BY <1>1, <1>4
  <2>2. At(At(b, g + j), g + i) = At(b, g + i)
    BY <2>1, AtAt
  <2>3. Len(list[i]) = g + i /\ Len(list[j]) = g + j
    BY <1>6, <1>7
  <2> QED BY <1>4, <1>7, <2>1, <2>2, <2>3 DEF Below
<1>9. ASSUME list # << >>
      PROVE  /\ parent(Head(list)) \in states \/ Head(list) = peers[p].root
             /\ list[Len(list)] = b
  <2>1. n # 0
    BY <1>7, <1>9
  <2>2. 1 \in 1 .. n /\ n \in 1 .. n /\ g + 1 \in 0 .. Len(b)
    BY <1>1, <1>4, <2>1
  <2>3. Head(list) = At(b, g + 1) /\ list[Len(list)] = b
    <3>1. Head(list) = list[1]
      BY <1>7, <1>9
    <3>2. At(b, Len(b)) = b
      BY AtEnds
    <3> QED BY <1>4, <1>7, <2>2, <3>1, <3>2
  <2>4. parent(At(b, g + 1)) = At(b, g)
    <3>1. Len(At(b, g + 1)) - 1 = g /\ g \in 0 .. g + 1
      BY <1>4, <1>6, <2>2
    <3> QED BY <2>2, <3>1, AtAt DEF parent
  <2>5. Head(list) \in peers[p].stored
    BY <1>6, <2>2, <2>3 DEF T
  <2>6. parent(Head(list)) \in states \/ parent(Head(list)) \notin peers[p].stored
    BY <1>4, <2>3, <2>4 DEF T
  <2>7. Head(list) # peers[p].root => parent(Head(list)) \in peers[p].stored
    BY <1>1, <2>5 DEF Rooted
  <2> QED BY <2>3, <2>6, <2>7
<1>10. ASSUME b \in peers[p].stored, b \notin states PROVE list # << >>
  <2>1. At(b, Len(b)) = b /\ b \in T
    BY <1>10, AtEnds DEF T
  <2>2. g # Len(b)
    BY <1>4, <2>1
  <2>3. n # 0
    BY <1>1, <1>4, <2>2
  <2> QED BY <1>7, <2>3
<1> QED BY <1>7, <1>8, <1>9, <1>10 DEF list

\* What the next peer gives goes in front of what the last ones gave.
LEMMA LinesJoin ==
  ASSUME NEW list \in Seq(Blocks \ {Genesis}), NEW rest \in Seq(Blocks \ {Genesis}),
         Line(list), Line(rest), list # << >>, rest # << >>, list[Len(list)] = parent(Head(rest))
  PROVE  /\ Line(list \o rest) /\ list \o rest \in Seq(Blocks \ {Genesis})
         /\ list \o rest # << >> /\ Head(list \o rest) = Head(list)
         /\ (list \o rest)[Len(list \o rest)] = rest[Len(rest)]
<1> DEFINE n == Len(list)
           m == Len(rest)
           all == list \o rest
<1>1. /\ n \in Nat \ {0} /\ m \in Nat \ {0} /\ Len(all) = n + m
      /\ all \in Seq(Blocks \ {Genesis}) /\ Head(list) = list[1] /\ Head(rest) = rest[1]
      /\ Head(all) = all[1]
      /\ \A i \in 1 .. n : all[i] = list[i]
      /\ \A i \in 1 .. m : all[n + i] = rest[i]
  BY ConcatProperties
<1> HIDE DEF all, n, m
<1>2. /\ \A i \in 1 .. n : list[i] \in Seq(Header) /\ Len(list[i]) \in Nat
      /\ \A i \in 1 .. m : rest[i] \in Seq(Header) /\ Len(rest[i]) \in Nat /\ rest[i] # Genesis
  BY BlocksAssumption DEF n, m
<1>3. 1 \in 1 .. n /\ n \in 1 .. n /\ 1 \in 1 .. m /\ m \in 1 .. m /\ n + m \in 1 .. n + m
  BY <1>1
<1>4. Below(list[n], rest[1]) /\ Len(list[n]) = Len(rest[1]) - 1
  BY <1>1, <1>2, <1>3, ParentProperties DEF n
<1>5. \A i, j \in 1 .. n : i =< j => Below(list[i], list[j]) /\ Len(list[j]) = Len(list[i]) + (j - i)
  BY DEF Line, n
<1>6. \A i, j \in 1 .. m : i =< j => Below(rest[i], rest[j]) /\ Len(rest[j]) = Len(rest[i]) + (j - i)
  BY DEF Line, m
<1>7. ASSUME NEW i \in 1 .. n, NEW j \in 1 .. m
      PROVE  Below(list[i], rest[j]) /\ Len(rest[j]) = Len(list[i]) + ((n + j) - i)
  <2>0. i =< n /\ 1 =< j
    BY <1>1
  <2>1. Below(list[i], list[n]) /\ Len(list[n]) = Len(list[i]) + (n - i)
    BY <1>3, <1>5, <2>0
  <2>2. Below(rest[1], rest[j]) /\ Len(rest[j]) = Len(rest[1]) + (j - 1)
    BY <1>3, <1>6, <2>0
  <2>3. Below(list[i], rest[1])
    BY <1>2, <1>3, <1>4, <2>1, BelowTransitive
  <2>4. Below(list[i], rest[j])
    BY <1>2, <1>3, <2>2, <2>3, BelowTransitive
  <2>5. Len(rest[j]) = Len(list[i]) + ((n + j) - i)
    <3>1. /\ Len(list[i]) \in Nat /\ Len(list[n]) \in Nat /\ Len(rest[1]) \in Nat
          /\ Len(rest[j]) \in Nat
      BY <1>2, <1>3
    <3>2. n \in Nat /\ i \in Nat /\ j \in Nat
      BY <1>1
    <3>3. /\ Len(list[n]) = Len(rest[1]) - 1
          /\ Len(list[n]) = Len(list[i]) + (n - i)
          /\ Len(rest[j]) = Len(rest[1]) + (j - 1)
      BY <1>4, <2>1, <2>2
    <3> DEFINE u == Len(list[i])
               v == Len(list[n])
               w == Len(rest[1])
               x == Len(rest[j])
    <3>4. u \in Nat /\ v \in Nat /\ w \in Nat /\ x \in Nat
      BY <3>1
    <3>5. v = w - 1 /\ v = u + (n - i) /\ x = w + (j - 1)
      BY <3>3
    <3> HIDE DEF u, v, w, x
    <3>6. x = u + ((n + j) - i)
      BY <3>2, <3>4, <3>5
    <3> QED BY <3>6 DEF u, x
  <2> QED BY <2>4, <2>5
<1>8. Line(all)
  <2> SUFFICES ASSUME NEW i \in 1 .. n + m, NEW j \in 1 .. n + m, i =< j
               PROVE  Below(all[i], all[j]) /\ Len(all[j]) = Len(all[i]) + (j - i)
    BY <1>1 DEF Line
  <2>1. CASE j =< n
    <3>1. i \in 1 .. n /\ j \in 1 .. n
      BY <1>1, <2>1
    <3> QED BY <1>1, <1>5, <3>1
  <2>2. CASE i =< n /\ n < j
    <3>1. i \in 1 .. n /\ j - n \in 1 .. m /\ n + (j - n) = j
      BY <1>1, <2>2
    <3>2. all[i] = list[i] /\ all[n + (j - n)] = rest[j - n]
      BY <1>1, <3>1
    <3> QED BY <1>7, <3>1, <3>2
  <2>3. CASE n < i
    <3>1. /\ i - n \in 1 .. m /\ j - n \in 1 .. m /\ n + (i - n) = i /\ n + (j - n) = j
          /\ i - n =< j - n /\ (j - n) - (i - n) = j - i
      BY <1>1, <2>3
    <3>2. all[n + (i - n)] = rest[i - n] /\ all[n + (j - n)] = rest[j - n]
      BY <1>1, <3>1
    <3> QED BY <1>6, <3>1, <3>2
  <2> QED BY <1>1, <2>1, <2>2, <2>3
<1>9. all # << >> /\ Head(all) = list[1] /\ all[n + m] = rest[m]
  <2>1. Len(all) # 0
    BY <1>1
  <2> QED BY <1>1, <1>3, <2>1
<1> QED BY <1>1, <1>8, <1>9 DEF all, n, m

LEMMA LineProperties ==
  ASSUME NEW list \in Seq(Blocks \ {Genesis}), Line(list), list # << >>
  PROVE  /\ Head(list) \in Blocks /\ Head(list) = list[1] /\ Len(list) \in Nat \ {0}
         /\ \A b \in ToSet(list) : b \in Blocks /\ Below(Head(list), b)
         /\ Tail(list) \in Seq(Blocks \ {Genesis}) /\ Line(Tail(list))
         /\ Tail(list) # << >> =>
              /\ parent(Head(Tail(list))) = Head(list)
              /\ Tail(list)[Len(Tail(list))] = list[Len(list)]
         /\ Tail(list) = << >> => Head(list) = list[Len(list)]
<1> DEFINE n == Len(list)
           t == Tail(list)
<1>1. /\ n \in Nat \ {0} /\ Head(list) = list[1] /\ 1 \in 1 .. n
      /\ t \in Seq(Blocks \ {Genesis}) /\ Len(t) = n - 1 /\ \A i \in 1 .. n - 1 : t[i] = list[i+1]
  OBVIOUS
<1> HIDE DEF t
<1>2. \A i \in 1 .. n : list[i] \in Blocks /\ list[i] \in Seq(Header)
  BY BlocksAssumption
<1>3. \A b \in ToSet(list) : b \in Blocks /\ Below(Head(list), b)
  <2>1. ASSUME NEW b \in ToSet(list) PROVE \E i \in 1 .. n : b = list[i]
    BY DEF ToSet
  <2> QED BY <1>1, <1>2, <2>1 DEF Line
<1>4. Line(t)
  <2> SUFFICES ASSUME NEW i \in 1 .. Len(t), NEW j \in 1 .. Len(t), i =< j
               PROVE  Below(t[i], t[j]) /\ Len(t[j]) = Len(t[i]) + (j - i)
    BY DEF Line
  <2>1. i+1 \in 1 .. n /\ j+1 \in 1 .. n /\ i+1 =< j+1 /\ (j+1) - (i+1) = j - i
        /\ i \in 1 .. n-1 /\ j \in 1 .. n-1
    BY <1>1
  <2>2. Below(list[i+1], list[j+1]) /\ Len(list[j+1]) = Len(list[i+1]) + ((j+1) - (i+1))
    BY <2>1 DEF Line
  <2> QED BY <1>1, <2>1, <2>2
<1>5. ASSUME t # << >> PROVE parent(Head(t)) = Head(list) /\ t[Len(t)] = list[n]
  <2>1. n - 1 \in Nat \ {0} /\ Head(t) = t[1] /\ 1 \in 1 .. n - 1 /\ n - 1 \in 1 .. n - 1 /\ 2 \in 1 .. n
    BY <1>1, <1>5
  <2>2. Head(t) = list[2] /\ t[Len(t)] = list[n]
    BY <1>1, <2>1
  <2>3. Below(list[1], list[2]) /\ Len(list[2]) = Len(list[1]) + (2 - 1)
    BY <1>1, <2>1 DEF Line
  <2>4. Len(list[1]) \in Nat /\ Len(list[2]) - 1 = Len(list[1])
    BY <1>1, <1>2, <2>3
  <2>5. parent(list[2]) = list[1]
    BY <2>3, <2>4 DEF parent, Below
  <2> QED BY <1>1, <2>2, <2>5
<1>6. t = << >> => Head(list) = list[n]
  <2> SUFFICES ASSUME t = << >> PROVE n = 1
    BY <1>1
  <2>1. Len(t) = 0
    OBVIOUS
  <2> QED BY <1>1, <2>1
<1> QED BY <1>1, <1>2, <1>3, <1>4, <1>5, <1>6 DEF t

---------------------------------------------------------------------------
\* The steps.

\* What no step of sync() takes back.
Kept ==
  /\ rejected_blocks \subseteq rejected_blocks'
  /\ lib \in Seq(Header) /\ lib' \in Seq(Header)
  /\ \A b \in states : b \in Seq(Header) /\ (b \in states' \/ OffLine(b, lib'))
  /\ \A b \in Seq(Header) : OffLine(b, lib) => OffLine(b, lib')
  /\ \A b \in Blocks :
       /\ Cause(b, lib, Roots) => Cause(b, lib', Roots')
       /\ b # Genesis /\ Begins(b, states, lib, Roots) => Begins(b, states', lib', Roots')
       /\ Settled(b, states, rejected_blocks, lib)
            => Settled(b, states', rejected_blocks', lib')
       /\ Processed(b) => b \in states' \/ OffLine(b, lib')

PeerMoves == \E p \in Peer : PeerToOnline(p) \/ \E b \in Arriving : PeerReceives(p, b)

\* A peer that changes is still one, made from the same block.
LEMMA PeerMoved ==
  ASSUME PeersOK, PeerMoves
  PROVE  \E p \in Peer : \E peer : /\ PeerBecomes(p, peer) /\ PeerOK(peer)
                                    /\ peer.root = peers[p].root
<1>1. PICK p \in Peer : PeerToOnline(p) \/ \E b \in Arriving : PeerReceives(p, b)
  BY DEF PeerMoves
<1>2. PeerOK(peers[p])
  BY DEF PeersOK
<1>3. CASE PeerToOnline(p)
  <2> DEFINE peer == [peers[p] EXCEPT !.state = "ONLINE"]
  <2>1. PeerOK(peer) /\ peer.root = peers[p].root
    BY <1>2 DEF PeerOK
  <2>2. PeerBecomes(p, peer_update_lib(peer))
    BY <1>3 DEF PeerToOnline
  <2> HIDE DEF peer
  <2> QED BY <2>1, <2>2, PeerUpdates
<1>4. CASE \E b \in Arriving : PeerReceives(p, b)
  <2>1. PICK b \in Arriving : PeerReceives(p, b)
    BY <1>4
  <2>2. /\ b \in Blocks \ peers[p].stored /\ parent(b) \in peers[p].stored
        /\ PeerBecomes(p, received(peers[p], b))
    BY <2>1, PeersAssumption DEF PeerReceives
  <2> QED BY <1>2, <2>2, PeerGrows
<1> QED BY <1>1, <1>3, <1>4

LEMMA StepPeers ==
  ASSUME SyncInv, [SyncNext]_sync_vars
  PROVE  /\ PeersOK' /\ Roots' = Roots /\ pruned \subseteq pruned'
         /\ \A b \in Held : b \in Held'
         /\ \A p \in Peer : \A b \in peers[p].stored : b \in peers'[p].stored \/ b \in pruned'
         /\ PeerMoves \/ UNCHANGED << peers, pruned >>
<1>1. PeersOK
  BY DEF SyncInv
<1>2. CASE UNCHANGED << peers, pruned >>
  <2>1. PeersOK' /\ Roots' = Roots /\ Held' = Held
    BY <1>1, <1>2 DEF PeersOK, PeerOK, Held, Roots
  <2> QED BY <1>2, <2>1
<1>3. CASE PeerMoves
  <2>0. PICK p \in Peer : \E peer : /\ PeerBecomes(p, peer) /\ PeerOK(peer)
                                     /\ peer.root = peers[p].root
    BY <1>1, <1>3, PeerMoved
  <2>1. PICK peer : PeerBecomes(p, peer) /\ PeerOK(peer) /\ peer.root = peers[p].root
    BY <2>0
  <2>2. /\ DOMAIN peers = Peer /\ peers' = [peers EXCEPT ![p] = peer]
        /\ pruned' = pruned \cup (peers[p].stored \ peer.stored)
    BY <1>1, <2>1 DEF PeersOK, PeerBecomes
  <2>3. /\ DOMAIN peers' = Peer /\ peers'[p] = peer
        /\ \A q \in Peer \ {p} : peers'[q] = peers[q]
    BY <2>2
  <2>4. \A q \in Peer : PeerOK(peers'[q]) /\ peers'[q].root = peers[q].root
    BY <1>1, <2>1, <2>3 DEF PeersOK
  <2>5. pruned' \subseteq Blocks
    <3>1. peers[p].stored \subseteq Blocks
      BY <1>1 DEF PeersOK, PeerOK, Rooted
    <3> QED BY <1>1, <2>2, <3>1 DEF PeersOK
  <2>6. PeersOK'
    BY <2>3, <2>4, <2>5 DEF PeersOK, PeerOK
  <2>7. \A q \in Peer : \A b \in peers[q].stored : b \in peers'[q].stored \/ b \in pruned'
    BY <2>2, <2>3
  <2>8. \A b \in Held : b \in Held'
    BY <2>2, <2>7 DEF Held
  <2>9. Roots' = Roots
    BY <2>4 DEF Roots
  <2> QED BY <1>3, <2>2, <2>6, <2>7, <2>8, <2>9
<1>4. CASE SyncStep
  <2>1. UNCHANGED << peers, pruned >>
    <3>1. ASSUME NEW b \in stream.pending, FetchBlock(b) PROVE UNCHANGED << peers, pruned >>
      BY <3>1 DEF FetchBlock
    <3>2. CASE BeginRound \/ (\E g \in groups, p \in Peer : ReadGroup(g, p)) \/ PeerFails \/ EndFetch
      BY <3>2 DEF BeginRound, ReadGroup, PeerFails, EndFetch
    <3>3. CASE (\E b \in orphans : SkipOrphan(b) \/ BackfillOrphan(b)) \/ EndRound
               \/ (\E p \in unasked : AskPeer(p)) \/ AddToFork \/ CancelSync \/ RejectFork
               \/ EndBackfill
      BY <3>3 DEF SkipOrphan, BackfillOrphan, EndRound, AskPeer, AddToFork, CancelSync,
                  RejectFork, EndBackfill
    <3> QED BY <1>4, <3>1, <3>2, <3>3 DEF SyncStep
  <2> QED BY <1>2, <2>1
<1>5. CASE Before \/ CallSync \/ (\E cp \in Checkpoints : CallSyncFrom(cp)) \/ UNCHANGED sync_vars
  BY <1>2, <1>5 DEF Before, CallSync, CallSyncFrom, sync_vars
<1> QED BY <1>3, <1>4, <1>5 DEF SyncNext, PeerMoves

\* Every step of local in sync() is a step of a Follower.
LEMMA SyncIsLocal ==
  ASSUME SyncInv, [SyncNext]_sync_vars
  PROVE  [Next]_vars /\ rejected_blocks \subseteq rejected_blocks'
<1> USE DEF local_vars
<1>1. Held \subseteq Blocks /\ stream.pending \subseteq Held
  BY HeldBlocks DEF SyncInv, FetchedOK
<1>2. ASSUME phase \in {"checkpoint", "backfill"}, suffix # << >> PROVE Head(suffix) \in Blocks
  BY <1>2 DEF SyncInv, SuffixOK
<1>3. ASSUME NEW b \in Blocks, Processed(b) \/ NotAdded(b) PROVE Next
  BY <1>3 DEF Processed, NotAdded, Refused, Next, on_block
<1>4. CASE UNCHANGED sync_vars
  BY <1>4 DEF sync_vars
<1>5. CASE Before
  BY <1>5 DEF Before
<1>6. ASSUME NEW b \in stream.pending, FetchBlock(b)
      PROVE  [Next]_vars /\ rejected_blocks \subseteq rejected_blocks'
  BY <1>1, <1>3, <1>6 DEF FetchBlock, NotAdded
<1>7. CASE AddToFork
  BY <1>2, <1>3, <1>7 DEF AddToFork
<1>8. CASE CancelSync
  BY <1>2, <1>3, <1>8 DEF CancelSync
<1>9. CASE RejectFork
  BY <1>2, <1>3, <1>9 DEF RejectFork
<1>10. CASE \/ CallSync \/ (\E cp \in Checkpoints : CallSyncFrom(cp)) \/ BeginRound
            \/ (\E g \in groups, p \in Peer : ReadGroup(g, p)) \/ PeerFails \/ EndFetch
            \/ (\E b \in orphans : SkipOrphan(b) \/ BackfillOrphan(b)) \/ EndRound \/ EndBackfill
            \/ (\E p \in unasked : AskPeer(p)) \/ PeerMoves
  BY <1>10 DEF CallSync, CallSyncFrom, BeginRound, ReadGroup, PeerFails, EndFetch, SkipOrphan,
               BackfillOrphan, EndRound, EndBackfill, AskPeer, PeerMoves, PeerToOnline,
               PeerReceives, PeerBecomes
<1> QED BY <1>4, <1>5, <1>6, <1>7, <1>8, <1>9, <1>10 DEF SyncNext, SyncStep, PeerMoves

LEMMA SyncKeeps ==
  ASSUME SyncInv, [SyncNext]_sync_vars
  PROVE  LocalInv' /\ Kept
<1>1. [Next]_vars /\ rejected_blocks \subseteq rejected_blocks' /\ LocalInv
  BY SyncIsLocal DEF SyncInv
<1>2. /\ LocalInv'
      /\ Below(lib, lib') /\ lib \in Seq(Header) /\ lib' \in Seq(Header)
      /\ \A c \in states : c \in states' \/ OffLine(c, lib')
      /\ \A b \in Blocks : ExtendLocalChain(b) \/ ExtendFork(b) =>
                             b \in states' \/ OffLine(b, lib')
  BY <1>1, LocalStep
<1>3. \A b \in Seq(Header) : OffLine(b, lib) => OffLine(b, lib')
  BY <1>2, OffLineStays
<1>4. \A b \in Blocks : b \in Seq(Header)
  BY BlocksAssumption
<1>5. \A b \in states : b \in Seq(Header)
  BY <1>1 DEF LocalInv, MemoInv, TypeInv, TreeInv, Consistent, Tree
<1>6. ASSUME NEW b \in Blocks, Processed(b) PROVE b \in states' \/ OffLine(b, lib')
  BY <1>2, <1>6 DEF Processed, DropKnown
<1>0. Roots' = Roots
  BY StepPeers
<1>7. \A b \in Blocks : Cause(b, lib, Roots) => Cause(b, lib', Roots')
  BY <1>0, <1>3, <1>4 DEF Cause
<1>8. \A b \in Blocks : Settled(b, states, rejected_blocks, lib)
                          => Settled(b, states', rejected_blocks', lib')
  BY <1>1, <1>2, <1>3, <1>4 DEF Settled
<1>9. ASSUME NEW b \in Blocks, b # Genesis, Begins(b, states, lib, Roots)
      PROVE  Begins(b, states', lib', Roots')
  <2>1. parent(b) \in Seq(Header)
    BY <1>4, <1>9, ParentProperties
  <2> QED BY <1>0, <1>2, <1>3, <1>9, <2>1 DEF Begins
<1> QED BY <1>1, <1>2, <1>3, <1>5, <1>6, <1>7, <1>8, <1>9 DEF Kept

\* The rest of a line stands on its first block, so what is wrong with that block is
\* wrong with all.
LEMMA NotAddedCause ==
  ASSUME SyncInv, phase \in {"checkpoint", "backfill"}, suffix # << >>, NotAdded(Head(suffix))
  PROVE  Cause(Head(suffix), lib, Roots) /\ \A b \in ToSet(suffix) : Cause(b, lib, Roots)
<1> DEFINE h == Head(suffix)
<1>1. /\ h \in Blocks \ {Genesis} /\ h \in Seq(Header) /\ lib \in Seq(Header)
      /\ \A b \in ToSet(suffix) : b \in Seq(Header) /\ Below(h, b)
  <2>1. suffix \in Seq(Blocks \ {Genesis}) /\ Line(suffix) /\ TreeInv
    BY DEF SyncInv, SuffixOK, LocalInv, MemoInv, TypeInv
  <2>2. h \in Blocks \ {Genesis}
    BY <2>1
  <2>3. \A b \in ToSet(suffix) : b \in Blocks /\ Below(h, b)
    BY <2>1, LineProperties
  <2>4. lib \in Seq(Header)
    BY <2>1 DEF TreeInv, Consistent, Tree
  <2> QED BY <2>2, <2>3, <2>4, BlocksAssumption
<1>2. ASSUME Refused(h) PROVE Cause(h, lib, Roots)
  BY <1>1, <1>2, RefusedCause DEF SyncInv
<1>3. ASSUME RaiseParentNotFound(h) PROVE Cause(h, lib, Roots)
  <2>1. OffLine(parent(h), lib) \/ h \in Roots \ {Genesis}
    BY <1>3 DEF RaiseParentNotFound, parent_found, SyncInv, SuffixOK, Begins
  <2>2. parent(h) \in Seq(Header) /\ Below(parent(h), h)
    BY <1>1, ParentProperties
  <2>3. OffLine(parent(h), lib) => OffLine(h, lib)
    BY <1>1, <2>2, OffLineAbove
  <2>4. Below(h, h)
    BY <1>1, BelowReflexive
  <2> QED BY <2>1, <2>3, <2>4 DEF Cause
<1>4. Cause(h, lib, Roots)
  BY <1>2, <1>3 DEF NotAdded
<1>5. \A b \in ToSet(suffix) : Cause(b, lib, Roots)
  <2>1. Roots \subseteq Seq(Header)
    BY HeldBlocks DEF SyncInv
  <2> QED BY <1>1, <1>4, <2>1, CauseAbove
<1> QED BY <1>4, <1>5

LEMMA StepCause ==
  ASSUME SyncInv, [SyncNext]_sync_vars
  PROVE  CauseOK' /\ rejected_blocks' \subseteq Blocks
<1>1. Kept /\ CauseOK /\ LocalInv /\ rejected_blocks \subseteq Blocks
  BY SyncKeeps DEF SyncInv, FetchedOK
<1>2. \A b \in rejected_blocks : Cause(b, lib', Roots')
  BY <1>1 DEF Kept, CauseOK
<1>3. ASSUME NEW b \in stream.pending, FetchBlock(b), b \in rejected_blocks'
      PROVE  b \in Blocks /\ Cause(b, lib', Roots')
  <2>1. b \in Blocks /\ b \in Seq(Header) /\ lib \in Seq(Header) /\ Roots \subseteq Seq(Header)
    BY <1>1, HeldBlocks, BlocksAssumption DEF SyncInv, FetchedOK, Kept
  <2>2. CASE b \in rejected_blocks
    BY <1>2, <2>1, <2>2
  <2>3. CASE b \notin rejected_blocks /\ parent(b) \in rejected_blocks
    <3>1. b # Genesis
      <4> SUFFICES ASSUME b = Genesis PROVE parent(b) = b
        BY <2>3
      <4> QED BY SMT DEF parent, At, Genesis
    <3>2. parent(b) \in Seq(Header) /\ Below(parent(b), b)
      BY <2>1, <3>1, ParentProperties
    <3>3. Cause(b, lib, Roots)
      BY <1>1, <2>1, <2>3, <3>2, CauseAbove DEF CauseOK
    <3> QED BY <1>1, <2>1, <3>3 DEF Kept
  <2>4. CASE Refused(b)
    BY <1>1, <2>1, <2>4, RefusedCause DEF Kept
  <2> QED BY <1>3, <2>2, <2>3, <2>4 DEF FetchBlock
<1>4. CASE \E b \in stream.pending : FetchBlock(b)
  <2>1. PICK b \in stream.pending : FetchBlock(b)
    BY <1>4
  <2>2. rejected_blocks' \subseteq rejected_blocks \cup {b} /\ phase' = "fetch"
    BY <2>1 DEF FetchBlock
  <2> QED BY <1>1, <1>2, <1>3, <2>1, <2>2 DEF CauseOK
<1>5. CASE CancelSync
  <2>1. /\ Cause(Head(suffix), lib, Roots) /\ suffix' = suffix /\ suffix # << >>
        /\ rejected_blocks' = rejected_blocks
    BY <1>5, NotAddedCause DEF CancelSync, backfill_vars
  <2>2. Head(suffix) \in Blocks
    BY <2>1 DEF SyncInv, SuffixOK
  <2> QED BY <1>1, <1>2, <2>1, <2>2 DEF Kept, CauseOK
<1>6. CASE RejectFork
  <2>1. /\ \A b \in ToSet(suffix) : Cause(b, lib, Roots) /\ b \in Blocks
        /\ rejected_blocks' = rejected_blocks \cup ToSet(suffix)
        /\ phase' = "backfill"
    BY <1>6, NotAddedCause, LineProperties DEF RejectFork, invalid_suffix, SyncInv, SuffixOK
  <2> QED BY <1>1, <1>2, <2>1 DEF Kept, CauseOK
<1>7. CASE UNCHANGED << rejected_blocks, suffix, phase >>
  <2>1. phase = "cancelled" => Head(suffix) \in Blocks
    BY <1>1 DEF SyncInv, SuffixOK, CauseOK
  <2> QED BY <1>1, <1>2, <1>7, <2>1 DEF Kept, CauseOK
<1>8. CASE rejected_blocks' = rejected_blocks /\ phase' # "cancelled"
  BY <1>1, <1>2, <1>8 DEF CauseOK
<1>9. CASE PeerFails \/ PeerMoves \/ UNCHANGED sync_vars
  BY <1>7, <1>9 DEF PeerFails, PeerMoves, PeerToOnline, PeerReceives, PeerBecomes, backfill_vars,
                    sync_vars
<1>10. CASE Before \/ CallSync \/ (\E cp \in Checkpoints : CallSyncFrom(cp)) \/ BeginRound
            \/ (\E g \in groups, p \in Peer : ReadGroup(g, p)) \/ EndFetch
            \/ (\E b \in orphans : SkipOrphan(b) \/ BackfillOrphan(b)) \/ EndRound
            \/ (\E p \in unasked : AskPeer(p)) \/ AddToFork \/ EndBackfill
  BY <1>8, <1>10 DEF AskPeer, Before, CallSync, CallSyncFrom, BeginRound, ReadGroup, EndFetch, SkipOrphan,
               BackfillOrphan, EndRound, AddToFork, EndBackfill
<1> QED BY <1>4, <1>5, <1>6, <1>9, <1>10 DEF SyncNext, SyncStep, PeerMoves

LEMMA StepFetched ==
  ASSUME SyncInv, [SyncNext]_sync_vars
  PROVE  FetchedOK'
<1> DEFINE T == Held'
<1>1. /\ FetchedOK /\ PeersOK /\ rejected_blocks' \subseteq Blocks /\ \A b \in Held : b \in T
  BY StepCause, StepPeers DEF SyncInv
<1>2. stream.pending \subseteq T /\ orphans \subseteq T
  BY <1>1 DEF FetchedOK
<1> HIDE DEF T
<1>3. SUFFICES /\ DOMAIN stream' = {"rest", "pending", "slot"}
               /\ stream'.rest \subseteq Peer /\ groups' \subseteq SUBSET Peer
               /\ stream'.pending \subseteq T /\ orphans' \subseteq T
               /\ phase' = "fetch" /\ num_blocks' = 0 => orphans' = {}
  BY <1>1 DEF FetchedOK, T
<1>4. ASSUME NEW p \in Peer, NEW others, others \subseteq Peer, NEW from, ReadPeer(p, others, from)
      PROVE  /\ DOMAIN stream' = {"rest", "pending", "slot"}
             /\ stream'.rest \subseteq Peer /\ stream'.pending \subseteq T
  <2>1. stream' = [rest |-> others \ {p}, pending |-> blocks_by_slot(p, from), slot |-> from]
    BY <1>4 DEF ReadPeer
  <2>2. blocks_by_slot(p, from) \subseteq Held
    BY DEF blocks_by_slot, Held
  <2> QED BY <1>1, <1>4, <2>1, <2>2
<1>5. ASSUME NEW g \in groups, NEW p \in Peer, ReadGroup(g, p)
      PROVE  <1>3!1
  <2>1. g \subseteq Peer /\ ReadPeer(p, g, start_slot)
    BY <1>1, <1>5 DEF ReadGroup, FetchedOK
  <2> QED BY <1>1, <1>2, <1>4, <1>5, <2>1 DEF ReadGroup, FetchedOK
<1>6. CASE PeerFails
  <2>1. CASE stream.rest = {}
    <3>1. stream' = [stream EXCEPT !.pending = {}]
      BY <1>6, <2>1 DEF PeerFails
    <3>2. /\ DOMAIN stream' = {"rest", "pending", "slot"}
          /\ stream'.rest \subseteq Peer /\ stream'.pending \subseteq T
      BY <1>1, <3>1 DEF FetchedOK
    <3> QED BY <1>1, <1>2, <1>6, <3>2 DEF PeerFails, FetchedOK
  <2>2. CASE stream.rest # {}
    <3>1. PICK p \in stream.rest : ReadPeer(p, stream.rest, stream.slot)
      BY <1>6, <2>2 DEF PeerFails
    <3>2. p \in Peer /\ stream.rest \subseteq Peer
      BY <1>1 DEF FetchedOK
    <3> QED BY <1>1, <1>2, <1>4, <1>6, <3>1, <3>2 DEF PeerFails, FetchedOK
  <2> QED BY <2>1, <2>2
<1>7. ASSUME NEW b \in stream.pending, FetchBlock(b)
      PROVE  <1>3!1
  <2>1. stream' = [stream EXCEPT !.pending = @ \ {b}, !.slot = slot(b)]
        /\ num_blocks' = 1 /\ groups' = groups /\ orphans' \subseteq orphans \cup {b}
    BY <1>7 DEF FetchBlock
  <2>2. /\ DOMAIN stream' = {"rest", "pending", "slot"}
        /\ stream'.rest \subseteq Peer /\ stream'.pending \subseteq T
    BY <1>1, <1>2, <2>1 DEF FetchedOK
  <2> QED BY <1>1, <1>2, <2>1, <2>2 DEF FetchedOK
<1>8. CASE BeginRound
  <2>1. groups' \subseteq SUBSET Peer
    BY <1>8 DEF BeginRound, filter_and_group_peers_by_tip
  <2> QED BY <1>1, <1>2, <1>8, <2>1 DEF BeginRound, FetchedOK
<1>9. CASE Before \/ CallSync \/ (\E cp \in Checkpoints : CallSyncFrom(cp)) \/ EndFetch
           \/ EndRound \/ EndBackfill \/ (\E b \in orphans : SkipOrphan(b) \/ BackfillOrphan(b))
  <2>1. UNCHANGED << stream, groups >> /\ orphans' \subseteq orphans /\ phase' # "fetch"
    BY <1>9 DEF Before, CallSync, CallSyncFrom, EndFetch, EndRound, EndBackfill, SkipOrphan,
                BackfillOrphan, round_vars
  <2> QED BY <1>1, <1>2, <2>1 DEF FetchedOK
<1>10. CASE AddToFork \/ CancelSync \/ RejectFork \/ (\E p \in unasked : AskPeer(p))
            \/ PeerMoves \/ UNCHANGED sync_vars
  <2>1. UNCHANGED << stream, groups, orphans, num_blocks >> /\ (phase' = "fetch" => phase = "fetch")
    BY <1>10 DEF AddToFork, CancelSync, RejectFork, AskPeer, PeerMoves, PeerToOnline,
                 PeerReceives, PeerBecomes, round_vars, sync_vars
  <2> QED BY <1>1, <1>2, <2>1 DEF FetchedOK
<1> QED BY <1>5, <1>6, <1>7, <1>8, <1>9, <1>10 DEF SyncNext, SyncStep, PeerMoves

LEMMA StepSuffix ==
  ASSUME SyncInv, [SyncNext]_sync_vars
  PROVE  SuffixOK'
<1>1. Kept /\ SuffixOK /\ FetchedOK /\ PeersOK /\ LocalInv
  BY SyncKeeps DEF SyncInv
<1>2. /\ pruned \subseteq pruned'
      /\ \A p \in Peer : \A b \in peers[p].stored : b \in peers'[p].stored \/ b \in pruned'
  BY StepPeers
<1>3. Genesis \in states /\ Roots \subseteq Seq(Header) /\ \A b \in Blocks : b \in Seq(Header)
  BY <1>1, HeldBlocks DEF LocalInv, MemoInv, TypeInv, TreeInv, Consistent, Tree
<1>4. CASE /\ UNCHANGED backfill_vars
           /\ phase' \in {"checkpoint", "backfill"} => phase' = phase
  <2>1. UNCHANGED << suffix, fork_tip, unasked >>
    BY <1>4 DEF backfill_vars
  <2>2. suffix' \in Seq(Blocks \ {Genesis}) /\ Line(suffix)' /\ unasked' \subseteq Peer
    BY <1>1, <2>1 DEF SuffixOK, Line
  <2>3. suffix # << >> => Head(suffix) \in Blocks \ {Genesis}
    BY <1>1 DEF SuffixOK
  <2>4. phase' \in {"checkpoint", "backfill"} =>
          /\ fork_tip' \in Blocks
          /\ suffix' # << >> => /\ Begins(Head(suffix'), states', lib', Roots')
                                /\ suffix'[Len(suffix')] = fork_tip'
    BY <1>1, <1>4, <2>1, <2>3 DEF SuffixOK, Kept
  <2>5. phase' = "backfill" /\ suffix' = << >> =>
          \/ Settled(fork_tip', states', rejected_blocks', lib')
          \/ fork_tip' \in pruned'
          \/ \E p \in unasked' : fork_tip' \in peers'[p].stored
    BY <1>1, <1>2, <1>4, <2>1 DEF SuffixOK, Kept
  <2> QED BY <2>2, <2>4, <2>5 DEF SuffixOK, Begins
<1>5. ASSUME NEW b \in Blocks, Backfill(b), UNCHANGED << local_vars, peers, pruned >>,
             \/ phase' = "checkpoint"
             \/ phase' = "backfill" /\ b \in Held /\ b \notin states
      PROVE  SuffixOK'
  <2>1. fork_tip' = b /\ suffix' = << >> /\ unasked' \subseteq Peer
        /\ (b \notin states => unasked' = Peer)
    BY <1>5 DEF Backfill
  <2>2. suffix' \in Seq(Blocks \ {Genesis}) /\ Line(suffix)'
    BY <2>1 DEF Line
  <2>3. phase' = "backfill" => b \in pruned' \/ \E p \in unasked' : b \in peers'[p].stored
    BY <1>5, <2>1 DEF Held
  <2> QED BY <2>1, <2>2, <2>3 DEF SuffixOK
<1>6. ASSUME NEW cp \in Checkpoints, CallSyncFrom(cp) PROVE SuffixOK'
  BY <1>5, <1>6, CheckpointsAssumption DEF CallSyncFrom
<1>7. ASSUME NEW b \in orphans, BackfillOrphan(b) PROVE SuffixOK'
  <2>1. b \in Held /\ b \in Blocks
    BY <1>1, HeldBlocks DEF FetchedOK
  <2> QED BY <1>5, <1>7, <2>1 DEF BackfillOrphan
<1>8. ASSUME NEW p \in unasked, AskPeer(p) PROVE SuffixOK'
  <2> DEFINE list == missing_part(p, wanted)
  <2>1. /\ phase \in {"checkpoint", "backfill"} /\ phase' = phase
        /\ suffix' = list \o suffix /\ fork_tip' = fork_tip
        /\ unasked' = IF wanted' \in states THEN {} ELSE unasked \ {p}
        /\ UNCHANGED << local_vars, peers, rejected_blocks, pruned >>
    BY <1>8 DEF AskPeer
  <2>2. states' = states /\ lib' = lib /\ Roots' = Roots
    BY <2>1 DEF local_vars, vars, states, Roots
  <2>3. p \in Peer /\ PeerOK(peers[p]) /\ unasked' \subseteq Peer
    BY <1>1, <2>1 DEF SuffixOK, PeersOK
  <2>4. /\ suffix \in Seq(Blocks \ {Genesis}) /\ Line(suffix) /\ fork_tip \in Blocks
        /\ suffix # << >> => /\ Begins(Head(suffix), states, lib, Roots)
                             /\ suffix[Len(suffix)] = fork_tip
    BY <1>1, <2>1 DEF SuffixOK
  <2>5. wanted \in Seq(Header)
    <3>1. CASE suffix = << >>
      BY <1>3, <2>4, <3>1 DEF wanted
    <3>2. CASE suffix # << >>
      <4>1. Head(suffix) \in Blocks \ {Genesis}
        BY <2>4, <3>2
      <4>2. parent(Head(suffix)) \in Seq(Header)
        BY <1>3, <4>1, ParentProperties
      <4> QED BY <3>2, <4>2 DEF wanted
    <3> QED BY <3>1, <3>2
  <2>6. /\ list \in Seq(Blocks \ {Genesis}) /\ Line(list)
        /\ list # << >> => /\ parent(Head(list)) \in states \/ Head(list) = peers[p].root
                           /\ list[Len(list)] = wanted
        /\ wanted \in peers[p].stored /\ wanted \notin states => list # << >>
    BY <1>3, <2>3, <2>5, MissingPart
  <2> HIDE DEF list
  <2>7. CASE list = << >>
    <3>1. suffix' = suffix /\ wanted' = wanted
      BY <2>1, <2>4, <2>7 DEF wanted
    <3>2. ASSUME phase = "backfill", suffix = << >>,
                 ~ Settled(fork_tip, states, rejected_blocks, lib), fork_tip \notin pruned
          PROVE  \E q \in unasked' : fork_tip \in peers[q].stored
      <4>1. PICK q \in unasked : fork_tip \in peers[q].stored
        BY <1>1, <3>2 DEF SuffixOK
      <4>2. wanted = fork_tip /\ fork_tip \notin states
        BY <3>2 DEF wanted, Settled
      <4>3. q # p /\ unasked' = unasked \ {p}
        BY <2>1, <2>6, <2>7, <3>1, <4>1, <4>2
      <4> QED BY <4>1, <4>3
    <3>3. Line(suffix)' /\ suffix' \in Seq(Blocks \ {Genesis})
      BY <2>4, <3>1 DEF Line
    <3>4. suffix' # << >> => /\ Begins(Head(suffix'), states', lib', Roots')
                             /\ suffix'[Len(suffix')] = fork_tip'
      BY <2>1, <2>2, <2>4, <3>1
    <3>5. phase' = "backfill" /\ suffix' = << >> =>
            \/ Settled(fork_tip', states', rejected_blocks', lib')
            \/ fork_tip' \in pruned'
            \/ \E q \in unasked' : fork_tip' \in peers'[q].stored
      BY <2>1, <2>2, <3>1, <3>2
    <3> QED BY <2>1, <2>3, <2>4, <3>3, <3>4, <3>5 DEF SuffixOK, Begins
  <2>8. CASE list # << >>
    <3>1. Head(list) \in Blocks \ {Genesis}
      BY <2>6, <2>8
    <3>2. Begins(Head(list), states', lib', Roots')
      BY <2>2, <2>3, <2>6, <2>8, <3>1 DEF Begins, Roots
    <3>3. /\ Line(suffix') /\ suffix' \in Seq(Blocks \ {Genesis}) /\ suffix' # << >>
          /\ Head(suffix') = Head(list) /\ suffix'[Len(suffix')] = fork_tip
      <4>1. CASE suffix = << >>
        <5>1. suffix' = list
          BY <2>1, <2>6, <4>1
        <5> QED BY <2>6, <2>8, <4>1, <5>1 DEF wanted
      <4>2. CASE suffix # << >>
        <5>1. list[Len(list)] = parent(Head(suffix))
          BY <2>6, <2>8, <4>2 DEF wanted
        <5> QED BY <2>1, <2>4, <2>6, <2>8, <4>2, <5>1, LinesJoin
      <4> QED BY <4>1, <4>2
    <3>4. Line(suffix)'
      BY <3>3 DEF Line
    <3> QED BY <2>1, <2>3, <2>4, <3>2, <3>3, <3>4 DEF SuffixOK, Begins
  <2> QED BY <2>7, <2>8
<1>9. CASE AddToFork
  <2> DEFINE h == Head(suffix)
             t == Tail(suffix)
  <2>1. /\ suffix # << >> /\ Processed(h) /\ suffix' = t /\ phase' = phase /\ fork_tip' = fork_tip
        /\ unasked' = unasked /\ phase \in {"checkpoint", "backfill"}
    BY <1>9 DEF AddToFork
  <2>2. /\ suffix \in Seq(Blocks \ {Genesis}) /\ Line(suffix) /\ unasked \subseteq Peer
        /\ fork_tip \in Blocks /\ suffix[Len(suffix)] = fork_tip
    BY <1>1, <2>1 DEF SuffixOK
  <2>3. /\ h \in Blocks
        /\ t \in Seq(Blocks \ {Genesis}) /\ Line(t)
        /\ t # << >> => parent(Head(t)) = h /\ t[Len(t)] = suffix[Len(suffix)]
        /\ t = << >> => h = suffix[Len(suffix)]
    BY <2>1, <2>2, LineProperties
  <2> HIDE DEF h, t
  <2>4. h \in states' \/ OffLine(h, lib')
    BY <1>1, <2>1, <2>3 DEF Kept
  <2>5. Line(suffix)' /\ suffix' \in Seq(Blocks \ {Genesis})
    BY <2>1, <2>3 DEF Line
  <2>6. suffix' # << >> => Begins(Head(suffix'), states', lib', Roots')
    BY <2>1, <2>3, <2>4 DEF Begins
  <2>7. suffix' = << >> => Settled(fork_tip', states', rejected_blocks', lib')
    BY <2>1, <2>2, <2>3, <2>4 DEF Settled
  <2> QED BY <2>1, <2>2, <2>3, <2>5, <2>6, <2>7 DEF SuffixOK, Begins
<1>10. CASE RejectFork
  <2>1. /\ phase = "backfill" /\ suffix # << >> /\ suffix' = << >> /\ fork_tip' = fork_tip
        /\ rejected_blocks' = rejected_blocks \cup ToSet(suffix) /\ unasked' = unasked
    BY <1>10 DEF RejectFork, invalid_suffix
  <2>2. /\ fork_tip \in Blocks /\ fork_tip = suffix[Len(suffix)] /\ unasked \subseteq Peer
        /\ suffix \in Seq(Blocks \ {Genesis})
    BY <1>1, <2>1 DEF SuffixOK
  <2>3. Len(suffix) \in 1 .. Len(suffix)
    BY <2>1, <2>2
  <2>4. fork_tip \in ToSet(suffix)
    BY <2>2, <2>3 DEF ToSet
  <2>5. Line(suffix)' /\ suffix' \in Seq(Blocks \ {Genesis})
    BY <2>1 DEF Line
  <2> QED BY <2>1, <2>2, <2>4, <2>5 DEF SuffixOK, Settled
<1>11. CASE Before \/ CallSync \/ BeginRound \/ (\E g \in groups, p \in Peer : ReadGroup(g, p))
            \/ PeerFails \/ EndFetch \/ UNCHANGED sync_vars
  BY <1>4, <1>11 DEF Before, CallSync, BeginRound, ReadGroup, PeerFails, EndFetch, sync_vars
<1>12. CASE (\E b \in orphans : SkipOrphan(b)) \/ EndRound \/ CancelSync \/ PeerMoves
  BY <1>4, <1>12 DEF SkipOrphan, EndRound, CancelSync, PeerMoves, PeerToOnline, PeerReceives,
                     PeerBecomes
<1>13. CASE EndBackfill
  BY <1>4, <1>13 DEF EndBackfill
<1>14. ASSUME NEW b \in stream.pending, FetchBlock(b) PROVE SuffixOK'
  <2>1. UNCHANGED backfill_vars /\ phase' = phase
    BY <1>14 DEF FetchBlock
  <2> QED BY <1>4, <2>1
<1> QED BY <1>6, <1>7, <1>8, <1>9, <1>10, <1>11, <1>12, <1>13, <1>14 DEF SyncNext, SyncStep, PeerMoves

\* Why a fetched block is no longer on one of the round's lists.
LEMMA StepOrphans ==
  ASSUME SyncInv, [SyncNext]_sync_vars, NEW b \in Blocks
  PROVE  /\ b \in orphans \ orphans' => Settled(b, states', rejected_blocks', lib') \/ b \in pruned
         /\ ~ PeerFails /\ phase = "fetch" /\ b \in stream.pending
              => \/ phase' = "fetch" /\ b \in stream'.pending
                 \/ b \in orphans'
                 \/ Settled(b, states', rejected_blocks', lib')
<1>1. Kept /\ SuffixOK /\ FetchedOK /\ ServedOK
  BY SyncKeeps DEF SyncInv
<1>2. ASSUME NEW c \in stream.pending, FetchBlock(c)
      PROVE  /\ b \in orphans \ orphans' => Settled(b, states', rejected_blocks', lib')
             /\ b \in stream.pending => \/ phase' = "fetch" /\ b \in stream'.pending
                                        \/ b \in orphans'
                                        \/ Settled(b, states', rejected_blocks', lib')
  <2>1. phase' = "fetch" /\ stream' = [stream EXCEPT !.pending = @ \ {c}, !.slot = slot(c)]
    BY <1>2 DEF FetchBlock
  <2>2. stream'.pending = stream.pending \ {c}
    BY <1>1, <2>1 DEF FetchedOK
  <2>3. \/ orphans' = orphans /\ c \in rejected_blocks'
        \/ orphans' = orphans \ {c} /\ Processed(c)
        \/ orphans' = orphans \cup {c}
    BY <1>2 DEF FetchBlock
  <2>4. b = c /\ Processed(c) => Settled(b, states', rejected_blocks', lib')
    BY <1>1 DEF Kept, Settled
  <2> QED BY <2>1, <2>2, <2>3, <2>4 DEF Settled
<1>3. ASSUME NEW c \in orphans, SkipOrphan(c)
      PROVE  /\ b \in orphans \ orphans' => Settled(b, states', rejected_blocks', lib')
             /\ phase # "fetch"
  <2>1. c \in states \cup rejected_blocks /\ orphans' = orphans \ {c} /\ phase = "orphans"
    BY <1>3 DEF SkipOrphan
  <2> QED BY <1>1, <2>1 DEF Kept, Settled
<1>4. ASSUME EndBackfill
      PROVE  /\ b \in orphans \ orphans' => Settled(b, states', rejected_blocks', lib') \/ b \in pruned
             /\ phase # "fetch"
  <2>1. CASE phase = "checkpoint"
    BY <1>4, <2>1 DEF EndBackfill
  <2>2. CASE phase = "backfill"
    <3>1. suffix = << >> /\ unasked = {} /\ orphans' = orphans \ {fork_tip}
      BY <1>4, <2>2 DEF EndBackfill
    <3>2. Settled(fork_tip, states, rejected_blocks, lib) \/ fork_tip \in pruned
      BY <1>1, <2>2, <3>1 DEF SuffixOK
    <3> QED BY <1>1, <2>2, <3>1, <3>2 DEF Kept
  <2> QED BY <1>4, <2>1, <2>2 DEF EndBackfill
<1>5. ASSUME BeginRound PROVE orphans = {} /\ phase # "fetch"
  BY <1>1, <1>5 DEF BeginRound, ServedOK
<1>6. ASSUME NEW g \in groups, NEW p \in Peer, ReadGroup(g, p)
      PROVE  orphans' = orphans /\ stream.pending = {}
  BY <1>6 DEF ReadGroup
<1>7. ASSUME EndFetch PROVE orphans' = orphans /\ stream.pending = {}
  BY <1>7 DEF EndFetch
<1>8. ASSUME PeerFails PROVE orphans' = orphans
  BY <1>8 DEF PeerFails
<1>9. ASSUME \/ Before \/ CallSync \/ (\E cp \in Checkpoints : CallSyncFrom(cp))
             \/ (\E c \in orphans : BackfillOrphan(c)) \/ EndRound
             \/ (\E p \in unasked : AskPeer(p)) \/ AddToFork \/ CancelSync \/ RejectFork
      PROVE  orphans' = orphans /\ phase # "fetch"
  BY <1>9 DEF Before, CallSync, CallSyncFrom, BackfillOrphan, EndRound, AskPeer, AddToFork,
              CancelSync, RejectFork
<1>10. ASSUME PeerMoves \/ UNCHANGED sync_vars
       PROVE  UNCHANGED << orphans, phase, stream >>
  BY <1>10 DEF PeerMoves, PeerToOnline, PeerReceives, PeerBecomes, sync_vars, round_vars
<1> QED BY <1>2, <1>3, <1>4, <1>5, <1>6, <1>7, <1>8, <1>9, <1>10 DEF SyncNext, SyncStep, PeerMoves

LEMMA HandledStays ==
  ASSUME SyncInv, [SyncNext]_sync_vars, ~ PeerFails, pruned = {}, NEW b \in Blocks, Handled(b)
  PROVE  Handled(b)'
<1>1. Settled(b, states, rejected_blocks, lib) => Settled(b, states', rejected_blocks', lib')
  BY SyncKeeps DEF Kept
<1>2. Settled(b, states, rejected_blocks, lib)' <=> Settled(b, states', rejected_blocks', lib')
  BY DEF Settled, OffLine, Below, states
<1> QED BY <1>1, <1>2, StepOrphans DEF Handled

LEMMA ServedStays ==
  ASSUME SyncInv, [SyncNext]_sync_vars, ~ PeerFails, UNCHANGED << peers, origin >>,
         pruned = {}, NEW p \in Peer, Served(p)
  PROVE  Served(p)'
<1>1. PICK q \in GroupOf(p) : \A b \in peers[q].stored : slot(b) < origin \/ Handled(b)
  BY DEF Served
<1>2. q \in Peer /\ q \in GroupOf(p)'
  BY DEF GroupOf, tip
<1>3. \A b \in peers[q].stored : b \in Blocks
  BY <1>2 DEF SyncInv, PeersOK, PeerOK, Rooted
<1>4. \A b \in peers'[q].stored : slot(b) < origin' \/ Handled(b)'
  BY <1>1, <1>3, HandledStays
<1> QED BY <1>2, <1>4 DEF Served

\* How far the round is.
Announced == phase \in {"before", "checkpoint", "round", "done"} => orphans = {}
Begun ==
  /\ origin = Unset => phase \in {"before", "checkpoint", "round", "cancelled"}
  /\ phase = "before" => origin = Unset
  /\ origin \in Nat \cup {Unset, Moved}
  /\ pruned # {} => origin = Moved
  /\ phase # "fetch" => stream.pending = {}
ReadOrToRead ==
  origin \notin {Unset, Moved} => \A p \in Peer : ahead(p, origin) =>
    \/ Served(p)
    \/ phase = "fetch" /\ start_slot = origin /\ GroupOf(p) \in groups

LEMMA StepBegun ==
  ASSUME SyncInv, [SyncNext]_sync_vars
  PROVE  Announced' /\ Begun'
<1>1. /\ Announced /\ Begun
      /\ phase = "fetch" /\ num_blocks = 0 => orphans = {}
      /\ DOMAIN stream = {"rest", "pending", "slot"}
  BY DEF SyncInv, ServedOK, FetchedOK, Announced, Begun
<1> USE DEF Announced, Begun, round_vars
<1>2. CASE BeginRound
  <2>1. local_chain \in Blocks
    BY DEF SyncInv, LocalInv, MemoInv, TypeInv, TreeInv, Consistent
  <2>2. slot(local_chain) \in Nat /\ slot(local_chain) # Unset
    BY <2>1, SlotOfBlock DEF Unset
  <2>3. Moved # Unset
    BY DEF Moved, Unset
  <2> QED BY <1>1, <1>2, <2>2, <2>3 DEF BeginRound
<1>3. CASE PeerFails
  BY <1>1, <1>3 DEF PeerFails, Moved, Unset
<1>4. CASE PeerMoves
  BY <1>1, <1>4 DEF PeerMoves, PeerToOnline, PeerReceives, PeerBecomes, Moved, Unset
<1>5. ASSUME NEW b \in stream.pending, FetchBlock(b) PROVE Announced' /\ Begun'
  <2>1. phase' = "fetch" /\ origin' = origin /\ pruned' = pruned /\ phase = "fetch"
    BY <1>5 DEF FetchBlock
  <2> QED BY <1>1, <2>1
<1>6. CASE \E g \in groups, p \in Peer : ReadGroup(g, p)
  BY <1>1, <1>6 DEF ReadGroup
<1>7. CASE EndFetch \/ EndRound \/ EndBackfill
  BY <1>1, <1>7 DEF EndFetch, EndRound, EndBackfill
<1>8. CASE Before \/ CallSync \/ (\E cp \in Checkpoints : CallSyncFrom(cp))
  BY <1>1, <1>8 DEF Before, CallSync, CallSyncFrom
<1>9. CASE \E b \in orphans : SkipOrphan(b) \/ BackfillOrphan(b)
  BY <1>1, <1>9 DEF SkipOrphan, BackfillOrphan
<1>10. CASE (\E p \in unasked : AskPeer(p)) \/ AddToFork \/ CancelSync \/ RejectFork
  BY <1>1, <1>10 DEF AskPeer, AddToFork, CancelSync, RejectFork
<1>11. CASE UNCHANGED sync_vars
  BY <1>1, <1>11 DEF sync_vars
<1> QED BY <1>2, <1>3, <1>4, <1>5, <1>6, <1>7, <1>8, <1>9, <1>10, <1>11 DEF SyncNext, SyncStep, PeerMoves

LEMMA StepReads ==
  ASSUME SyncInv, [SyncNext]_sync_vars
  PROVE  ReadOrToRead'
<1>1. Announced /\ Begun /\ ReadOrToRead /\ PeersOK /\ FetchedOK
  BY DEF SyncInv, ServedOK, Announced, Begun, ReadOrToRead
<1>2. SUFFICES ASSUME origin' \notin {Unset, Moved}, NEW p \in Peer, ahead(p, origin)'
               PROVE  Served(p)' \/ (phase' = "fetch" /\ start_slot' = origin' /\ GroupOf(p)' \in groups')
  BY DEF ReadOrToRead
<1>3. ~ PeerFails
  BY <1>2 DEF PeerFails
<1>4. ~ PeerMoves
  BY <1>2 DEF PeerMoves, PeerToOnline, PeerReceives, PeerBecomes
<1>5. ASSUME UNCHANGED << peers, origin >>
      PROVE  \/ Served(p)'
             \/ phase = "fetch" /\ start_slot = origin /\ GroupOf(p) \in groups
  <2>1. ahead(p, origin) /\ pruned = {}
    BY <1>1, <1>2, <1>5 DEF ahead, tip, Begun
  <2> QED BY <1>1, <1>2, <1>3, <1>5, <2>1, ServedStays DEF ReadOrToRead
<1>6. UNCHANGED peers => GroupOf(p)' = GroupOf(p)
  BY DEF GroupOf, tip
<1>7. CASE BeginRound
  <2>1. UNCHANGED peers /\ phase = "round" /\ phase' = "fetch" /\ start_slot' = slot(local_chain)
        /\ groups' = filter_and_group_peers_by_tip(slot(local_chain))
        /\ origin' = IF origin = Unset THEN slot(local_chain) ELSE origin
    BY <1>7 DEF BeginRound
  <2>2. CASE origin = Unset
    <3>1. ahead(p, slot(local_chain))
      BY <1>2, <2>1, <2>2 DEF ahead, tip
    <3>2. GroupOf(p) \in groups'
      BY <2>1, <3>1 DEF filter_and_group_peers_by_tip, GroupOf
    <3> QED BY <1>6, <2>1, <2>2, <3>2
  <2>3. CASE origin # Unset
    BY <1>5, <2>1, <2>3
  <2> QED BY <2>2, <2>3
<1>8. ASSUME NEW g \in groups, NEW q \in Peer, ReadGroup(g, q)
      PROVE  Served(p)' \/ (phase' = "fetch" /\ start_slot' = origin' /\ GroupOf(p)' \in groups')
  <2>1. /\ UNCHANGED << peers, origin, phase, start_slot >> /\ q \in g /\ groups' = groups \ {g}
        /\ stream' = [rest |-> g \ {q}, pending |-> blocks_by_slot(q, start_slot),
                      slot |-> start_slot]
    BY <1>8 DEF ReadGroup, ReadPeer
  <2>2. CASE phase = "fetch" /\ start_slot = origin /\ GroupOf(p) = g
    <3>1. q \in GroupOf(p)'
      BY <1>6, <2>1, <2>2
    <3>2. ASSUME NEW b \in peers'[q].stored PROVE slot(b) < origin' \/ Handled(b)'
      <4>1. b \in Blocks /\ b \in peers[q].stored
        BY <1>1, <2>1, <3>2 DEF PeersOK, PeerOK, Rooted
      <4>2. slot(b) \in Nat /\ origin \in Nat
        <5>1. slot(b) \in Nat
          BY <4>1, SlotOfBlock
        <5>2. origin \in Nat
          BY <1>1, <1>2, <2>1 DEF Begun
        <5> QED BY <5>1, <5>2
      <4>3. slot(b) < origin \/ b \in stream'.pending
        BY <2>1, <2>2, <4>1, <4>2 DEF blocks_by_slot
      <4> QED BY <2>1, <2>2, <4>3 DEF Handled
    <3> QED BY <3>1, <3>2 DEF Served
  <2> QED BY <1>5, <1>6, <2>1, <2>2
<1>9. ASSUME NEW b \in stream.pending, FetchBlock(b)
      PROVE  Served(p)' \/ (phase' = "fetch" /\ start_slot' = origin' /\ GroupOf(p)' \in groups')
  <2>1. UNCHANGED << peers, origin, phase, start_slot, groups >>
    BY <1>9 DEF FetchBlock
  <2> QED BY <1>5, <1>6, <2>1
<1>10. CASE EndFetch
  <2>1. UNCHANGED << peers, origin >> /\ groups = {}
    BY <1>10 DEF EndFetch
  <2> QED BY <1>5, <2>1
<1>11. ASSUME Before \/ CallSync \/ (\E cp \in Checkpoints : CallSyncFrom(cp)) \/ EndRound
              \/ EndBackfill \/ (\E b \in orphans : SkipOrphan(b) \/ BackfillOrphan(b))
       PROVE  UNCHANGED << peers, origin >> /\ phase # "fetch"
  BY <1>11 DEF Before, CallSync, CallSyncFrom, EndRound, EndBackfill, SkipOrphan, BackfillOrphan
<1>12. ASSUME (\E q \in unasked : AskPeer(q)) \/ AddToFork \/ CancelSync \/ RejectFork
       PROVE  UNCHANGED << peers, origin >> /\ phase # "fetch"
  BY <1>12 DEF AskPeer, AddToFork, CancelSync, RejectFork
<1>13. CASE UNCHANGED sync_vars
  <2>1. UNCHANGED << peers, origin, phase, start_slot, groups >>
    BY <1>13 DEF sync_vars, round_vars
  <2> QED BY <1>5, <1>6, <2>1
<1> QED BY <1>3, <1>4, <1>5, <1>7, <1>8, <1>9, <1>10, <1>11, <1>12, <1>13 DEF SyncNext, SyncStep, PeerMoves

LEMMA StepSync == SyncInv /\ [SyncNext]_sync_vars => SyncInv'
<1> SUFFICES ASSUME SyncInv, [SyncNext]_sync_vars PROVE SyncInv'
  OBVIOUS
<1>1. LocalInv' /\ PeersOK' /\ FetchedOK' /\ CauseOK' /\ SuffixOK'
  BY SyncKeeps, StepPeers, StepFetched, StepCause, StepSuffix
<1>2. ServedOK'
  BY StepBegun, StepReads DEF ServedOK, Announced, Begun, ReadOrToRead
<1> QED BY <1>1, <1>2 DEF SyncInv

LEMMA InitSync == SyncInit => SyncInv
<1> SUFFICES ASSUME SyncInit PROVE SyncInv
  OBVIOUS
<1>1. Init /\ peers \in PeerStarts /\ phase = "before" /\ groups = {}
      /\ stream = [rest |-> {}, pending |-> {}, slot |-> 0]
      /\ orphans = {} /\ suffix = << >> /\ unasked = {} /\ rejected_blocks = {}
      /\ origin = Unset /\ pruned = {}
  BY DEF SyncInit
<1>2. MemoInv /\ BootInv
  BY <1>1, InitMemo, InitTree
<1>3. GenesisNotesStay
  BY <1>1 DEF Init, GenesisNotesStay, states
<1>4. PeersOK
  <2>1. DOMAIN peers = Peer /\ pruned = {}
    BY <1>1, StartsAssumption
  <2>2. ASSUME NEW p \in Peer PROVE PeerOK(peers[p])
    <3> DEFINE peer == peers[p]
    <3>1. /\ DOMAIN peer = {"tip", "forks", "stored", "root", "state"}
          /\ peer.root \in peer.stored /\ peer.tip \in peer.stored /\ peer.stored \subseteq Blocks
          /\ peer.forks \in Seq(peer.stored \ {peer.tip}) /\ IsInjective(peer.forks)
          /\ \A b \in peer.stored \ {peer.root} :
               IsPrefix(peer.root, b) /\ parent(b) \in peer.stored
      BY <1>1, StartsAssumption
    <3> HIDE DEF peer
    <3>2. peer.root \in Seq(Header)
      BY <3>1, BlocksAssumption
    <3>3. Rooted(peer.stored, peer.root)
      BY <3>1, <3>2, PrefixIsBelow DEF Rooted
    <3>4. peer.forks \in Seq(peer.stored) /\ peer.tip \notin Range(peer.forks)
      BY <3>1, RangeEquality
    <3>5. NoRepeats(peer.forks)
      <4>1. DOMAIN peer.forks = 1 .. Len(peer.forks)
        BY <3>1
      <4> QED BY <3>1, <4>1 DEF NoRepeats, IsInjective
    <3> QED BY <3>1, <3>3, <3>4, <3>5 DEF PeerOK, peer
  <2> QED BY <2>1, <2>2 DEF PeersOK
<1>5. FetchedOK /\ CauseOK
  BY <1>1 DEF FetchedOK, CauseOK
<1>6. SuffixOK
  BY <1>1 DEF SuffixOK, Line
<1>7. ServedOK
  BY <1>1 DEF ServedOK
<1> QED BY <1>2, <1>3, <1>4, <1>5, <1>6, <1>7 DEF SyncInv, LocalInv

LEMMA SyncAlways == SyncSpec => []SyncInv
BY InitSync, StepSync, PTL DEF SyncSpec

---------------------------------------------------------------------------
LEMMA OffLineIsNoPrefix ==
  ASSUME NEW b, NEW root \in Seq(Header), OffLine(b, root)
  PROVE  ~ IsPrefix(root, b)
BY PrefixIsBelow DEF OffLine

(***************************************************************************)
(* Peers are Followers that were made from any ledger states: they may     *)
(* lack the chain below, fail, receive blocks and prune, and be asked in   *)
(* any order.  sync() refuses a block for ever, or is cancelled at one,    *)
(* only when the block's chain holds a bad proof or leaves local's chain   *)
(* below the lib, or the block stands on one that a peer was made from     *)
(* and holds nothing below: with peers made from genesis only bad blocks   *)
(* are refused (rejected_blocks, backfill_fork, fetch_chain_backward).     *)
(***************************************************************************)
THEOREM RefusalsHaveCauseAlways == SyncSpec => []RefusalsHaveCause
<1>1. SyncInv => RefusalsHaveCause
  <2> SUFFICES ASSUME SyncInv PROVE RefusalsHaveCause
    OBVIOUS
  <2>1. lib \in Seq(Header) /\ Roots \subseteq Seq(Header)
    BY HeldBlocks DEF SyncInv, LocalInv, MemoInv, TypeInv, TreeInv, Consistent, Tree
  <2>2. ASSUME NEW b, Cause(b, lib, Roots) PROVE refusable(b)
    <3>1. OffLine(b, lib) => ~ IsPrefix(lib, b)
      BY <2>1, OffLineIsNoPrefix
    <3>2. ASSUME NEW base \in Roots \ {Genesis}, Below(base, b) PROVE on_partial_chain(b)
      <4>1. PICK p \in Peer : base = peers[p].root
        BY DEF Roots
      <4>2. IsPrefix(base, b)
        BY <2>1, <3>2, BelowIsPrefix
      <4> QED BY <4>1, <4>2 DEF on_partial_chain
    <3> QED BY <2>2, <3>1, <3>2 DEF Cause, refusable
  <2> QED BY <2>2 DEF SyncInv, CauseOK, RefusalsHaveCause
<1> QED BY <1>1, SyncAlways, PTL

(***************************************************************************)
(* The backfilling at the end of a round leaves no orphan behind that is   *)
(* neither in local's tree nor refused nor off the chain below the lib,    *)
(* unless a peer has pruned it in the call: a partial chain, a failed      *)
(* backfill, and a peer that receives blocks meanwhile do not make it pass *)
(* one over (sync(), backfill_fork, fetch_chain_backward, update_lib).     *)
(***************************************************************************)
THEOREM OrphansAreSettledAlways == SyncSpec => OrphansAreSettled
<1> DEFINE Settles_ == \A b \in orphans \ orphans' :
                         b \in states' \cup rejected_blocks' \/ ~ IsPrefix(lib', b) \/ b \in pruned
<1>1. SyncInv /\ [SyncNext]_sync_vars => [Settles_]_sync_vars
  <2> SUFFICES ASSUME SyncInv, [SyncNext]_sync_vars, NEW b \in orphans \ orphans'
               PROVE  b \in states' \cup rejected_blocks' \/ ~ IsPrefix(lib', b) \/ b \in pruned
    OBVIOUS
  <2>1. b \in Blocks /\ lib' \in Seq(Header)
    BY HeldBlocks, SyncKeeps DEF SyncInv, FetchedOK, Kept
  <2>2. Settled(b, states', rejected_blocks', lib') \/ b \in pruned
    BY <2>1, StepOrphans
  <2>3. OffLine(b, lib') => ~ IsPrefix(lib', b)
    BY <2>1, OffLineIsNoPrefix
  <2> QED BY <2>2, <2>3 DEF Settled
<1> QED BY <1>1, SyncAlways, PTL DEF SyncSpec, OrphansAreSettled

(***************************************************************************)
(* When sync() returns and no peer has moved, local has or has refused all *)
(* that one peer of each group ahead holds from the first slot on, but for *)
(* what leaves its chain below the lib: no round, order of blocks, refusal *)
(* or backfill makes it skip a block it was sent.                          *)
(***************************************************************************)
THEOREM CaughtUpAlways == SyncSpec => []CaughtUp
<1>1. SyncInv => CaughtUp
  <2> SUFFICES ASSUME SyncInv, phase = "done", origin # Moved, NEW p \in Peer, ahead(p, origin)
               PROVE  \E q \in Peer :
                        /\ tip(q) = tip(p)
                        /\ \A b \in peers[q].stored : \/ slot(b) < origin
                                                      \/ b \in states \cup rejected_blocks
                                                      \/ ~ IsPrefix(lib, b)
    BY DEF CaughtUp
  <2>1. lib \in Seq(Header)
    BY DEF SyncInv, LocalInv, MemoInv, TypeInv, TreeInv, Consistent, Tree
  <2>2. orphans = {} /\ Served(p)
    BY DEF SyncInv, ServedOK
  <2>3. PICK q \in GroupOf(p) : \A b \in peers[q].stored : slot(b) < origin \/ Handled(b)
    BY <2>2 DEF Served
  <2>4. \A b : Handled(b) => b \in states \cup rejected_blocks \/ OffLine(b, lib)
    BY <2>2 DEF Handled, Settled
  <2>5. \A b : OffLine(b, lib) => ~ IsPrefix(lib, b)
    BY <2>1, OffLineIsNoPrefix
  <2>6. q \in Peer /\ tip(q) = tip(p)
    BY DEF GroupOf
  <2> QED BY <2>3, <2>4, <2>5, <2>6
<1> QED BY <1>1, SyncAlways, PTL
==========================================================================
