---------------------------- MODULE BlockTree ----------------------------
(***************************************************************************)
(* The block tree of cryptarchia/cryptarchia.py and the chain functions    *)
(* that walk it: iter_chain, height, is_ancestor, common_prefix_depth,     *)
(* chain_density and the two fork choice rules.                            *)
(*                                                                         *)
(* A block id is the hash of the header's fields, the parent's id among    *)
(* them, so an id fixes the whole chain below it.  The model uses that     *)
(* chain as the id: a block is the sequence of the headers on its chain,   *)
(* oldest first, and genesis, which stands on nothing, is << >>.  A header *)
(* is a record [slot, proof].  `states' is, as in the code, the set of     *)
(* block ids that have a ledger state.                                     *)
(***************************************************************************)
EXTENDS Integers, FiniteSets, Sequences

Genesis == << >>

\* The genesis block of a network is made outside src/'s non-test code, at slot 0.
GenesisSlot == 0

slot(b) == IF b = Genesis THEN GenesisSlot ELSE b[Len(b)].slot

\* The block at position h of b's chain, genesis being at position 0.
At(b, h) == SubSeq(b, 1, h)

\* The `parent' field of a header; genesis' parent is no block's id.
parent(b) == At(b, Len(b) - 1)

(***************************************************************************)
(* The blocks iter_chain yields: from tip towards genesis for as long as   *)
(* the next id is a key of `states'.                                       *)
(***************************************************************************)
iter_chain(tip, states) ==
  { At(tip, h) : h \in { h \in 0 .. Len(tip) :
                           \A i \in h .. Len(tip) : At(tip, i) \in states } }

height(block, states) == Cardinality(iter_chain(block, states))

is_ancestor(a, b, states) == a \in iter_chain(b, states)

\* iter_chain's element number k counted from the tip, or `default' when it is shorter.
kth_back(tip, k, default, states) ==
  IF \E c \in iter_chain(tip, states) : Len(c) = Len(tip) - k
    THEN At(tip, Len(tip) - k)
    ELSE default

(***************************************************************************)
(* common_prefix_depth walks both chains in turn until one of them reaches *)
(* a block the other has yielded: the highest block on both.  A suffix     *)
(* starts with that block.  (Two chains with nothing in common make the    *)
(* code loop for ever, and make the CHOOSE here fail.)                     *)
(***************************************************************************)
fork_point(a, b, states) ==
  LET common == iter_chain(a, states) \cap iter_chain(b, states)
  IN  CHOOSE c \in common : \A d \in common : Len(d) =< Len(c)

suffix_from(c, b, states) ==
  { d \in iter_chain(b, states) : Len(c) =< Len(d) }

common_prefix_depth(a, b, states) ==
  LET c == fork_point(a, b, states)
  IN  [ a_depth  |-> Len(a) - Len(c),
        a_suffix |-> suffix_from(c, a, states),
        b_depth  |-> Len(b) - Len(c),
        b_suffix |-> suffix_from(c, b, states),
        fork     |-> c ]

chain_density(chain, sl) == Cardinality({ b \in chain : slot(b) < sl })

(***************************************************************************)
(* What one iteration of the loop of maxvalid_bg (Ouroboros Genesis) and   *)
(* of maxvalid_mc (Ouroboros Praos) asks: does `fork' replace `cmax'?      *)
(***************************************************************************)
better_bg(cmax, fork, k, s, states) ==
  LET p == common_prefix_depth(cmax, fork, states)
      forking_slot == slot(p.fork) + s
  IN  IF p.a_depth =< k
        THEN p.a_depth < p.b_depth
        ELSE chain_density(p.a_suffix, forking_slot)
               < chain_density(p.b_suffix, forking_slot)

\* Faulty variants, which the runs must tell from the code: the comparison turned
\* round, and a tie that goes to the newcomer.
better_mc_swapped(cmax, fork, k, states) ==
  LET p == common_prefix_depth(cmax, fork, states)
  IN  p.a_depth =< k /\ p.a_depth > p.b_depth

better_mc_ties(cmax, fork, k, states) ==
  LET p == common_prefix_depth(cmax, fork, states)
  IN  p.a_depth =< k /\ p.a_depth =< p.b_depth

better_mc(cmax, fork, k, states) ==
  LET p == common_prefix_depth(cmax, fork, states)
  IN  p.a_depth =< k /\ p.a_depth < p.b_depth

\* The loops themselves: cmax[i] is the choice after the first i forks of the list.
maxvalid_bg(local_chain, forks, k, s, states) ==
  LET pick == [p \in states \X states |->
                IF better_bg(p[1], p[2], k, s, states) THEN p[2] ELSE p[1]]
      cmax[i \in 0 .. Len(forks)] ==
        IF i = 0 THEN local_chain ELSE pick[<< cmax[i-1], forks[i] >>]
  IN  cmax[Len(forks)]

\* Faulty variant: the loop ends before the last fork.
maxvalid_mc_short(local_chain, forks, k, states) ==
  LET pick == [p \in states \X states |->
                IF better_mc(p[1], p[2], k, states) THEN p[2] ELSE p[1]]
      cmax[i \in 0 .. Len(forks)] ==
        IF i = 0 THEN local_chain
        ELSE IF i < Len(forks) THEN pick[<< cmax[i-1], forks[i] >>] ELSE cmax[i-1]
  IN  cmax[Len(forks)]

maxvalid_mc(local_chain, forks, k, states) ==
  LET pick == [p \in states \X states |->
                IF better_mc(p[1], p[2], k, states) THEN p[2] ELSE p[1]]
      cmax[i \in 0 .. Len(forks)] ==
        IF i = 0 THEN local_chain ELSE pick[<< cmax[i-1], forks[i] >>]
  IN  cmax[Len(forks)]

(***************************************************************************)
(* The two list operations on_block and update_lib use on the forks,       *)
(* written as the loops they are: list.remove takes out the first          *)
(* occurrence, a comprehension keeps the elements of a set, in order.      *)
(***************************************************************************)
list_remove(list, e) ==
  IF \E i \in 1 .. Len(list) : list[i] = e
    THEN LET first == CHOOSE i \in 1 .. Len(list) :
                        list[i] = e /\ \A j \in 1 .. i-1 : list[j] # e
         IN  SubSeq(list, 1, first - 1) \o SubSeq(list, first + 1, Len(list))
    ELSE list

list_keep(list, set) ==
  LET out[i \in 0 .. Len(list)] ==
        IF i = 0 THEN << >>
        ELSE IF list[i] \in set THEN Append(out[i-1], list[i]) ELSE out[i-1]
  IN  out[Len(list)]
==========================================================================
