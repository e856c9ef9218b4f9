------------------------- MODULE ImmutableLedger -------------------------
(***************************************************************************)
(* What a Follower promises to whoever reads its chain, without the block  *)
(* tree, the fork list or the fork choice rules.  A chain is a sequence.   *)
(* While it bootstraps the node may jump to any chain above its immutable  *)
(* prefix.  Once online it moves to longer chains only, and keeps for ever *)
(* all of its chain but the last Depth blocks.                             *)
(***************************************************************************)
EXTENDS Integers, Sequences

CONSTANTS Chain, Depth

VARIABLES tip, final, mode

ledger_vars == << tip, final, mode >>

prefix(p, c) == Len(p) =< Len(c) /\ p = SubSeq(c, 1, Len(p))

settled_part(c) == IF Len(c) < Depth THEN << >> ELSE SubSeq(c, 1, Len(c) - Depth)

Start == tip = << >> /\ final = << >> /\ mode = "BOOTSTRAPPING"

Search ==
  /\ mode = "BOOTSTRAPPING"
  /\ tip' \in Chain
  /\ prefix(final, tip')
  /\ UNCHANGED << final, mode >>

Finalise ==
  /\ final' = settled_part(tip')
  /\ prefix(final, final')

GoOnline ==
  /\ mode = "BOOTSTRAPPING"
  /\ mode' = "ONLINE"
  /\ tip' = tip
  /\ Finalise

Follow ==
  /\ mode = "ONLINE"
  /\ tip' \in Chain
  /\ Len(tip') > Len(tip)
  /\ Finalise
  /\ UNCHANGED mode

Evolve == Search \/ GoOnline \/ Follow

LedgerSpec == Start /\ [][Evolve]_ledger_vars
==========================================================================
