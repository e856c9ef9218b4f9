--------------------------- MODULE CommonPrefix ---------------------------
(***************************************************************************)
(* The loop of common_prefix_depth: two generators walk two chains down in *)
(* turn, each block they yield is looked up among those seen on either     *)
(* chain, and the first that was seen before is where the chains meet.     *)
(* BlockTree has the result only; here the loop itself runs, on the trees  *)
(* that a Follower reaches.                                                *)
(***************************************************************************)
EXTENDS Follower

\* What iter_chain_blocks(tip, states) yields after `yielded'; << >> when it stops.
yields(tip, yielded) ==
  LET h == Len(tip) - Len(yielded)
  IN  IF h >= 0 /\ At(tip, h) \in states THEN << At(tip, h) >> ELSE << >>

\* A slice stops at the end of its list.
suffix_upto(suffix, d) ==
  [depth |-> d, suffix |-> Reverse(SubSeq(suffix, 1, IF d < Len(suffix) THEN d + 1 ELSE Len(suffix)))]

\* The loop's variables at entry; `result' is the tuple returned, << >> before.
entry(a, b) ==
  [tip |-> [a |-> a, b |-> b], suffix |-> [a |-> << >>, b |-> << >>],
   depth |-> 0, seen |-> << >>, result |-> << >>]

\* The dictionary of blocks seen, once `block' is.
noted(s, block) ==
  [c \in {block} \cup DOMAIN s.seen |-> IF c = block THEN s.depth ELSE s.seen[c]]

\* Faulty variant: the depth of the chain that is walked is returned for both.
walk_same_depth(s, who) ==
  LET next == yields(s.tip[who], s.suffix[who])
      walked == [s EXCEPT !.suffix[who] = @ \o next]
  IN  IF next = << >> THEN s
      ELSE IF next[1] \in DOMAIN s.seen
        THEN [walked EXCEPT !.result = [w \in {"a", "b"} |-> suffix_upto(walked.suffix[w], s.depth)]]
        ELSE [walked EXCEPT !.seen = noted(s, next[1])]

\* One half of an iteration: the generator of chain `who' yields, or is spent.
walk(s, who) ==
  LET next == yields(s.tip[who], s.suffix[who])
      walked == [s EXCEPT !.suffix[who] = @ \o next]
  IN  IF next = << >> THEN s
      ELSE IF next[1] \in DOMAIN s.seen
        THEN [walked EXCEPT !.result =
               [w \in {"a", "b"} |->
                  suffix_upto(walked.suffix[w], IF w = who THEN s.depth ELSE s.seen[next[1]])]]
        ELSE [walked EXCEPT !.seen = noted(s, next[1])]

iteration(s) ==
  IF s.result # << >> THEN s
  ELSE LET half == walk(s, "a")
       IN  IF half.result # << >> THEN half ELSE [walk(half, "b") EXCEPT !.depth = @ + 1]

\* The tuple that is returned within `n' iterations.
loop(a, b, n) ==
  LET after[i \in 0 .. n] == IF i = 0 THEN entry(a, b) ELSE iteration(after[i-1])
  IN  after[n].result

---------------------------------------------------------------------------
(***************************************************************************)
(* Between any two tips of a node's tree the loop returns, before both     *)
(* generators are spent, what the operator common_prefix_depth says,       *)
(* whichever chain is the longer and wherever they meet.  Each suffix      *)
(* lists its blocks upwards from the block in common, from which           *)
(* maxvalid_bg takes the forking slot.                                     *)
(***************************************************************************)
upward(suffix) == \A i \in 1 .. Len(suffix) - 1 : suffix[i] = parent(suffix[i+1])

FindsForkPoint ==
  \A a, b \in {local_chain} \cup ToSet(forks) :
    \E r \in {loop(a, b, 1 + (IF Len(a) < Len(b) THEN Len(b) ELSE Len(a)))} :
      LET p == common_prefix_depth(a, b, states)
      IN  /\ r # << >>
          /\ r["a"].depth = p.a_depth /\ ToSet(r["a"].suffix) = p.a_suffix
          /\ r["b"].depth = p.b_depth /\ ToSet(r["b"].suffix) = p.b_suffix
          /\ \A w \in {"a", "b"} : upward(r[w].suffix) /\ Head(r[w].suffix) = p.fork
==========================================================================
