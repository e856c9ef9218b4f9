------------------------ MODULE FollowerTheorems ------------------------
(***************************************************************************)
(* The theorems about a Follower, for every block universe and every       *)
(* configuration: what its tree, fork list and last immutable block are    *)
(* at every moment, what its epochs are, that the loop of                  *)
(* common_prefix_depth finds the fork point, and that the Follower         *)
(* implements ImmutableLedger.  The facts about chains, loops and lists    *)
(* that the proofs rest on come first.                                     *)
(***************************************************************************)
EXTENDS CommonPrefix, Lemmas, SequenceTheorems

(***************************************************************************)
(* A loop over 1 .. n that carries a value of X has a run.                 *)
(***************************************************************************)
Body(X, n) == [X \X (1 .. n) -> X]

LoopRun(f, n, X, a, g) ==
  /\ f \in [0 .. n -> X]
  /\ f[0] = a
  /\ \A i \in 1 .. n : f[i] = g[<< f[i-1], i >>]

LEMMA LoopRuns ==
  ASSUME NEW n \in Nat, NEW X, NEW a \in X, NEW g \in Body(X, n)
  PROVE  \E f : LoopRun(f, n, X, a, g)
<1> USE DEF Body
<1> DEFINE Run(m, f) == f[0] = a /\ \A i \in 1 .. m : f[i] = g[<< f[i-1], i >>]
           I == { m \in 0 .. n : \E f \in [0 .. m -> X] : Run(m, f) }
<1>1. 0 \in I
  <2> DEFINE h == [i \in 0 .. 0 |-> a]
  <2>1. h \in [0 .. 0 -> X] /\ Run(0, h)
    OBVIOUS
  <2> HIDE DEF h
  <2> QED BY <2>1
<1>2. ASSUME NEW m \in 0 .. n-1, m \in I PROVE m+1 \in I
  <2>1. PICK f \in [0 .. m -> X] : Run(m, f)
    BY <1>2
  <2> DEFINE h == [i \in 0 .. m+1 |-> IF i =< m THEN f[i] ELSE g[<< f[m], m+1 >>]]
  <2>2. h \in [0 .. m+1 -> X]
    <3>1. g[<< f[m], m+1 >>] \in X
      OBVIOUS
    <3> QED BY <3>1
  <2>3. Run(m+1, h)
    <3>1. h[0] = a
      BY <2>1
    <3>2. ASSUME NEW i \in 1 .. m+1 PROVE h[i] = g[<< h[i-1], i >>]
      <4>1. CASE i =< m
        BY <4>1, <2>1
      <4>2. CASE i = m+1
        <5>1. h[m+1] = g[<< f[m], m+1 >>]
          OBVIOUS
        <5>2. h[m] = f[m] /\ (m+1) - 1 = m
          OBVIOUS
        <5> HIDE DEF h
        <5> QED BY <4>2, <5>1, <5>2
      <4> QED BY <4>1, <4>2
    <3> QED BY <3>1, <3>2
  <2> HIDE DEF h
  <2> QED BY <2>2, <2>3
<1>3. 0 .. n \subseteq I
  <2> HIDE DEF I
  <2> QED BY <1>1, <1>2, BoundedInduction
<1>4. PICK f \in [0 .. n -> X] : Run(n, f)
  <2>1. n \in I
    <3> HIDE DEF I
    <3>1. n \in 0 .. n
      OBVIOUS
    <3> QED BY <1>3, <3>1
  <2> QED BY <2>1, Zenon
<1> QED BY <1>4, Zenon DEF LoopRun
---------------------------------------------------------------------------
\* Chains as sequences of headers.

LEMMA AtProperties ==
  ASSUME NEW H, NEW b \in Seq(H), NEW h \in 0 .. Len(b)
  PROVE  /\ At(b, h) \in Seq(H)
         /\ Len(At(b, h)) = h
         /\ \A i \in 1 .. h : At(b, h)[i] = b[i]
BY DEF At

LEMMA AtAt ==
  ASSUME NEW H, NEW b \in Seq(H), NEW h \in 0 .. Len(b), NEW i \in 0 .. h
  PROVE  At(At(b, h), i) = At(b, i)
<1>1. /\ At(b, h) \in Seq(H) /\ Len(At(b, h)) = h
      /\ \A j \in 1 .. h : At(b, h)[j] = b[j]
  BY AtProperties
<1>2. /\ At(b, i) \in Seq(H) /\ Len(At(b, i)) = i
      /\ \A j \in 1 .. i : At(b, i)[j] = b[j]
  <2>1. i \in 0 .. Len(b)
    OBVIOUS
  <2> QED BY <2>1, AtProperties
<1>3. /\ At(At(b, h), i) \in Seq(H) /\ Len(At(At(b, h), i)) = i
      /\ \A j \in 1 .. i : At(At(b, h), i)[j] = At(b, h)[j]
  BY <1>1, AtProperties
<1> HIDE DEF At
<1> QED BY <1>1, <1>2, <1>3, SeqEqual

LEMMA AtEnds ==
  ASSUME NEW H, NEW b \in Seq(H)
  PROVE  At(b, Len(b)) = b /\ At(b, 0) = Genesis
<1>1. At(b, Len(b)) = b
  BY SubSeqFull DEF At
<1>2. At(b, 0) = Genesis
  BY SubSeqEmpty DEF At, Genesis
<1> QED BY <1>1, <1>2

LEMMA LenZero ==
  ASSUME NEW H, NEW b \in Seq(H)
  PROVE  Len(b) = 0 <=> b = Genesis
BY EmptySeq DEF Genesis
---------------------------------------------------------------------------
\* A set of blocks is a tree when every chain in it reaches genesis.
Tree(T, H) ==
  /\ T \subseteq Seq(H)
  /\ Genesis \in T
  /\ \A b \in T \ {Genesis} : parent(b) \in T

\* a is b or an ancestor of b.
Below(a, b) == Len(a) =< Len(b) /\ a = At(b, Len(a))

LEMMA TreeHoldsChains ==
  ASSUME NEW H, NEW T, Tree(T, H), NEW b \in T, NEW h \in 0 .. Len(b)
  PROVE  At(b, h) \in T
<1> DEFINE I == { d \in 0 .. Len(b) : At(b, Len(b) - d) \in T }
<1>0. b \in Seq(H) /\ Len(b) \in Nat
  BY DEF Tree
<1>1. 0 \in I
  BY <1>0, AtEnds
<1>2. ASSUME NEW d \in 0 .. Len(b) - 1, d \in I PROVE d+1 \in I
  <2> DEFINE c == At(b, Len(b) - d)
  <2>1. Len(b) - d \in 1 .. Len(b)
    BY <1>0
  <2>2. c \in T /\ Len(c) = Len(b) - d
    <3>1. Len(b) - d \in 0 .. Len(b)
      BY <1>0
    <3>2. Len(At(b, Len(b) - d)) = Len(b) - d
      BY <1>0, <3>1, AtProperties
    <3> QED BY <1>2, <3>2
  <2>3. c # Genesis
    BY <2>1, <2>2, EmptySeq DEF Genesis
  <2>4. parent(c) \in T
    BY <2>2, <2>3 DEF Tree
  <2>5. parent(c) = At(b, Len(b) - (d+1))
    <3>1. Len(b) - d - 1 \in 0 .. Len(b) - d
      BY <1>0
    <3>2. At(At(b, Len(b) - d), Len(b) - d - 1) = At(b, Len(b) - d - 1)
      BY <1>0, <2>1, <3>1, AtAt
    <3>3. Len(b) - (d+1) = Len(b) - d - 1
      BY <1>0
    <3> HIDE DEF c
    <3> QED BY <2>2, <3>2, <3>3 DEF parent, c
  <2> QED BY <1>0, <2>4, <2>5
<1>3. 0 .. Len(b) \subseteq I
  <2> HIDE DEF I
  <2> QED BY <1>0, <1>1, <1>2, BoundedInduction
<1>4. Len(b) - h \in I
  <2>1. Len(b) - h \in 0 .. Len(b)
    BY <1>0
  <2> HIDE DEF I
  <2> QED BY <1>3, <2>1
<1>5. Len(b) - (Len(b) - h) = h
  BY <1>0
<1> QED BY <1>4, <1>5

LEMMA ChainOf ==
  ASSUME NEW H, NEW T, Tree(T, H), NEW b \in T
  PROVE  iter_chain(b, T) = { At(b, h) : h \in 0 .. Len(b) }
<1>1. ASSUME NEW h \in 0 .. Len(b), NEW i \in h .. Len(b) PROVE At(b, i) \in T
  <2>1. Len(b) \in Nat
    BY DEF Tree
  <2>2. i \in 0 .. Len(b)
    BY <2>1
  <2> QED BY <2>2, TreeHoldsChains
<1> QED BY <1>1 DEF iter_chain

LEMMA AncestorIsBelow ==
  ASSUME NEW H, NEW T, Tree(T, H), NEW b \in T, NEW a
  PROVE  is_ancestor(a, b, T) <=> a \in Seq(H) /\ Below(a, b)
<1>0. b \in Seq(H) /\ Len(b) \in Nat
  BY DEF Tree
<1>1. is_ancestor(a, b, T) <=> \E h \in 0 .. Len(b) : a = At(b, h)
  BY ChainOf DEF is_ancestor
<1>2. ASSUME NEW h \in 0 .. Len(b), a = At(b, h) PROVE a \in Seq(H) /\ Below(a, b)
  <2>1. a \in Seq(H) /\ Len(a) = h
    BY <1>0, <1>2, AtProperties
  <2> QED BY <1>0, <1>2, <2>1 DEF Below
<1>3. ASSUME a \in Seq(H), Below(a, b) PROVE \E h \in 0 .. Len(b) : a = At(b, h)
  <2>1. Len(a) \in 0 .. Len(b)
    BY <1>0, <1>3 DEF Below
  <2> QED BY <1>3, <2>1 DEF Below
<1> QED BY <1>1, <1>2, <1>3

LEMMA BelowInTree ==
  ASSUME NEW H, NEW T, Tree(T, H), NEW b \in T, NEW a \in Seq(H), Below(a, b)
  PROVE  a \in T
<1>1. Len(a) \in 0 .. Len(b)
  BY DEF Tree, Below
<1> QED BY <1>1, TreeHoldsChains DEF Below

LEMMA BelowReflexive ==
  ASSUME NEW H, NEW a \in Seq(H)
  PROVE  Below(a, a) /\ Below(Genesis, a)
<1>1. Len(a) \in Nat /\ Len(Genesis) = 0
  BY DEF Genesis
<1> QED BY <1>1, AtEnds DEF Below

LEMMA BelowTransitive ==
  ASSUME NEW H, NEW a \in Seq(H), NEW b \in Seq(H), NEW c \in Seq(H),
         Below(a, b), Below(b, c)
  PROVE  Below(a, c)
<1>1. Len(a) \in 0 .. Len(b) /\ Len(b) \in 0 .. Len(c)
  BY DEF Below
<1>2. At(At(c, Len(b)), Len(a)) = At(c, Len(a))
  BY <1>1, AtAt
<1> QED BY <1>1, <1>2 DEF Below

LEMMA BelowLinear ==
  ASSUME NEW H, NEW a \in Seq(H), NEW b \in Seq(H), NEW c \in Seq(H),
         Below(a, c), Below(b, c), Len(a) =< Len(b)
  PROVE  Below(a, b)
<1>1. Len(b) \in 0 .. Len(c) /\ Len(a) \in 0 .. Len(b)
  BY DEF Below
<1>2. At(At(c, Len(b)), Len(a)) = At(c, Len(a))
  BY <1>1, AtAt
<1> QED BY <1>1, <1>2 DEF Below

LEMMA BelowSameLength ==
  ASSUME NEW H, NEW a \in Seq(H), NEW b \in Seq(H), Below(a, b), Len(b) =< Len(a)
  PROVE  a = b
<1>1. Len(a) = Len(b)
  BY DEF Below
<1> QED BY <1>1, AtEnds DEF Below

LEMMA ParentProperties ==
  ASSUME NEW H, NEW b \in Seq(H), b # Genesis
  PROVE  /\ parent(b) \in Seq(H)
         /\ Len(b) \in Nat /\ Len(parent(b)) = Len(b) - 1
         /\ Below(parent(b), b) /\ parent(b) # b
         /\ \A a \in Seq(H) : Below(a, b) => a = b \/ Below(a, parent(b))
<1>1. Len(b) \in Nat \ {0} /\ Len(b) - 1 \in 0 .. Len(b)
  BY EmptySeq DEF Genesis
<1>2. parent(b) \in Seq(H) /\ Len(parent(b)) = Len(b) - 1
  BY <1>1, AtProperties DEF parent
<1>3. Below(parent(b), b) /\ parent(b) # b
  BY <1>1, <1>2 DEF Below, parent
<1>4. ASSUME NEW a \in Seq(H), Below(a, b), a # b PROVE Below(a, parent(b))
  <2>1. Len(a) \in Nat /\ Len(a) =< Len(b)
    BY <1>4 DEF Below
  <2>2. Len(a) # Len(b)
    BY <1>4, BelowSameLength, <2>1
  <2>3. Len(a) =< Len(parent(b))
    BY <1>1, <1>2, <2>1, <2>2
  <2> QED BY <1>2, <1>3, <1>4, <2>3, BelowLinear
<1> QED BY <1>1, <1>2, <1>3, <1>4

LEMMA HeightIsLength ==
  ASSUME NEW H, NEW T, Tree(T, H), NEW b \in T
  PROVE  height(b, T) = Len(b) + 1
<1> DEFINE C == { At(b, h) : h \in 0 .. Len(b) }
           f == [h \in 0 .. Len(b) |-> At(b, h)]
<1>0. b \in Seq(H) /\ Len(b) \in Nat
  BY DEF Tree
<1>1. f \in Bijection(0 .. Len(b), C)
  <2>1. \A h, i \in 0 .. Len(b) : f[h] = f[i] => h = i
    <3> SUFFICES ASSUME NEW h \in 0 .. Len(b), NEW i \in 0 .. Len(b), At(b, h) = At(b, i)
                 PROVE h = i
      OBVIOUS
    <3>1. Len(At(b, h)) = h /\ Len(At(b, i)) = i
      BY <1>0, AtProperties
    <3> QED BY <3>1
  <2>2. f \in [0 .. Len(b) -> C] /\ \A c \in C : \E h \in 0 .. Len(b) : f[h] = c
    OBVIOUS
  <2> HIDE DEF C, f
  <2> QED BY <2>1, <2>2 DEF Bijection, Injection, Surjection, IsInjective
<1>2. Cardinality(C) = Len(b) + 1
  <2>1. IsFiniteSet(0 .. Len(b)) /\ Cardinality(0 .. Len(b)) = Len(b) + 1
    BY <1>0, FS_Interval
  <2>2. ExistsBijection(0 .. Len(b), C)
    <3> HIDE DEF C, f
    <3> QED BY <1>1 DEF ExistsBijection
  <2> HIDE DEF C
  <2> QED BY <2>1, <2>2, FS_Bijection
<1> QED BY <1>2, ChainOf DEF height
---------------------------------------------------------------------------
(***************************************************************************)
(* Two blocks of a tree have a highest common block: if each common block  *)
(* had a longer one above it, there would be common blocks longer than a.  *)
(***************************************************************************)
LEMMA ForkPointProperties ==
  ASSUME NEW H, NEW T, Tree(T, H), NEW a \in T, NEW b \in T
  PROVE  LET c == fork_point(a, b, T) IN
         /\ c \in T /\ Len(c) \in Nat
         /\ Below(c, a) /\ Below(c, b)
         /\ \A d \in Seq(H) : Below(d, a) /\ Below(d, b) => Len(d) =< Len(c)
<1> DEFINE common == iter_chain(a, T) \cap iter_chain(b, T)
           N == Len(a) + 1
           I == { m \in 0 .. N : \E d \in common : Len(d) >= m }
<1>0. a \in Seq(H) /\ b \in Seq(H) /\ Len(a) \in Nat
  BY DEF Tree
<1>1. \A d : d \in common <=> d \in Seq(H) /\ Below(d, a) /\ Below(d, b)
  BY AncestorIsBelow DEF is_ancestor
<1>2. \A d \in common : Len(d) \in Nat /\ Len(d) =< Len(a)
  <2> HIDE DEF common
  <2> QED BY <1>1 DEF Below
<1>3. \E c \in common : \A d \in common : Len(d) =< Len(c)
  <2> SUFFICES ASSUME \A c \in common : \E d \in common : ~ (Len(d) =< Len(c))
               PROVE FALSE
    OBVIOUS
  <2>1. 0 \in I
    <3>1. Genesis \in common /\ Len(Genesis) = 0
      <4>1. Genesis \in Seq(H) /\ Len(Genesis) = 0
        BY EmptySeq DEF Genesis
      <4> HIDE DEF common
      <4> QED BY <1>0, <1>1, <4>1, BelowReflexive
    <3> HIDE DEF common
    <3> QED BY <1>0, <3>1
  <2>2. ASSUME NEW m \in 0 .. N - 1, m \in I PROVE m+1 \in I
    <3>1. PICK c \in common : Len(c) >= m
      BY <2>2
    <3>2. PICK d \in common : ~ (Len(d) =< Len(c))
      BY <3>1
    <3> HIDE DEF common
    <3>3. Len(d) >= m+1
      BY <1>2, <3>1, <3>2 DEF LoopRun
    <3> QED BY <1>0, <3>3
  <2>3. 0 .. N \subseteq I
    <3>1. N \in Nat
      BY <1>0
    <3> HIDE DEF I, N
    <3> QED BY <2>1, <2>2, <3>1, BoundedInduction
  <2>4. N \in 0 .. N
    BY <1>0
  <2>5. PICK d \in common : Len(d) >= Len(a) + 1
    BY <2>3, <2>4
  <2> HIDE DEF common
  <2> QED BY <1>0, <1>2, <2>5
<1> DEFINE c == fork_point(a, b, T)
<1>4. c \in common /\ \A d \in common : Len(d) =< Len(c)
  <2>1. c = CHOOSE x \in common : \A d \in common : Len(d) =< Len(x)
    BY DEF fork_point
  <2> HIDE DEF common, c
  <2> QED BY <1>3, <2>1
<1>5. c \in Seq(H) /\ Below(c, a) /\ Below(c, b)
  <2> HIDE DEF common, c
  <2> QED BY <1>1, <1>4
<1>6. c \in T
  <2> HIDE DEF c
  <2> QED BY <1>5, BelowInTree
<1>7. \A d \in Seq(H) : Below(d, a) /\ Below(d, b) => Len(d) =< Len(c)
  <2> HIDE DEF common, c
  <2> QED BY <1>1, <1>4
<1> HIDE DEF c
<1> QED BY <1>5, <1>6, <1>7 DEF c

LEMMA BetterIsLonger ==
  ASSUME NEW H, NEW T, Tree(T, H), NEW a \in T, NEW b \in T, NEW k \in Nat,
         better_mc(a, b, k, T)
  PROVE  Len(a) < Len(b)
<1>1. Len(fork_point(a, b, T)) \in Nat
  BY ForkPointProperties
<1>2. Len(a) \in Nat /\ Len(b) \in Nat
  BY DEF Tree
<1>3. Len(a) - Len(fork_point(a, b, T)) < Len(b) - Len(fork_point(a, b, T))
  BY DEF better_mc, common_prefix_depth
<1> QED BY <1>1, <1>2, <1>3

\* A loop over a list that keeps one of two candidates at each turn.
PickRun(f, local, tips, pick) ==
  f = [i \in 0 .. Len(tips) |-> IF i = 0 THEN local ELSE pick[<< f[i-1], tips[i] >>]]

PickSteps(f, T, local, tips, pick) ==
  /\ f[0] = local
  /\ \A i \in 0 .. Len(tips) : f[i] \in T
  /\ \A i \in 1 .. Len(tips) : f[i] = pick[<< f[i-1], tips[i] >>]

LEMMA PickRunExists ==
  ASSUME NEW T, NEW local \in T, NEW tips \in Seq(T), NEW pick \in [T \X T -> T]
  PROVE  \E f : PickRun(f, local, tips, pick)
<1> DEFINE n == Len(tips)
           g == [p \in T \X (1 .. n) |-> pick[<< p[1], tips[p[2]] >>]]
<1>0. n \in Nat /\ \A i \in 1 .. n : tips[i] \in T
  OBVIOUS
<1>1. g \in Body(T, n)
  <2>1. ASSUME NEW p \in T \X (1 .. n) PROVE g[p] \in T
    <3>1. p[1] \in T /\ tips[p[2]] \in T
      BY <1>0, <2>1
    <3> QED BY <2>1, <3>1
  <2> QED BY <2>1 DEF Body
<1>2. PICK f : LoopRun(f, n, T, local, g)
  <2> HIDE DEF g, n
  <2> QED BY <1>0, <1>1, LoopRuns
<1> DEFINE h == [i \in 0 .. n |-> IF i = 0 THEN local ELSE pick[<< f[i-1], tips[i] >>]]
<1>3. f = h
  <2>1. ASSUME NEW i \in 1 .. n PROVE f[i] = h[i]
    <3>1. i-1 \in 0 .. n /\ i \in 0 .. n /\ i # 0
      BY <1>0
    <3>2. << f[i-1], i >> \in T \X (1 .. n)
      BY <1>2, <3>1 DEF LoopRun
    <3> QED BY <1>2, <3>1, <3>2 DEF LoopRun
  <2>2. f[0] = h[0]
    BY <1>0, <1>2 DEF LoopRun
  <2>3. \A i \in 0 .. n : i = 0 \/ i \in 1 .. n
    BY <1>0
  <2> QED BY <1>2, <2>1, <2>2, <2>3 DEF LoopRun
<1>4. PickRun(f, local, tips, pick)
  BY <1>3 DEF PickRun
<1> QED BY <1>4

LEMMA PickRunSteps ==
  ASSUME NEW T, NEW local \in T, NEW tips \in Seq(T), NEW pick \in [T \X T -> T],
         NEW f, PickRun(f, local, tips, pick)
  PROVE  PickSteps(f, T, local, tips, pick)
<1> DEFINE n == Len(tips)
<1>0. n \in Nat /\ \A i \in 1 .. n : tips[i] \in T
  OBVIOUS
<1>1. \A i \in 0 .. n : f[i] = IF i = 0 THEN local ELSE pick[<< f[i-1], tips[i] >>]
  BY DEF PickRun
<1>2. f[0] = local /\ \A i \in 1 .. n : f[i] = pick[<< f[i-1], tips[i] >>]
  <2>1. 0 \in 0 .. n /\ \A i \in 1 .. n : i \in 0 .. n /\ i # 0
    BY <1>0
  <2> HIDE DEF n
  <2> QED BY <1>1, <2>1
<1>3. \A i \in 0 .. n : f[i] \in T
  <2> DEFINE I == { i \in 0 .. n : f[i] \in T }
  <2>1. 0 \in I
    BY <1>0, <1>2
  <2>2. ASSUME NEW i \in 0 .. n-1, i \in I PROVE i+1 \in I
    <3>1. i+1 \in 0 .. n /\ (i+1)-1 = i /\ i+1 \in 1 .. n
      BY <1>0
    <3>2. f[i+1] = pick[<< f[i], tips[i+1] >>] /\ f[i] \in T /\ tips[i+1] \in T
      BY <1>0, <1>2, <2>2, <3>1
    <3> QED BY <3>1, <3>2
  <2>3. 0 .. n \subseteq I
    <3> HIDE DEF I, n
    <3> QED BY <1>0, <2>1, <2>2, BoundedInduction
  <2> QED BY <2>3
<1> QED BY <1>2, <1>3 DEF PickSteps

LEMMA PickLoop ==
  ASSUME NEW T, NEW local \in T, NEW tips \in Seq(T), NEW pick \in [T \X T -> T],
         NEW cmax, cmax = CHOOSE f : PickRun(f, local, tips, pick)
  PROVE  PickSteps(cmax, T, local, tips, pick)
<1>1. PickRun(cmax, local, tips, pick)
  BY PickRunExists
<1> QED BY <1>1, PickRunSteps

\* What the loop of maxvalid_mc returns: the chain it was given, or a longer one of the list.
LEMMA MaxvalidMc ==
  ASSUME NEW H, NEW T, Tree(T, H), NEW local \in T, NEW tips \in Seq(T), NEW k \in Nat
  PROVE  LET r == maxvalid_mc(local, tips, k, T) IN
         \/ r = local
         \/ r \in Range(tips) /\ Len(local) < Len(r)
<1> DEFINE n == Len(tips)
           pick == [p \in T \X T |-> IF better_mc(p[1], p[2], k, T) THEN p[2] ELSE p[1]]
           cmax == CHOOSE f : f = [i \in 0 .. n |->
                                     IF i = 0 THEN local ELSE pick[<< f[i-1], tips[i] >>]]
           Good(c) == c = local \/ (c \in Range(tips) /\ Len(local) < Len(c))
           I == { i \in 0 .. n : Good(cmax[i]) }
<1>0. n \in Nat /\ \A i \in 1 .. n : tips[i] \in T /\ tips[i] \in Range(tips)
  BY RangeEquality
<1>1. /\ pick \in [T \X T -> T]
      /\ \A c, f \in T : pick[<< c, f >>] = IF better_mc(c, f, k, T) THEN f ELSE c
  OBVIOUS
<1>2. maxvalid_mc(local, tips, k, T) = cmax[n]
  BY DEF maxvalid_mc
<1> HIDE DEF pick
<1>3. /\ cmax[0] = local
      /\ \A i \in 0 .. n : cmax[i] \in T
      /\ \A i \in 1 .. n : cmax[i] = pick[<< cmax[i-1], tips[i] >>]
  <2>1. cmax = CHOOSE f : PickRun(f, local, tips, pick)
    BY DEF PickRun
  <2> HIDE DEF cmax
  <2>2. PickSteps(cmax, T, local, tips, pick)
    BY <1>1, <2>1, PickLoop
  <2> QED BY <2>2 DEF PickSteps
<1> HIDE DEF cmax
<1>4. 0 \in I
  BY <1>0, <1>3
<1>5. ASSUME NEW i \in 0 .. n-1, i \in I PROVE i+1 \in I
  <2>1. i+1 \in 0 .. n /\ (i+1)-1 = i /\ i+1 \in 1 .. n /\ i \in 0 .. n
    BY <1>0
  <2>2. cmax[i] \in T /\ tips[i+1] \in T /\ Good(cmax[i])
    BY <1>0, <1>3, <1>5, <2>1
  <2>3. cmax[i+1] = IF better_mc(cmax[i], tips[i+1], k, T) THEN tips[i+1] ELSE cmax[i]
    <3>1. cmax[i+1] = pick[<< cmax[i], tips[i+1] >>]
      BY <1>3, <2>1
    <3>2. pick[<< cmax[i], tips[i+1] >>] =
          IF better_mc(cmax[i], tips[i+1], k, T) THEN tips[i+1] ELSE cmax[i]
      BY <1>1, <2>2, Zenon
    <3> QED BY <3>1, <3>2, Zenon
  <2>4. CASE better_mc(cmax[i], tips[i+1], k, T)
    <3>1. Len(cmax[i]) < Len(tips[i+1])
      BY <2>2, <2>4, BetterIsLonger
    <3>2. /\ Len(local) =< Len(cmax[i]) /\ Len(local) \in Nat /\ Len(cmax[i]) \in Nat
          /\ Len(tips[i+1]) \in Nat
      BY <2>2 DEF Tree
    <3> QED BY <1>0, <2>1, <2>3, <2>4, <3>1, <3>2
  <2>5. CASE ~ better_mc(cmax[i], tips[i+1], k, T)
    BY <2>1, <2>2, <2>3, <2>5
  <2> QED BY <2>4, <2>5
<1>6. n \in I
  <2>1. 0 .. n \subseteq I
    <3> HIDE DEF I, n
    <3> QED BY <1>0, <1>4, <1>5, BoundedInduction
  <2> QED BY <1>0, <2>1
<1> QED BY <1>2, <1>6

(***************************************************************************)
(* A block of the list one higher than the chain followed, that leaves it  *)
(* no more than k below, is not passed by: until its turn the loop of      *)
(* maxvalid_mc has the chain followed, or one as high as that block.       *)
(***************************************************************************)
LEMMA MaxvalidMcFinds ==
  ASSUME NEW H, NEW T, Tree(T, H), NEW local \in T, NEW tips \in Seq(T), NEW k \in Nat,
         NEW b \in Range(tips), Len(b) = Len(local) + 1,
         NEW c \in T, Below(c, local), Below(c, b), Len(local) - Len(c) =< k
  PROVE  Len(local) < Len(maxvalid_mc(local, tips, k, T))
<1> DEFINE n == Len(tips)
           pick == [p \in T \X T |-> IF better_mc(p[1], p[2], k, T) THEN p[2] ELSE p[1]]
           cmax == CHOOSE f : f = [i \in 0 .. n |->
                                     IF i = 0 THEN local ELSE pick[<< f[i-1], tips[i] >>]]
           Good(i) == \/ cmax[i] = local /\ \A j \in 1 .. i : tips[j] # b
                      \/ Len(local) < Len(cmax[i])
           I == { i \in 0 .. n : Good(i) }
<1>0. n \in Nat /\ \A i \in 1 .. n : tips[i] \in T
  OBVIOUS
<1>1. /\ pick \in [T \X T -> T]
      /\ \A d, f \in T : pick[<< d, f >>] = IF better_mc(d, f, k, T) THEN f ELSE d
  OBVIOUS
<1>2. maxvalid_mc(local, tips, k, T) = cmax[n]
  BY DEF maxvalid_mc
<1> HIDE DEF pick
<1>3. /\ cmax[0] = local
      /\ \A i \in 0 .. n : cmax[i] \in T
      /\ \A i \in 1 .. n : cmax[i] = pick[<< cmax[i-1], tips[i] >>]
  <2>1. cmax = CHOOSE f : PickRun(f, local, tips, pick)
    BY DEF PickRun
  <2> HIDE DEF cmax
  <2>2. PickSteps(cmax, T, local, tips, pick)
    BY <1>1, <2>1, PickLoop
  <2> QED BY <2>2 DEF PickSteps
<1> HIDE DEF cmax
<1>4. 0 \in I
  BY <1>0, <1>3
<1>5. better_mc(local, b, k, T)
  <2>1. b \in T /\ \A d \in T : d \in Seq(H) /\ Len(d) \in Nat
    <3>1. PICK i \in 1 .. n : b = tips[i]
      BY RangeEquality
    <3> HIDE DEF n
    <3>2. b \in T
      BY <1>0, <3>1
    <3>3. \A d \in T : d \in Seq(H) /\ Len(d) \in Nat
      BY DEF Tree
    <3> QED BY <3>2, <3>3
  <2> DEFINE p == fork_point(local, b, T)
  <2>2. /\ Len(p) \in Nat /\ Below(p, local)
        /\ \A d \in Seq(H) : Below(d, local) /\ Below(d, b) => Len(d) =< Len(p)
    BY <2>1, ForkPointProperties
  <2> HIDE DEF p
  <2>3. Len(c) =< Len(p)
    BY <2>1, <2>2
  <2>4. Len(local) - Len(p) =< k /\ Len(local) - Len(p) < Len(b) - Len(p)
    BY <2>1, <2>2, <2>3
  <2> QED BY <2>4 DEF better_mc, common_prefix_depth, p
<1>6. ASSUME NEW i \in 0 .. n-1, i \in I PROVE i+1 \in I
  <2>1. i+1 \in 0 .. n /\ (i+1)-1 = i /\ i+1 \in 1 .. n /\ i \in 0 .. n
    BY <1>0
  <2>2. cmax[i] \in T /\ tips[i+1] \in T /\ Good(i)
    BY <1>0, <1>3, <1>6, <2>1
  <2>3. cmax[i+1] = IF better_mc(cmax[i], tips[i+1], k, T) THEN tips[i+1] ELSE cmax[i]
    <3>1. cmax[i+1] = pick[<< cmax[i], tips[i+1] >>]
      BY <1>3, <2>1
    <3>2. pick[<< cmax[i], tips[i+1] >>] =
          IF better_mc(cmax[i], tips[i+1], k, T) THEN tips[i+1] ELSE cmax[i]
      BY <1>1, <2>2, Zenon
    <3> QED BY <3>1, <3>2, Zenon
  <2>4. /\ Len(local) \in Nat /\ Len(cmax[i]) \in Nat /\ Len(tips[i+1]) \in Nat
    <3>1. \A d \in T : Len(d) \in Nat
      BY DEF Tree
    <3> QED BY <2>2, <3>1, Zenon
  <2>5. CASE better_mc(cmax[i], tips[i+1], k, T)
    <3>1. Len(cmax[i]) < Len(tips[i+1])
      BY <2>2, <2>5, BetterIsLonger
    <3>2. Len(local) < Len(cmax[i+1])
      BY <2>2, <2>3, <2>4, <2>5, <3>1
    <3> QED BY <2>1, <3>2
  <2>6. CASE ~ better_mc(cmax[i], tips[i+1], k, T)
    <3>1. cmax[i+1] = cmax[i]
      BY <2>3, <2>6
    <3>2. CASE Len(local) < Len(cmax[i])
      BY <2>1, <3>1, <3>2
    <3>3. CASE cmax[i] = local /\ \A j \in 1 .. i : tips[j] # b
      <4>1. tips[i+1] # b
        BY <1>5, <2>6, <3>3
      <4> QED BY <2>1, <3>1, <3>3, <4>1
    <3> QED BY <2>2, <3>2, <3>3
  <2> QED BY <2>5, <2>6
<1>7. n \in I
  <2>1. 0 .. n \subseteq I
    <3> HIDE DEF I, n
    <3> QED BY <1>0, <1>4, <1>6, BoundedInduction
  <2> QED BY <1>0, <2>1
<1>8. \E j \in 1 .. n : tips[j] = b
  BY RangeEquality
<1> QED BY <1>2, <1>7, <1>8

\* What the loop of maxvalid_bg returns: the chain it was given, or one of the list.
LEMMA MaxvalidBg ==
  ASSUME NEW H, NEW T, Tree(T, H), NEW local \in T, NEW tips \in Seq(T), NEW k, NEW s
  PROVE  LET r == maxvalid_bg(local, tips, k, s, T) IN
         r = local \/ r \in Range(tips)
<1> DEFINE n == Len(tips)
           pick == [p \in T \X T |-> IF better_bg(p[1], p[2], k, s, T) THEN p[2] ELSE p[1]]
           cmax == CHOOSE f : f = [i \in 0 .. n |->
                                     IF i = 0 THEN local ELSE pick[<< f[i-1], tips[i] >>]]
           I == { i \in 0 .. n : cmax[i] = local \/ cmax[i] \in Range(tips) }
<1>0. n \in Nat /\ \A i \in 1 .. n : tips[i] \in T /\ tips[i] \in Range(tips)
  BY RangeEquality
<1>1. /\ pick \in [T \X T -> T]
      /\ \A c, f \in T : pick[<< c, f >>] \in {c, f}
  OBVIOUS
<1>2. maxvalid_bg(local, tips, k, s, T) = cmax[n]
  BY DEF maxvalid_bg
<1> HIDE DEF pick
<1>3. /\ cmax[0] = local
      /\ \A i \in 0 .. n : cmax[i] \in T
      /\ \A i \in 1 .. n : cmax[i] = pick[<< cmax[i-1], tips[i] >>]
  <2>1. cmax = CHOOSE f : PickRun(f, local, tips, pick)
    BY DEF PickRun
  <2> HIDE DEF cmax
  <2>2. PickSteps(cmax, T, local, tips, pick)
    BY <1>1, <2>1, PickLoop
  <2> QED BY <2>2 DEF PickSteps
<1> HIDE DEF cmax
<1>4. 0 \in I
  BY <1>0, <1>3
<1>5. ASSUME NEW i \in 0 .. n-1, i \in I PROVE i+1 \in I
  <2>1. i+1 \in 0 .. n /\ (i+1)-1 = i /\ i+1 \in 1 .. n /\ i \in 0 .. n
    BY <1>0
  <2>2. cmax[i+1] \in {cmax[i], tips[i+1]}
    BY <1>0, <1>1, <1>3, <2>1
  <2> QED BY <1>0, <1>5, <2>1, <2>2
<1>6. n \in I
  <2>1. 0 .. n \subseteq I
    <3> HIDE DEF I, n
    <3> QED BY <1>0, <1>4, <1>5, BoundedInduction
  <2> QED BY <1>0, <2>1
<1> QED BY <1>2, <1>6
---------------------------------------------------------------------------
\* The two list operations.

NoRepeats(list) == \A i, j \in 1 .. Len(list) : list[i] = list[j] => i = j

LEMMA ListRemove ==
  ASSUME NEW X, NEW list \in Seq(X), NEW e, NoRepeats(list)
  PROVE  LET r == list_remove(list, e) IN
         r \in Seq(X) /\ Range(r) = Range(list) \ {e} /\ NoRepeats(r)
<1> DEFINE n == Len(list)
<1>0. n \in Nat /\ \A i \in 1 .. n : list[i] \in X
  OBVIOUS
<1>1. CASE ~ \E i \in 1 .. n : list[i] = e
  <2>1. list_remove(list, e) = list
    BY <1>1 DEF list_remove
  <2>2. e \notin Range(list)
    BY <1>1, RangeEquality
  <2> QED BY <2>1, <2>2
<1>2. CASE \E i \in 1 .. n : list[i] = e
  <2>1. PICK m \in 1 .. n : list[m] = e
    BY <1>2
  <2>2. \A j \in 1 .. n : list[j] = e => j = m
    BY <2>1 DEF NoRepeats
  <2> DEFINE first == CHOOSE i \in 1 .. n : list[i] = e /\ \A j \in 1 .. i-1 : list[j] # e
  <2>3. first = m
    <3>1. \A j \in 1 .. m-1 : j \in 1 .. n /\ j # m
      BY <1>0
    <3>2. \A j \in 1 .. m-1 : list[j] # e
      BY <2>2, <3>1
    <3> HIDE DEF n
    <3> QED BY <2>1, <2>2, <3>2
  <2> DEFINE r == SubSeq(list, 1, m-1) \o SubSeq(list, m+1, n)
  <2>4. list_remove(list, e) = r
    <3> HIDE DEF first
    <3> QED BY <1>2, <2>3 DEF list_remove, first
  <2>5. /\ r \in Seq(X)
        /\ Len(r) = n - 1
        /\ \A i \in 1 .. n-1 : r[i] = IF i < m THEN list[i] ELSE list[i+1]
    <3>1. SubSeq(list, 1, m-1) \in Seq(X) /\ Len(SubSeq(list, 1, m-1)) = m-1
            /\ \A i \in 1 .. m-1 : SubSeq(list, 1, m-1)[i] = list[i]
      BY <1>0
    <3>2. SubSeq(list, m+1, n) \in Seq(X) /\ Len(SubSeq(list, m+1, n)) = n-m
            /\ \A i \in 1 .. n-m : SubSeq(list, m+1, n)[i] = list[m+i]
      BY <1>0
    <3> HIDE DEF n
    <3> QED BY <1>0, <3>1, <3>2, ConcatProperties
  <2>6. Range(r) = Range(list) \ {e}
    <3>1. Range(r) = { r[i] : i \in 1 .. n-1 }
      BY <2>5, RangeEquality
    <3>2. Range(list) = { list[i] : i \in 1 .. n }
      BY RangeEquality
    <3>3. ASSUME NEW i \in 1 .. n-1 PROVE \E j \in 1 .. n : j # m /\ r[i] = list[j]
      <4> HIDE DEF r
      <4>1. CASE i < m
        BY <1>0, <2>5, <4>1
      <4>2. CASE ~ (i < m)
        <5>1. i+1 \in 1 .. n /\ i+1 # m
          BY <1>0, <4>2
        <5> QED BY <2>5, <4>2, <5>1
      <4> QED BY <4>1, <4>2
    <3>4. ASSUME NEW j \in 1 .. n, j # m PROVE \E i \in 1 .. n-1 : r[i] = list[j]
      <4> HIDE DEF r
      <4>1. CASE j < m
        <5>1. j \in 1 .. n-1
          BY <1>0, <4>1
        <5> QED BY <2>5, <4>1, <5>1
      <4>2. CASE ~ (j < m)
        <5>1. j-1 \in 1 .. n-1 /\ ~ (j-1 < m) /\ (j-1)+1 = j
          BY <1>0, <3>4, <4>2
        <5> QED BY <2>5, <5>1
      <4> QED BY <4>1, <4>2
    <3> HIDE DEF r, n
    <3>5. ASSUME NEW x \in Range(r) PROVE x \in Range(list) /\ x # e
      <4>1. PICK i \in 1 .. n-1 : x = r[i]
        BY <3>1
      <4>2. PICK j \in 1 .. n : j # m /\ r[i] = list[j]
        BY <3>3
      <4> QED BY <2>2, <3>2, <4>1, <4>2
    <3>6. ASSUME NEW x \in Range(list), x # e PROVE x \in Range(r)
      <4>1. PICK j \in 1 .. n : x = list[j]
        BY <3>2
      <4>2. j # m
        BY <2>1, <3>6, <4>1
      <4>3. PICK i \in 1 .. n-1 : r[i] = list[j]
        BY <3>4, <4>2
      <4> QED BY <3>1, <4>1, <4>3
    <3> QED BY <3>5, <3>6
  <2>7. NoRepeats(r)
    <3> SUFFICES ASSUME NEW i \in 1 .. n-1, NEW j \in 1 .. n-1, r[i] = r[j] PROVE i = j
      BY <2>5 DEF NoRepeats
    <3> HIDE DEF r
    <3>1. i \in 1 .. n /\ i+1 \in 1 .. n /\ j \in 1 .. n /\ j+1 \in 1 .. n
      BY <1>0
    <3>2. \A x, y \in 1 .. n : list[x] = list[y] => x = y
      BY DEF NoRepeats
    <3> QED BY <1>0, <2>5, <3>1, <3>2
  <2> HIDE DEF r
  <2> QED BY <2>4, <2>5, <2>6, <2>7
<1> QED BY <1>1, <1>2

LEMMA ListAppend ==
  ASSUME NEW X, NEW list \in Seq(X), NEW e \in X
  PROVE  LET r == Append(list, e) IN
         /\ r \in Seq(X) /\ Range(r) = Range(list) \cup {e}
         /\ NoRepeats(list) /\ e \notin Range(list) => NoRepeats(r)
<1> DEFINE n == Len(list)
           r == Append(list, e)
<1>0. n \in Nat /\ r \in Seq(X) /\ Len(r) = n+1 /\ r[n+1] = e
        /\ \A i \in 1 .. n : r[i] = list[i]
  BY AppendProperties
<1>1. Range(list) = { list[i] : i \in 1 .. n } /\ Range(r) = { r[i] : i \in 1 .. n+1 }
  BY <1>0, RangeEquality
<1> HIDE DEF r, n
<1>2. \A i : i \in 1 .. n+1 <=> i = n+1 \/ i \in 1 .. n
  BY <1>0
<1>3. Range(r) = Range(list) \cup {e}
  <2>1. ASSUME NEW x \in Range(r) PROVE x \in Range(list) \cup {e}
    <3>1. PICK i \in 1 .. n+1 : x = r[i]
      BY <1>1
    <3> QED BY <1>0, <1>1, <1>2, <3>1
  <2>2. ASSUME NEW x \in Range(list) PROVE x \in Range(r)
    <3>1. PICK i \in 1 .. n : x = list[i]
      BY <1>1
    <3> QED BY <1>0, <1>1, <1>2, <3>1
  <2>3. e \in Range(r)
    BY <1>0, <1>1, <1>2
  <2> QED BY <2>1, <2>2, <2>3
<1>4. ASSUME NoRepeats(list), e \notin Range(list) PROVE NoRepeats(r)
  <2> SUFFICES ASSUME NEW i \in 1 .. n+1, NEW j \in 1 .. n+1, r[i] = r[j] PROVE i = j
    BY <1>0 DEF NoRepeats
  <2>1. \A x, y \in 1 .. n : list[x] = list[y] => x = y
    BY <1>4 DEF NoRepeats, n
  <2>2. \A x \in 1 .. n : list[x] # e
    BY <1>1, <1>4
  <2> QED BY <1>0, <1>2, <2>1, <2>2
<1> QED BY <1>0, <1>3, <1>4 DEF r

LEMMA ListKeep ==
  ASSUME NEW X, NEW list \in Seq(X), NEW wanted, NoRepeats(list)
  PROVE  LET r == list_keep(list, wanted) IN
         r \in Seq(X) /\ Range(r) = Range(list) \cap wanted /\ NoRepeats(r)
<1> DEFINE n == Len(list)
           Y == Seq(X)
           Loop(f) == [i \in 0 .. n |->
                         IF i = 0 THEN << >>
                         ELSE IF list[i] \in wanted THEN Append(f[i-1], list[i]) ELSE f[i-1]]
           out == CHOOSE f : f = Loop(f)
           g == [p \in Y \X (1 .. n) |->
                   IF list[p[2]] \in wanted THEN Append(p[1], list[p[2]]) ELSE p[1]]
           Seen(i) == { x \in X : \E j \in 1 .. i : list[j] = x }
           Good(i, r) == r \in Y /\ Range(r) = Seen(i) \cap wanted /\ NoRepeats(r)
           I == { i \in 0 .. n : Good(i, out[i]) }
<1>0. n \in Nat /\ << >> \in Y /\ \A i \in 1 .. n : list[i] \in X
  OBVIOUS
<1>1. g \in Body(Y, n)
  BY <1>0, AppendProperties DEF Body
<1>2. PICK f : LoopRun(f, n, Y, << >>, g)
  <2> HIDE DEF g, n, Y
  <2> QED BY <1>0, <1>1, LoopRuns
<1>3. f = Loop(f)
  <2>1. ASSUME NEW i \in 1 .. n PROVE f[i] = Loop(f)[i]
    <3>1. i-1 \in 0 .. n /\ i \in 0 .. n /\ i # 0
      BY <1>0
    <3>2. << f[i-1], i >> \in Y \X (1 .. n)
      <4> HIDE DEF Y
      <4> QED BY <1>2, <3>1 DEF LoopRun
    <3> HIDE DEF Y
    <3> QED BY <1>2, <3>1, <3>2 DEF LoopRun
  <2>2. f[0] = Loop(f)[0]
    BY <1>0, <1>2 DEF LoopRun
  <2>3. \A i \in 0 .. n : i = 0 \/ i \in 1 .. n
    BY <1>0
  <2> HIDE DEF Y
  <2> QED BY <1>2, <2>1, <2>2, <2>3 DEF LoopRun
<1>4. out = Loop(out)
  <2> HIDE DEF Loop
  <2> QED BY <1>3
<1>5. 0 \in I
  <2>1. out[0] = << >>
    <3> HIDE DEF out
    <3> QED BY <1>0, <1>4
  <2>2. Good(0, << >>)
    <3>1. Range(<< >>) = {}
      BY DEF Range
    <3>2. Seen(0) = {}
      OBVIOUS
    <3>3. NoRepeats(<< >>)
      BY DEF NoRepeats
    <3> QED BY <1>0, <3>1, <3>2, <3>3
  <2> HIDE DEF out, Good
  <2> QED BY <1>0, <2>1, <2>2
<1>6. ASSUME NEW i \in 0 .. n-1, i \in I PROVE i+1 \in I
  <2>1. i+1 \in 0 .. n /\ i+1 # 0 /\ (i+1)-1 = i /\ i+1 \in 1 .. n
    BY <1>0
  <2>2. out[i+1] = IF list[i+1] \in wanted THEN Append(out[i], list[i+1]) ELSE out[i]
    <3> HIDE DEF out
    <3> QED BY <1>4, <2>1
  <2>3. Good(i, out[i])
    BY <1>6
  <2>4. Seen(i+1) = Seen(i) \cup {list[i+1]} /\ list[i+1] \notin Seen(i)
    <3>1. \A j : j \in 1 .. i+1 <=> j = i+1 \/ j \in 1 .. i
      BY <1>0
    <3>2. \A j \in 1 .. i : j \in 1 .. n /\ j # i+1
      BY <1>0
    <3>3. \A j \in 1 .. i : list[j] # list[i+1]
      BY <2>1, <3>2 DEF NoRepeats
    <3> QED BY <1>0, <2>1, <3>1, <3>3
  <2> HIDE DEF out, Seen
  <2>5. CASE list[i+1] \in wanted
    <3> DEFINE r == Append(out[i], list[i+1])
    <3>1. out[i+1] = r
      BY <2>2, <2>5
    <3>2. r \in Y /\ Range(r) = Range(out[i]) \cup {list[i+1]} /\ NoRepeats(r)
      BY <1>0, <2>1, <2>3, <2>4, ListAppend
    <3>3. Range(r) = Seen(i+1) \cap wanted
      <4> HIDE DEF r
      <4> QED BY <2>3, <2>4, <2>5, <3>2
    <3> HIDE DEF r
    <3> QED BY <2>1, <3>1, <3>2, <3>3
  <2>6. CASE list[i+1] \notin wanted
    <3>1. out[i+1] = out[i] /\ Seen(i+1) \cap wanted = Seen(i) \cap wanted
      BY <2>2, <2>4, <2>6
    <3> QED BY <2>1, <2>3, <3>1
  <2> QED BY <2>5, <2>6
<1>7. n \in I
  <2>1. 0 .. n \subseteq I
    <3> HIDE DEF I, n
    <3> QED BY <1>0, <1>5, <1>6, BoundedInduction
  <2> HIDE DEF I, n
  <2> QED BY <1>0, <2>1
<1>8. list_keep(list, wanted) = out[n]
  BY DEF list_keep
<1>9. Seen(n) = Range(list)
  BY <1>0, RangeEquality
<1> HIDE DEF out, Seen
<1> QED BY <1>7, <1>8, <1>9

---------------------------------------------------------------------------
\* The tip and the fork list of a tree are its leaves.
Consistent(T, tip, tips) ==
  /\ Tree(T, Header)
  /\ tip \in T /\ tips \in Seq(T)
  /\ NoRepeats(tips) /\ tip \notin Range(tips)
  /\ {tip} \cup Range(tips) = leaves_of(T)

OnLine(T, root) == \A b \in T : Below(root, b) \/ Below(b, root)

(***************************************************************************)
(* Adding a block to a tree makes it a leaf in the place of its parent.    *)
(***************************************************************************)
LEMMA AddToTree ==
  ASSUME NEW T, Tree(T, Header), NEW b \in Seq(Header), b \notin T, parent(b) \in T
  PROVE  /\ Tree(T \cup {b}, Header)
         /\ leaves_of(T \cup {b}) = (leaves_of(T) \ {parent(b)}) \cup {b}
         /\ b # Genesis /\ parent(b) # b
<1>1. b # Genesis
  BY DEF Tree
<1>2. parent(b) # b
  BY <1>1, ParentProperties
<1>3. Tree(T \cup {b}, Header)
  BY DEF Tree
<1>4. \A c \in T \ {Genesis} : parent(c) \in T /\ parent(c) # b
  BY DEF Tree
<1>5. leaves_of(T \cup {b}) = (leaves_of(T) \ {parent(b)}) \cup {b}
  BY <1>1, <1>2, <1>4 DEF leaves_of
<1> QED BY <1>1, <1>2, <1>3, <1>5

LEMMA ExtendIsConsistent ==
  ASSUME NEW T, NEW tip, NEW tips, Consistent(T, tip, tips),
         NEW b \in Seq(Header), b \notin T, parent(b) = tip
  PROVE  Consistent(T \cup {b}, b, tips)
<1>1. /\ Tree(T \cup {b}, Header)
      /\ leaves_of(T \cup {b}) = (leaves_of(T) \ {tip}) \cup {b}
  BY AddToTree DEF Consistent
<1>2. Range(tips) \subseteq T /\ tips \in Seq(T \cup {b})
  BY RangeOfSeq, SeqMonotonic DEF Consistent
<1>3. leaves_of(T) \ {tip} = Range(tips)
  BY DEF Consistent
<1> QED BY <1>1, <1>2, <1>3 DEF Consistent

LEMMA ForkIsConsistent ==
  ASSUME NEW T, NEW tip, NEW tips, Consistent(T, tip, tips),
         NEW b \in Seq(Header), b \notin T, parent(b) \in T, parent(b) # tip,
         NEW T1, T1 = T \cup {b},
         NEW tips1, tips1 = list_remove(Append(tips, b), parent(b))
  PROVE  /\ Tree(T1, Header) /\ tips1 \in Seq(T1)
         /\ Range(tips1) \cup {tip} = leaves_of(T1)
         /\ \A new \in {tip} \cup Range(tips1) :
              Consistent(T1, new, list_remove(Append(tips1, tip), new))
<1>1. /\ Tree(T1, Header)
      /\ leaves_of(T1) = (leaves_of(T) \ {parent(b)}) \cup {b}
      /\ parent(b) # b
  BY AddToTree DEF Consistent
<1>2. Range(tips) \subseteq T /\ tips \in Seq(T1) /\ NoRepeats(tips)
        /\ tip \in T /\ tip \notin Range(tips) /\ {tip} \cup Range(tips) = leaves_of(T)
  BY RangeOfSeq, SeqMonotonic DEF Consistent
<1> DEFINE a == Append(tips, b)
<1>3. a \in Seq(T1) /\ Range(a) = Range(tips) \cup {b} /\ NoRepeats(a)
  BY <1>2, ListAppend
<1> HIDE DEF a
<1>4. /\ tips1 \in Seq(T1) /\ NoRepeats(tips1)
      /\ Range(tips1) = (Range(tips) \cup {b}) \ {parent(b)}
  <2>1. tips1 = list_remove(a, parent(b))
    BY DEF a
  <2> QED BY <1>3, <2>1, ListRemove
<1>5. Range(tips1) \cup {tip} = leaves_of(T1)
  BY <1>1, <1>2, <1>4
<1>6. tip \in T1 /\ tip \notin Range(tips1)
  BY <1>2, <1>4
<1> DEFINE c == Append(tips1, tip)
<1>7. c \in Seq(T1) /\ Range(c) = Range(tips1) \cup {tip} /\ NoRepeats(c)
  BY <1>4, <1>6, ListAppend
<1> HIDE DEF c
<1>8. ASSUME NEW new \in {tip} \cup Range(tips1)
      PROVE Consistent(T1, new, list_remove(Append(tips1, tip), new))
  <2> DEFINE r == list_remove(c, new)
  <2>1. r \in Seq(T1) /\ NoRepeats(r) /\ Range(r) = (Range(tips1) \cup {tip}) \ {new}
    BY <1>7, ListRemove
  <2>2. new \in T1
    BY <1>4, <1>6, RangeOfSeq
  <2> HIDE DEF r
  <2>3. {new} \cup Range(r) = leaves_of(T1)
    BY <1>5, <2>1
  <2> QED BY <1>1, <2>1, <2>2, <2>3 DEF Consistent, c, r
<1> QED BY <1>1, <1>4, <1>5, <1>8

(***************************************************************************)
(* Pruning to one line of a tree keeps it a tree and changes no kept       *)
(* block's children: a block below the root keeps the next one towards it, *)
(* a block above the root keeps them all.                                  *)
(***************************************************************************)
LEMMA KeptIsLine ==
  ASSUME NEW T, Tree(T, Header), NEW root \in T
  PROVE  /\ kept(root, T) = { b \in T : Below(root, b) \/ Below(b, root) }
         /\ { f \in T : is_ancestor(root, f, T) } = { f \in T : Below(root, f) }
<1>1. root \in Seq(Header)
  BY DEF Tree
<1>2. \A b \in T : b \in Seq(Header) /\ (is_ancestor(root, b, T) <=> Below(root, b))
                                     /\ (is_ancestor(b, root, T) <=> Below(b, root))
  <2> SUFFICES ASSUME NEW b \in T
               PROVE  /\ b \in Seq(Header)
                      /\ is_ancestor(root, b, T) <=> Below(root, b)
                      /\ is_ancestor(b, root, T) <=> Below(b, root)
    OBVIOUS
  <2>1. b \in Seq(Header)
    BY DEF Tree
  <2>2. is_ancestor(root, b, T) <=> Below(root, b)
    BY <1>1, AncestorIsBelow
  <2>3. is_ancestor(b, root, T) <=> Below(b, root)
    BY <2>1, AncestorIsBelow
  <2> QED BY <2>1, <2>2, <2>3
<1> QED BY <1>2 DEF kept

(***************************************************************************)
(* A block of a tree strictly below another has a child on the way to it.  *)
(***************************************************************************)
LEMMA ChildTowards ==
  ASSUME NEW T, Tree(T, Header), NEW root \in T, NEW f \in T, Below(f, root), f # root
  PROVE  \E d \in T \ {Genesis} : parent(d) = f /\ Below(d, root)
<1>1. f \in Seq(Header) /\ root \in Seq(Header)
  BY DEF Tree
<1>2. Len(f) \in Nat /\ Len(root) \in Nat /\ Len(f) < Len(root)
  <2>1. Len(f) \in Nat /\ Len(root) \in Nat /\ Len(f) =< Len(root)
    BY <1>1 DEF Below
  <2>2. ~ (Len(root) =< Len(f))
    BY <1>1, BelowSameLength
  <2> QED BY <2>1, <2>2
<1> DEFINE d == At(root, Len(f) + 1)
<1>3. Len(f) + 1 \in 0 .. Len(root) /\ Len(f) \in 0 .. Len(f) + 1 /\ (Len(f) + 1) - 1 = Len(f)
  BY <1>2
<1>4. d \in T /\ Len(d) = Len(f) + 1
  BY <1>1, <1>3, TreeHoldsChains, AtProperties
<1>5. At(At(root, Len(f) + 1), Len(f)) = At(root, Len(f))
  BY <1>1, <1>3, AtAt
<1>6. parent(d) = f
  <2>1. At(root, Len(f)) = f
    BY DEF Below
  <2> HIDE DEF d
  <2> QED BY <1>3, <1>4, <1>5, <2>1 DEF parent, d
<1>7. Below(d, root)
  BY <1>3, <1>4 DEF Below
<1>8. d # Genesis
  <2> HIDE DEF d
  <2> QED BY <1>2, <1>4, EmptySeq DEF Genesis
<1> HIDE DEF d
<1> QED BY <1>4, <1>6, <1>7, <1>8

\* So a leaf on one line with a block stands on it.
LEMMA LeafIsAbove ==
  ASSUME NEW T, Tree(T, Header), NEW root \in T, NEW f \in leaves_of(T),
         Below(root, f) \/ Below(f, root)
  PROVE  Below(root, f)
<1>1. root \in Seq(Header) /\ f \in T
  BY DEF Tree, leaves_of
<1>2. CASE Below(f, root) /\ f # root
  <2>1. \E d \in T \ {Genesis} : parent(d) = f
    BY <1>1, <1>2, ChildTowards
  <2> QED BY <2>1 DEF leaves_of
<1> QED BY <1>1, <1>2, BelowReflexive

LEMMA PruneIsConsistent ==
  ASSUME NEW T, NEW tip, NEW tips, Consistent(T, tip, tips),
         NEW root \in T, Below(root, tip)
  PROVE  LET T2 == kept(root, T)
             tips2 == list_keep(tips, { f \in T : is_ancestor(root, f, T) }) IN
         Consistent(T2, tip, tips2) /\ root \in T2 /\ OnLine(T2, root) /\ T2 \subseteq T
<1> DEFINE T2 == kept(root, T)
           above == { f \in T : is_ancestor(root, f, T) }
           tips2 == list_keep(tips, above)
<1>0. /\ Tree(T, Header) /\ tip \in T /\ tips \in Seq(T) /\ NoRepeats(tips)
      /\ tip \notin Range(tips) /\ {tip} \cup Range(tips) = leaves_of(T)
      /\ root \in Seq(Header) /\ \A b \in T : b \in Seq(Header)
  BY DEF Consistent, Tree
<1>1. /\ T2 = { b \in T : Below(root, b) \/ Below(b, root) }
      /\ above = { f \in T : Below(root, f) }
  BY <1>0, KeptIsLine
<1>2. tips2 \in Seq(T) /\ Range(tips2) = Range(tips) \cap above /\ NoRepeats(tips2)
  BY <1>0, ListKeep
<1> HIDE DEF T2, above, tips2
<1>3. Tree(T2, Header)
  <2>1. Genesis \in T2
    BY <1>0, <1>1, BelowReflexive DEF Tree
  <2>2. ASSUME NEW b \in T2 \ {Genesis} PROVE parent(b) \in T2
    <3>1. b \in T /\ b \in Seq(Header) /\ parent(b) \in T
      BY <1>0, <1>1, <2>2 DEF Tree
    <3>2. parent(b) \in Seq(Header) /\ Below(parent(b), b)
            /\ \A a \in Seq(Header) : Below(a, b) => a = b \/ Below(a, parent(b))
      BY <2>2, <3>1, ParentProperties
    <3>3. CASE Below(b, root)
      <4>1. Below(parent(b), root)
        BY <1>0, <3>1, <3>2, <3>3, BelowTransitive
      <4> QED BY <1>1, <3>1, <4>1
    <3>4. CASE Below(root, b)
      <4>1. root = b \/ Below(root, parent(b))
        BY <1>0, <3>2, <3>4
      <4> QED BY <1>1, <3>1, <3>2, <4>1
    <3> QED BY <1>1, <3>3, <3>4
  <2> QED BY <1>0, <1>1, <2>1, <2>2 DEF Tree
<1>4. tip \in T2 /\ root \in T2
  BY <1>0, <1>1, BelowReflexive
<1>5. \A f \in leaves_of(T) : f \in T2 => f \in above
  <2>1. \A f \in leaves_of(T) : f \in T
    BY DEF leaves_of
  <2>2. \A f \in leaves_of(T) : Below(root, f) \/ Below(f, root) => Below(root, f)
    BY <1>0, LeafIsAbove
  <2> QED BY <1>1, <2>1, <2>2
<1>6. leaves_of(T2) = leaves_of(T) \cap T2
  <2>1. T2 \subseteq T
    BY <1>1
  <2>2. ASSUME NEW f \in leaves_of(T2), f \notin leaves_of(T) PROVE FALSE
    <3>1. f \in T2 /\ f \in T
      BY <2>1 DEF leaves_of
    <3>2. PICK c \in T \ {Genesis} : parent(c) = f
      BY <2>2, <3>1 DEF leaves_of
    <3>3. c \notin T2
      BY <2>1, <3>2 DEF leaves_of
    <3>4. c \in Seq(Header) /\ f \in Seq(Header) /\ Below(f, c)
      BY <1>0, <3>1, <3>2, ParentProperties
    <3>5. CASE Below(root, f)
      <4>1. Below(root, c)
        BY <1>0, <3>4, <3>5, BelowTransitive
      <4> QED BY <1>1, <3>2, <3>3, <4>1
    <3>6. CASE ~ Below(root, f)
      <4>1. Below(f, root) /\ f # root
        BY <1>0, <1>1, <3>1, <3>6, BelowReflexive
      <4>2. PICK d \in T \ {Genesis} : parent(d) = f /\ Below(d, root)
        BY <1>0, <3>1, <4>1, ChildTowards
      <4> QED BY <1>1, <2>2, <4>2 DEF leaves_of
    <3> QED BY <3>5, <3>6
  <2>3. ASSUME NEW f \in leaves_of(T), f \in T2 PROVE f \in leaves_of(T2)
    BY <2>1, <2>3 DEF leaves_of
  <2>4. leaves_of(T2) \subseteq T2
    BY DEF leaves_of
  <2> QED BY <2>2, <2>3, <2>4
<1>7. {tip} \cup Range(tips2) = leaves_of(T2)
  <2>1. above \subseteq T2
    BY <1>1
  <2> QED BY <1>0, <1>2, <1>4, <1>5, <1>6, <2>1
<1>8. tips2 \in Seq(T2)
  <2>1. Range(tips2) \subseteq T2
    BY <1>1, <1>2
  <2>2. tips2 \in Seq(Range(tips2))
    BY <1>2, SeqOfRange
  <2> QED BY <2>1, <2>2, SeqMonotonic
<1>9. OnLine(T2, root) /\ T2 \subseteq T
  BY <1>1 DEF OnLine
<1> QED BY <1>0, <1>2, <1>3, <1>4, <1>7, <1>8, <1>9 DEF Consistent, T2, tips2, above

-------------------------------------------------------------------------
\* The block K deep on a chain, or genesis.
deep(tip) == IF K =< Len(tip) THEN At(tip, Len(tip) - K) ELSE Genesis

\* The part of the inductive invariant that no way of driving the node can break.
TreeInv ==
  /\ states \subseteq Blocks
  /\ Consistent(states, local_chain, forks)
  /\ lib \in states
  /\ Below(lib, local_chain)
  /\ OnLine(states, lib)
  /\ state \in {"ONLINE", "BOOTSTRAPPING"}
  /\ state = "ONLINE" => lib = deep(local_chain)

\* What holds as well when nobody sends an online node back to bootstrapping.
BootInv == state = "BOOTSTRAPPING" => lib = Genesis

LEMMA DeepProperties ==
  ASSUME NEW T, Tree(T, Header), NEW tip \in T
  PROVE  /\ kth_back(tip, K, Genesis, T) = deep(tip)
         /\ deep(tip) \in T /\ deep(tip) \in Seq(Header)
         /\ Below(deep(tip), tip)
         /\ Len(tip) - Len(deep(tip)) =< K
         /\ \A b \in T : Len(tip) =< Len(b) => Len(deep(tip)) =< Len(deep(b))
<1>0. K \in Nat /\ tip \in Seq(Header) /\ Len(tip) \in Nat
  BY ConfigAssumption DEF Tree
<1>1. iter_chain(tip, T) = { At(tip, h) : h \in 0 .. Len(tip) }
  BY ChainOf
<1>2. \A h \in 0 .. Len(tip) : Len(At(tip, h)) = h /\ At(tip, h) \in T
  BY <1>0, AtProperties, TreeHoldsChains
<1>3. kth_back(tip, K, Genesis, T) = deep(tip)
  <2>1. CASE K =< Len(tip)
    <3>1. Len(tip) - K \in 0 .. Len(tip)
      BY <1>0, <2>1
    <3>2. At(tip, Len(tip) - K) \in iter_chain(tip, T)
            /\ Len(At(tip, Len(tip) - K)) = Len(tip) - K
      BY <1>1, <1>2, <3>1
    <3> QED BY <2>1, <3>2 DEF kth_back, deep
  <2>2. CASE ~ (K =< Len(tip))
    <3>1. \A c \in iter_chain(tip, T) : Len(c) \in 0 .. Len(tip)
      BY <1>1, <1>2
    <3>2. \A c \in iter_chain(tip, T) : Len(c) # Len(tip) - K
      BY <1>0, <2>2, <3>1
    <3> QED BY <2>2, <3>2 DEF kth_back, deep
  <2> QED BY <2>1, <2>2
<1>4. \A b \in T : /\ b \in Seq(Header) /\ Len(b) \in Nat
                   /\ K =< Len(b) => Len(deep(b)) = Len(b) - K /\ deep(b) \in T
                                       /\ Below(deep(b), b)
                   /\ ~ (K =< Len(b)) => Len(deep(b)) = 0 /\ deep(b) \in T
                                       /\ Below(deep(b), b)
  <2> SUFFICES ASSUME NEW b \in T
               PROVE  /\ b \in Seq(Header) /\ Len(b) \in Nat
                      /\ K =< Len(b) => Len(deep(b)) = Len(b) - K /\ deep(b) \in T
                                          /\ Below(deep(b), b)
                      /\ ~ (K =< Len(b)) => Len(deep(b)) = 0 /\ deep(b) \in T
                                          /\ Below(deep(b), b)
    OBVIOUS
  <2>1. b \in Seq(Header) /\ Len(b) \in Nat
    BY DEF Tree
  <2>2. CASE K =< Len(b)
    <3>1. Len(b) - K \in 0 .. Len(b)
      BY <1>0, <2>1, <2>2
    <3>2. Len(At(b, Len(b) - K)) = Len(b) - K /\ At(b, Len(b) - K) \in T
      BY <2>1, <3>1, AtProperties, TreeHoldsChains
    <3>3. deep(b) = At(b, Len(b) - K)
      BY <2>2 DEF deep
    <3> QED BY <2>1, <2>2, <3>1, <3>2, <3>3 DEF Below
  <2>3. CASE ~ (K =< Len(b))
    <3>1. deep(b) = Genesis
      BY <2>3 DEF deep
    <3>2. Len(Genesis) = 0
      BY DEF Genesis
    <3> QED BY <2>1, <2>3, <3>1, <3>2, BelowReflexive DEF Tree
  <2> QED BY <2>1, <2>2, <2>3
<1> QED
  <2>1. deep(tip) \in T /\ deep(tip) \in Seq(Header) /\ Below(deep(tip), tip)
          /\ Len(tip) - Len(deep(tip)) =< K
    <3>1. deep(tip) \in T /\ Below(deep(tip), tip)
      BY <1>0, <1>4
    <3>2. Len(tip) - Len(deep(tip)) =< K
      BY <1>0, <1>4
    <3> QED BY <3>1, <3>2 DEF Tree
  <2>2. ASSUME NEW b \in T, Len(tip) =< Len(b) PROVE Len(deep(tip)) =< Len(deep(b))
    BY <1>0, <1>4, <2>2
  <2> QED BY <1>3, <2>1, <2>2

(***************************************************************************)
(* settle, from a consistent tree that stands on one line with the lib.    *)
(***************************************************************************)
LEMMA Settles ==
  ASSUME NEW tip, NEW tips, NEW ledger,
         Consistent(DOMAIN ledger, tip, tips), DOMAIN ledger \subseteq Blocks,
         lib \in DOMAIN ledger, Below(lib, tip), OnLine(DOMAIN ledger, lib),
         state' \in {"ONLINE", "BOOTSTRAPPING"},
         settle(tip, tips, ledger)
  PROVE  /\ TreeInv' /\ local_chain' = tip
         /\ state' # "ONLINE" => lib' = lib
<1> DEFINE T == DOMAIN ledger
<1>1. Tree(T, Header) /\ tip \in T
  BY DEF Consistent
<1>2. CASE state' = "ONLINE"
  <2> DEFINE root == lib_of(tip, T)
  <2>1. /\ local_chain' = tip
        /\ lib' = root
        /\ forks' = list_keep(tips, { f \in T : is_ancestor(root, f, T) })
        /\ ledger_state' = Restrict(ledger, kept(root, T))
    BY <1>2 DEF settle, update_lib
  <2>2. root = deep(tip) /\ root \in T /\ Below(root, tip)
    BY <1>1, DeepProperties DEF lib_of
  <2>3. states' = kept(root, T)
    BY <2>1 DEF states, Restrict
  <2> HIDE DEF root
  <2>4. /\ Consistent(kept(root, T), tip, list_keep(tips, { f \in T : is_ancestor(root, f, T) }))
        /\ root \in kept(root, T) /\ OnLine(kept(root, T), root) /\ kept(root, T) \subseteq T
    BY <2>2, PruneIsConsistent
  <2>5. Consistent(states', local_chain', forks')
    BY <2>1, <2>3, <2>4
  <2>6. deep(local_chain)' = deep(tip)
    BY <2>1 DEF deep
  <2>7. OnLine(states, lib)' /\ Below(lib, local_chain)'
    BY <2>1, <2>2, <2>3, <2>4 DEF OnLine, Below
  <2>8. Consistent(states, local_chain, forks)'
    BY <2>5 DEF Consistent
  <2> QED BY <1>2, <2>1, <2>2, <2>3, <2>4, <2>6, <2>7, <2>8 DEF TreeInv
<1>3. CASE state' # "ONLINE"
  <2>1. local_chain' = tip /\ lib' = lib /\ forks' = tips /\ ledger_state' = ledger
    BY <1>3 DEF settle
  <2>2. states' = T
    BY <2>1 DEF states
  <2>3. Consistent(states, local_chain, forks)' /\ OnLine(states, lib)' /\ Below(lib, local_chain)'
    BY <2>1, <2>2 DEF OnLine, Below, Consistent
  <2> QED BY <1>3, <2>1, <2>2, <2>3 DEF TreeInv
<1> QED BY <1>2, <1>3

\* Settling forgets blocks and stores no new one.
LEMMA SettledStates ==
  ASSUME NEW tip, NEW tips, NEW ledger, settle(tip, tips, ledger)
  PROVE  /\ local_chain' = tip /\ states' \subseteq DOMAIN ledger
         /\ \A c \in states' : ledger_state'[c] = ledger[c]
<1>1. CASE state' = "ONLINE"
  <2> DEFINE root == lib_of(tip, DOMAIN ledger)
  <2>1. ledger_state' = Restrict(ledger, kept(root, DOMAIN ledger))
    BY <1>1 DEF settle, update_lib
  <2>2. kept(root, DOMAIN ledger) \subseteq DOMAIN ledger
    BY DEF kept
  <2> HIDE DEF root
  <2>3. ledger_state' = [c \in kept(root, DOMAIN ledger) |-> ledger[c]]
    BY <2>1 DEF Restrict
  <2> QED BY <2>2, <2>3 DEF settle, states
<1>2. CASE state' # "ONLINE"
  BY <1>2 DEF settle, states
<1> QED BY <1>1, <1>2

\* A block that passes validate_header's height test stands on the lib.
LEMMA AcceptedStands ==
  ASSUME TreeInv, NEW b \in Blocks, Accepted(b)
  PROVE  Tree(states \cup {b}, Header) /\ b # Genesis /\ Below(lib, b)
<1>1. b \notin states /\ parent(b) \in states /\ ~ below_lib(b)
  BY DEF Accepted, parent_found
<1>2. /\ Tree(states, Header) /\ b \in Seq(Header) /\ lib \in states
      /\ lib \in Seq(Header) /\ states \subseteq Seq(Header)
  BY BlocksAssumption DEF TreeInv, Consistent, Tree
<1>3. b # Genesis /\ Tree(states \cup {b}, Header)
  BY <1>1, <1>2, AddToTree
<1>4. height(parent(b), states) = Len(parent(b)) + 1 /\ height(lib, states) = Len(lib) + 1
        /\ Len(parent(b)) \in Nat /\ Len(lib) \in Nat
  BY <1>1, <1>2, HeightIsLength
<1>5. Len(lib) =< Len(parent(b))
  BY <1>1, <1>4 DEF below_lib
<1>6. Below(lib, parent(b))
  <2>1. CASE Below(parent(b), lib)
    <3>1. parent(b) = lib
      BY <1>1, <1>2, <1>5, <2>1, BelowSameLength
    <3> QED BY <1>2, <3>1, BelowReflexive
  <2> QED BY <1>1, <2>1 DEF TreeInv, OnLine
<1>7. Below(parent(b), b) /\ parent(b) \in Seq(Header)
  BY <1>2, <1>3, ParentProperties
<1>8. Below(lib, b)
  BY <1>2, <1>6, <1>7, BelowTransitive
<1> QED BY <1>3, <1>8

(***************************************************************************)
(* Accepting a block.  Its parent is not below the lib, so the new tip,    *)
(* whichever it is, stands on the lib; online, it is the old one or longer.*)
(***************************************************************************)
LEMMA Accepts ==
  ASSUME TreeInv, NEW b \in Blocks, ExtendLocalChain(b) \/ ExtendFork(b)
  PROVE  /\ TreeInv' /\ state' = state
         /\ Below(lib, local_chain') /\ local_chain' \in Blocks
         /\ local_chain' \in Seq(Header)
         /\ state = "ONLINE" => \/ local_chain' = local_chain
                                \/ Len(local_chain) < Len(local_chain')
         /\ state # "ONLINE" => lib' = lib
<1> DEFINE T == DOMAIN with_block(b)
<1>1. /\ Accepted(b) /\ b \notin states /\ parent(b) \in states /\ ~ below_lib(b)
      /\ state' = state
  BY DEF ExtendLocalChain, ExtendFork, Accepted, parent_found
<1>2. T = states \cup {b}
  BY DEF with_block, states
<1>3. /\ Tree(states, Header) /\ b \in Seq(Header) /\ lib \in states
      /\ lib \in Seq(Header) /\ states \subseteq Seq(Header) /\ local_chain \in states
  BY BlocksAssumption DEF TreeInv, Consistent, Tree
<1>4. b # Genesis /\ Tree(T, Header)
  BY <1>1, <1>2, AcceptedStands
<1>5. Below(lib, b)
  BY <1>1, AcceptedStands
<1>6. T \subseteq Blocks /\ lib \in T /\ OnLine(T, lib)
  BY <1>2, <1>3, <1>5 DEF TreeInv, OnLine
<1>7. state' \in {"ONLINE", "BOOTSTRAPPING"}
  BY <1>1 DEF TreeInv
<1>8. CASE ExtendLocalChain(b)
  <2>1. parent(b) = local_chain /\ settle(b, forks, with_block(b))
    BY <1>8 DEF ExtendLocalChain
  <2>2. Consistent(T, b, forks)
    BY <1>1, <1>2, <1>3, <2>1, ExtendIsConsistent DEF TreeInv
  <2> HIDE DEF T
  <2>3. TreeInv' /\ local_chain' = b /\ (state' # "ONLINE" => lib' = lib)
    BY <1>5, <1>6, <1>7, <2>1, <2>2, Settles DEF T
  <2>4. Len(local_chain) < Len(b)
    BY <1>3, <1>4, <2>1, ParentProperties
  <2> QED BY <1>1, <1>3, <1>5, <2>3, <2>4
<1>9. CASE ExtendFork(b)
  <2> DEFINE tips == with_fork(b)
             new == fork_choice(local_chain, tips, states \cup {b})
             rest == list_remove(Append(tips, local_chain), new)
  <2>1. parent(b) # local_chain /\ settle(new, rest, with_block(b))
    BY <1>9 DEF ExtendFork
  <2>2. /\ tips \in Seq(T)
        /\ Range(tips) \cup {local_chain} = leaves_of(T)
        /\ \A c \in {local_chain} \cup Range(tips) :
             Consistent(T, c, list_remove(Append(tips, local_chain), c))
    <3>1. Consistent(states, local_chain, forks)
      BY DEF TreeInv
    <3>2. tips = list_remove(Append(forks, b), parent(b))
      BY DEF with_fork
    <3> HIDE DEF T, tips, new, rest
    <3>3. b \in Seq(Header) /\ b \notin states /\ parent(b) \in states
      BY <1>1, <1>3
    <3>4. parent(b) # local_chain /\ T = states \cup {b}
      BY <1>2, <2>1
    <3>5. Tree(T, Header) /\ tips \in Seq(T) /\ Range(tips) \cup {local_chain} = leaves_of(T)
      BY <3>1, <3>2, <3>3, <3>4, ForkIsConsistent
    <3>6. \A c \in {local_chain} \cup Range(tips) :
             Consistent(T, c, list_remove(Append(tips, local_chain), c))
      BY <3>1, <3>2, <3>3, <3>4, ForkIsConsistent
    <3> QED BY <3>5, <3>6
  <2> HIDE DEF T, tips
  <2>3. local_chain \in T /\ K \in Nat
    BY <1>2, <1>3, ConfigAssumption
  <2>4. /\ new \in {local_chain} \cup Range(tips)
        /\ state = "ONLINE" => new = local_chain \/ Len(local_chain) < Len(new)
    <3>1. CASE state = "BOOTSTRAPPING"
      BY <1>2, <1>4, <2>2, <2>3, <3>1, MaxvalidBg DEF fork_choice
    <3>2. CASE state # "BOOTSTRAPPING"
      BY <1>2, <1>4, <2>2, <2>3, <3>2, MaxvalidMc DEF fork_choice
    <3> QED BY <3>1, <3>2
  <2> HIDE DEF new
  <2>5. Consistent(T, new, rest) /\ new \in leaves_of(T)
    BY <2>2, <2>4
  <2>6. new \in T /\ new \in Seq(Header)
    BY <2>5 DEF Consistent, Tree
  <2>7. Below(lib, new)
    BY <1>4, <1>6, <2>5, <2>6, LeafIsAbove DEF OnLine
  <2> HIDE DEF rest
  <2>8. TreeInv' /\ local_chain' = new /\ (state' # "ONLINE" => lib' = lib)
    BY <1>6, <1>7, <2>1, <2>5, <2>7, Settles DEF T
  <2> QED BY <1>1, <1>6, <2>4, <2>6, <2>7, <2>8
<1> QED BY <1>8, <1>9

LEMMA GoesOnline ==
  ASSUME TreeInv, to_online
  PROVE  TreeInv' /\ local_chain' = local_chain
<1>1. state' = "ONLINE" /\ settle(local_chain, forks, ledger_state)
  BY DEF to_online
<1>2. /\ Consistent(DOMAIN ledger_state, local_chain, forks)
      /\ DOMAIN ledger_state \subseteq Blocks
      /\ lib \in DOMAIN ledger_state /\ OnLine(DOMAIN ledger_state, lib)
      /\ Below(lib, local_chain)
  BY DEF TreeInv, states
<1> QED BY <1>1, <1>2, Settles

\* The other endings of on_block, and the environment, leave the tree alone.
LEMMA TreeUnchanged ==
  ASSUME TreeInv, states' = states, UNCHANGED << local_chain, forks, lib >>,
         state' = state \/ state' = "BOOTSTRAPPING"
  PROVE  TreeInv'
<1>1. Consistent(states, local_chain, forks)'
  BY DEF TreeInv, Consistent
<1>2. deep(local_chain)' = deep(local_chain)
  BY DEF deep
<1> QED BY <1>1, <1>2 DEF TreeInv, OnLine, Below

QuietStep ==
  /\ states' = states
  /\ UNCHANGED << local_chain, forks, lib >>

\* Every step is one that accepts a block, goes online, or is quiet.
LEMMA StepKinds ==
  ASSUME [Next]_vars
  PROVE  \/ \E b \in Blocks : ExtendLocalChain(b) \/ ExtendFork(b)
         \/ to_online
         \/ QuietStep /\ state' = state
<1>1. ASSUME UNCHANGED vars PROVE QuietStep /\ state' = state
  BY <1>1 DEF vars, QuietStep, states
<1>2. ASSUME NEW b \in Blocks, on_block(b)
      PROVE \/ ExtendLocalChain(b) \/ ExtendFork(b)
            \/ QuietStep /\ state' = state
  BY <1>1, <1>2 DEF on_block, DropKnown, RaiseParentNotFound, RaiseImmutableFork,
                    RaiseInvalidLeaderProof, QuietStep, states
<1>3. ASSUME NEW b \in Blocks, NEW n \in Mintable, MintNote(b, n)
      PROVE QuietStep /\ state' = state
  BY <1>3 DEF MintNote, QuietStep, states
<1> QED BY <1>1, <1>2, <1>3 DEF Next

LEMMA InitTree == Init => TreeInv /\ BootInv
<1> SUFFICES ASSUME Init PROVE TreeInv /\ BootInv
  OBVIOUS
<1>1. /\ local_chain = Genesis /\ forks = << >> /\ lib = Genesis
      /\ state = "BOOTSTRAPPING" /\ states = {Genesis}
  BY DEF Init, states
<1>2. Genesis \in Blocks /\ Genesis \in Seq(Header)
  BY BlocksAssumption
<1>3. Tree({Genesis}, Header)
  BY <1>2 DEF Tree
<1>4. leaves_of({Genesis}) = {Genesis}
  BY DEF leaves_of
<1>5. << >> \in Seq({Genesis}) /\ Range(<< >>) = {} /\ NoRepeats(<< >>)
  BY DEF Range, NoRepeats
<1>6. Consistent({Genesis}, Genesis, << >>)
  BY <1>3, <1>4, <1>5 DEF Consistent
<1>7. Below(Genesis, Genesis)
  BY <1>2, BelowReflexive
<1> QED BY <1>1, <1>2, <1>6, <1>7 DEF TreeInv, BootInv, OnLine

LEMMA StepTree == TreeInv /\ [Next \/ Rebootstrap]_vars => TreeInv'
<1> SUFFICES ASSUME TreeInv, [Next \/ Rebootstrap]_vars PROVE TreeInv'
  OBVIOUS
<1>1. CASE Rebootstrap
  BY <1>1, TreeUnchanged DEF Rebootstrap, states
<1>2. CASE [Next]_vars
  <2>1. CASE \E b \in Blocks : ExtendLocalChain(b) \/ ExtendFork(b)
    BY <2>1, Accepts
  <2>2. CASE to_online
    BY <2>2, GoesOnline
  <2>3. CASE QuietStep /\ state' = state
    BY <2>3, TreeUnchanged DEF QuietStep
  <2> QED BY <1>2, <2>1, <2>2, <2>3, StepKinds
<1> QED BY <1>1, <1>2

LEMMA TreeAlways == RestartSpec => []TreeInv
<1>1. Init => TreeInv
  BY InitTree
<1> QED BY <1>1, StepTree, PTL DEF RestartSpec
---------------------------------------------------------------------------
(***************************************************************************)
(* Every chain the node can walk reaches genesis (iter_chain, update_lib). *)
(***************************************************************************)
THEOREM ChainsReachGenesisAlways == RestartSpec => []ChainsReachGenesis
<1>1. TreeInv => ChainsReachGenesis
  <2> SUFFICES ASSUME TreeInv PROVE ChainsReachGenesis
    OBVIOUS
  <2>1. ToSet(forks) \subseteq states
    BY DEF TreeInv, Consistent, ToSet
  <2> QED BY <2>1 DEF TreeInv, Consistent, Tree, ChainsReachGenesis
<1> QED BY <1>1, TreeAlways, PTL

(***************************************************************************)
(* The tip and the fork list are, without repetition, the blocks that have *)
(* no child (the fork list as on_block and update_lib keep it).            *)
(***************************************************************************)
THEOREM TipsAreTheLeavesAlways == RestartSpec => []TipsAreTheLeaves
<1>1. TreeInv => TipsAreTheLeaves
  <2> SUFFICES ASSUME TreeInv PROVE TipsAreTheLeaves
    OBVIOUS
  <2>1. forks \in Seq(states) /\ DOMAIN forks = 1 .. Len(forks)
    BY DEF TreeInv, Consistent
  <2>2. ToSet(forks) = Range(forks)
    BY DEF ToSet, Range
  <2>3. \A i, j \in DOMAIN forks : forks[i] = forks[j] => i = j
    BY <2>1 DEF TreeInv, Consistent, NoRepeats
  <2> QED BY <2>2, <2>3 DEF TreeInv, Consistent, TipsAreTheLeaves
<1> QED BY <1>1, TreeAlways, PTL

(***************************************************************************)
(* The lib is on the followed chain, and every stored block on one line    *)
(* with the lib (update_lib's pruning).                                    *)
(***************************************************************************)
THEOREM EverythingOnLibLineAlways == RestartSpec => []EverythingOnLibLine
<1>1. TreeInv => EverythingOnLibLine
  <2> SUFFICES ASSUME TreeInv PROVE EverythingOnLibLine
    OBVIOUS
  <2>1. /\ Tree(states, Header) /\ lib \in Seq(Header) /\ local_chain \in states
        /\ \A b \in states : b \in Seq(Header)
    BY DEF TreeInv, Consistent, Tree
  <2>2. \A b \in states : is_ancestor(lib, b, states) <=> Below(lib, b)
    BY <2>1, AncestorIsBelow, BlocksAssumption
  <2>3. \A b \in states : is_ancestor(b, lib, states) <=> Below(b, lib)
    BY <2>1, AncestorIsBelow DEF TreeInv
  <2> QED BY <2>1, <2>2, <2>3 DEF TreeInv, OnLine, EverythingOnLibLine
<1> QED BY <1>1, TreeAlways, PTL

(***************************************************************************)
(* validate_header's comparison of heights says what its comment says.     *)
(***************************************************************************)
THEOREM HeightTestIsDescentAlways == RestartSpec => []HeightTestIsDescent
<1>1. TreeInv => HeightTestIsDescent
  <2> SUFFICES ASSUME TreeInv, NEW p \in states
               PROVE  height(p, states) < height(lib, states)
                        <=> ~ is_ancestor(lib, p, states)
    BY DEF HeightTestIsDescent
  <2>1. /\ Tree(states, Header) /\ lib \in Seq(Header) /\ lib \in states
        /\ p \in Seq(Header) /\ Len(p) \in Nat /\ Len(lib) \in Nat
    BY DEF TreeInv, Consistent, Tree
  <2>2. height(p, states) = Len(p) + 1 /\ height(lib, states) = Len(lib) + 1
    BY <2>1, HeightIsLength
  <2>3. is_ancestor(lib, p, states) <=> Below(lib, p)
    BY <2>1, AncestorIsBelow
  <2>4. CASE Below(lib, p)
    <3>1. Len(lib) =< Len(p)
      BY <2>4 DEF Below
    <3> QED BY <2>1, <2>2, <2>3, <2>4, <3>1
  <2>5. CASE ~ Below(lib, p)
    <3>1. Below(p, lib)
      BY <2>5 DEF TreeInv, OnLine
    <3>2. ~ (Len(lib) =< Len(p))
      BY <2>1, <2>5, <3>1, BelowSameLength
    <3> QED BY <2>1, <2>2, <2>3, <2>5, <3>2
  <2> QED BY <2>4, <2>5
<1> QED BY <1>1, TreeAlways, PTL

(***************************************************************************)
(* An online node's lib is K deep on its chain (update_lib).               *)
(***************************************************************************)
THEOREM LibIsKDeepAlways == RestartSpec => []LibIsKDeep
<1>1. TreeInv => LibIsKDeep
  BY DeepProperties DEF TreeInv, Consistent, LibIsKDeep
<1> QED BY <1>1, TreeAlways, PTL

---------------------------------------------------------------------------
LEMMA StepBoot == TreeInv /\ BootInv /\ [Next]_vars => BootInv'
<1> SUFFICES ASSUME TreeInv, BootInv, [Next]_vars, state' = "BOOTSTRAPPING" PROVE lib' = Genesis
  BY DEF BootInv
<1>1. CASE \E b \in Blocks : ExtendLocalChain(b) \/ ExtendFork(b)
  BY <1>1, Accepts DEF BootInv
<1>2. CASE to_online
  BY <1>2 DEF to_online
<1>3. CASE QuietStep /\ state' = state
  BY <1>3 DEF QuietStep, BootInv
<1> QED BY <1>1, <1>2, <1>3, StepKinds

LEMMA AlwaysBoot == Spec => [](TreeInv /\ BootInv)
<1>1. Init => TreeInv /\ BootInv
  BY InitTree
<1>2. TreeInv /\ BootInv /\ [Next]_vars => (TreeInv /\ BootInv)'
  BY StepTree, StepBoot
<1> QED BY <1>1, <1>2, PTL DEF Spec

\* The lib of a longer chain that stands on the old lib is above the old lib.
LEMMA LibRises ==
  ASSUME TreeInv, TreeInv', state = "ONLINE", state' = "ONLINE",
         Below(lib, local_chain'), local_chain' \in Seq(Header),
         local_chain' = local_chain \/ Len(local_chain) < Len(local_chain')
  PROVE  Below(lib, lib')
<1>1. /\ lib \in Seq(Header) /\ local_chain \in Seq(Header)
      /\ lib = deep(local_chain) /\ Len(lib) \in Nat /\ Len(local_chain) \in Nat
      /\ Len(local_chain') \in Nat /\ K \in Nat
  BY ConfigAssumption DEF TreeInv, Consistent, Tree
<1>2. lib' = IF K =< Len(local_chain') THEN At(local_chain', Len(local_chain') - K) ELSE Genesis
  BY DEF TreeInv, deep
<1>3. lib' \in Seq(Header) /\ Below(lib', local_chain')
  BY DEF TreeInv, Consistent, Tree, Below
<1>4. Len(lib) =< Len(lib')
  <2>1. CASE K =< Len(local_chain)
    <3>1. Len(lib) = Len(local_chain) - K
      <4>1. Len(local_chain) - K \in 0 .. Len(local_chain)
        BY <1>1, <2>1
      <4> QED BY <1>1, <2>1, <4>1, AtProperties DEF deep
    <3>2. Len(lib') = Len(local_chain') - K
      <4>1. Len(local_chain') - K \in 0 .. Len(local_chain') /\ K =< Len(local_chain')
        BY <1>1, <2>1
      <4> QED BY <1>2, <4>1, AtProperties
    <3> QED BY <1>1, <3>1, <3>2
  <2>2. CASE ~ (K =< Len(local_chain))
    <3>1. Len(lib) = 0 /\ Len(lib') \in Nat
      BY <1>1, <1>3, <2>2 DEF deep, Genesis
    <3> QED BY <3>1
  <2> QED BY <2>1, <2>2
<1> QED BY <1>1, <1>3, <1>4, BelowLinear

(***************************************************************************)
(* What a step does to the tip and the lib, in the words of Below.         *)
(***************************************************************************)
LEMMA StepMoves ==
  ASSUME TreeInv, BootInv, [Next]_vars
  PROVE  /\ Below(lib, lib') /\ lib' \in Seq(Header)
         /\ Below(lib, local_chain')
         /\ \/ state = "BOOTSTRAPPING" /\ state' = "BOOTSTRAPPING" /\ lib' = lib
            \/ state = "BOOTSTRAPPING" /\ state' = "ONLINE" /\ local_chain' = local_chain
            \/ /\ state = "ONLINE" /\ state' = "ONLINE"
               /\ local_chain' = local_chain => lib' = lib
               /\ local_chain' # local_chain => Len(local_chain) < Len(local_chain')
<1>1. TreeInv' /\ lib \in Seq(Header) /\ local_chain \in Seq(Header)
        /\ Below(lib, local_chain) /\ state \in {"ONLINE", "BOOTSTRAPPING"}
  BY StepTree DEF TreeInv, Consistent, Tree
<1>2. /\ lib' \in Seq(Header)
      /\ state' = "ONLINE" => lib' = deep(local_chain')
  BY <1>1 DEF TreeInv, Consistent, Tree, deep
<1>3. ASSUME NEW b \in Blocks, ExtendLocalChain(b) \/ ExtendFork(b)
      PROVE  /\ Below(lib, lib') /\ Below(lib, local_chain') /\ state' = state
             /\ state = "BOOTSTRAPPING" => lib' = lib
             /\ state = "ONLINE" => /\ local_chain' = local_chain => lib' = lib
                                    /\ local_chain' # local_chain =>
                                         Len(local_chain) < Len(local_chain')
  <2>1. /\ state' = state /\ Below(lib, local_chain') /\ local_chain' \in Seq(Header)
        /\ state = "ONLINE" => local_chain' = local_chain
                                 \/ Len(local_chain) < Len(local_chain')
        /\ state # "ONLINE" => lib' = lib
    BY <1>3, Accepts
  <2>2. CASE state = "ONLINE"
    <3>1. Below(lib, lib')
      BY <1>1, <2>1, <2>2, LibRises
    <3>2. local_chain' = local_chain => lib' = lib
      BY <1>2, <2>1, <2>2 DEF TreeInv
    <3> QED BY <2>1, <2>2, <3>1, <3>2
  <2>3. CASE state = "BOOTSTRAPPING"
    BY <1>1, <2>1, <2>3, BelowReflexive
  <2> QED BY <1>1, <2>2, <2>3
<1>4. CASE to_online
  <2>1. state = "BOOTSTRAPPING" /\ state' = "ONLINE" /\ local_chain' = local_chain
    BY <1>4, GoesOnline DEF to_online
  <2>2. Below(lib, lib')
    BY <1>2, <2>1, BelowReflexive DEF BootInv
  <2> QED BY <1>1, <1>2, <2>1, <2>2
<1>5. CASE QuietStep /\ state' = state
  BY <1>1, <1>5, BelowReflexive DEF QuietStep
<1>6. CASE \E b \in Blocks : ExtendLocalChain(b) \/ ExtendFork(b)
  BY <1>1, <1>2, <1>3, <1>6
<1> QED BY <1>4, <1>5, <1>6, StepKinds

LEMMA BelowIsPrefix ==
  ASSUME NEW a \in Seq(Header), NEW b, Below(a, b)
  PROVE  IsPrefix(a, b)
<1>1. Len(a) =< Len(b) /\ a = SubSeq(b, 1, Len(a))
  BY DEF Below, At
<1>2. SubSeq(a, 1, Len(a)) = a
  BY AtEnds DEF At
<1> QED BY <1>1, <1>2 DEF IsPrefix

(***************************************************************************)
(* Unless the node is sent back to bootstrapping, its last immutable block *)
(* only ever moves up its own chain (update_lib).                          *)
(***************************************************************************)
THEOREM LibNeverRevertsAlways == Spec => LibNeverReverts
<1>1. TreeInv /\ BootInv /\ [Next]_vars => [IsPrefix(lib, lib')]_vars
  <2> SUFFICES ASSUME TreeInv, BootInv, [Next]_vars PROVE IsPrefix(lib, lib')
    OBVIOUS
  <2>1. Below(lib, lib') /\ lib \in Seq(Header)
    BY StepMoves DEF TreeInv, Consistent, Tree
  <2> QED BY <2>1, BelowIsPrefix
<1> QED BY <1>1, AlwaysBoot, PTL DEF Spec, LibNeverReverts

(***************************************************************************)
(* An online node moves only to longer chains, and gives up at most the    *)
(* last K blocks of the old one: both chains stand on the lib.             *)
(***************************************************************************)
THEOREM OnlineSwitchIsShallowAlways == Spec => OnlineSwitchIsShallow
<1> DEFINE Shallow ==
      state = "ONLINE" /\ local_chain' # local_chain =>
        /\ Len(local_chain') > Len(local_chain)
        /\ \E c \in states : /\ IsPrefix(c, local_chain) /\ IsPrefix(c, local_chain')
                             /\ Len(local_chain) - Len(c) =< K
<1>1. TreeInv /\ BootInv /\ [Next]_vars => [Shallow]_vars
  <2> SUFFICES ASSUME TreeInv, BootInv, [Next]_vars,
                      state = "ONLINE", local_chain' # local_chain
               PROVE  /\ Len(local_chain') > Len(local_chain)
                      /\ IsPrefix(lib, local_chain) /\ IsPrefix(lib, local_chain')
                      /\ Len(local_chain) - Len(lib) =< K
    BY DEF TreeInv
  <2>1. /\ Tree(states, Header) /\ local_chain \in states /\ lib \in Seq(Header)
        /\ lib = deep(local_chain) /\ Below(lib, local_chain) /\ Below(lib, local_chain')
        /\ Len(local_chain) \in Nat /\ Len(local_chain') \in Nat
    BY StepMoves, StepTree DEF TreeInv, Consistent, Tree
  <2>2. Len(local_chain') > Len(local_chain)
    BY <2>1, StepMoves
  <2>3. Len(local_chain) - Len(lib) =< K
    BY <2>1, DeepProperties
  <2> QED BY <2>1, <2>2, <2>3, BelowIsPrefix
<1> QED BY <1>1, AlwaysBoot, PTL DEF Spec, OnlineSwitchIsShallow

(***************************************************************************)
(* An online node that follows a longest chain of its tree goes on doing   *)
(* so (maxvalid_mc, and on_block and update_lib which bypass it): a block  *)
(* that is higher than its tip stands on the lib, no more than K below the *)
(* tip, so that the loop over the fork list does not pass it by.           *)
(***************************************************************************)
THEOREM LongestStaysLongestAlways == RestartSpec => LongestStaysLongest
<1> DEFINE Stays == state = "ONLINE" /\ follows_longest /\ state' = "ONLINE" => follows_longest'
<1>1. ASSUME TreeInv, [Next \/ Rebootstrap]_vars,
             state = "ONLINE", follows_longest, state' = "ONLINE"
      PROVE  follows_longest'
  <2>1. [Next]_vars
    BY <1>1 DEF Rebootstrap
  <2>2. /\ Tree(states, Header) /\ local_chain \in states /\ Len(local_chain) \in Nat
        /\ lib \in states
    BY <1>1 DEF TreeInv, Consistent, Tree
  <2>3. ASSUME NEW b \in Blocks, Accepted(b)
        PROVE  /\ DOMAIN with_block(b) = states \cup {b}
               /\ Tree(states \cup {b}, Header) /\ Below(lib, b)
               /\ Len(b) \in Nat /\ Len(b) = Len(parent(b)) + 1
               /\ parent(b) \in states /\ Len(parent(b)) =< Len(local_chain)
    <3>1. Tree(states \cup {b}, Header) /\ b # Genesis /\ Below(lib, b)
      BY <1>1, <2>3, AcceptedStands
    <3>2. b \in Seq(Header)
      BY BlocksAssumption
    <3>3. Len(b) \in Nat /\ Len(parent(b)) = Len(b) - 1
      BY <3>1, <3>2, ParentProperties
    <3> QED BY <1>1, <2>3, <3>1, <3>3 DEF with_block, follows_longest, Accepted, parent_found
  <2>4. CASE \E b \in Blocks : ExtendLocalChain(b)
    <3>1. PICK b \in Blocks : ExtendLocalChain(b)
      BY <2>4
    <3>2. Accepted(b) /\ parent(b) = local_chain /\ settle(b, forks, with_block(b))
      BY <3>1 DEF ExtendLocalChain
    <3>3. local_chain' = b /\ states' \subseteq DOMAIN with_block(b)
      BY <3>2, SettledStates
    <3>4. /\ DOMAIN with_block(b) = states \cup {b}
          /\ Len(b) = Len(local_chain) + 1 /\ Len(b) \in Nat
      BY <2>3, <3>2
    <3>5. \A c \in states : Len(c) \in Nat
      BY <2>2 DEF Tree
    <3> QED BY <1>1, <2>2, <3>3, <3>4, <3>5 DEF follows_longest
  <2>5. CASE \E b \in Blocks : ExtendFork(b)
    <3>1. PICK b \in Blocks : ExtendFork(b)
      BY <2>5
    <3> DEFINE T == states \cup {b}
               tips == with_fork(b)
               new == fork_choice(local_chain, tips, T)
    <3>2. /\ Accepted(b) /\ parent(b) # local_chain
          /\ settle(new, list_remove(Append(tips, local_chain), new), with_block(b))
      BY <3>1 DEF ExtendFork
    <3>3. local_chain' = new /\ states' \subseteq T
      <4> HIDE DEF new, tips
      <4>1. local_chain' = new /\ states' \subseteq DOMAIN with_block(b)
        BY <3>2, SettledStates
      <4> QED BY <2>3, <3>2, <4>1
    <3>4. /\ Tree(T, Header) /\ Below(lib, b) /\ Len(b) \in Nat
          /\ Len(b) = Len(parent(b)) + 1
          /\ parent(b) \in states /\ Len(parent(b)) =< Len(local_chain)
      BY <2>3, <3>2
    <3>5. new = local_chain \/ Len(local_chain) < Len(new)
      <4>1. \/ local_chain' = local_chain
            \/ Len(local_chain) < Len(local_chain')
        BY <1>1, <3>1, Accepts
      <4> QED BY <3>3, <4>1
    <3>6. Len(new) \in Nat
      <4>1. local_chain' \in Seq(Header)
        BY <1>1, <3>1, Accepts
      <4> QED BY <3>3, <4>1
    <3>7. Len(b) =< Len(new)
      <4>1. CASE Len(b) =< Len(local_chain)
        <5> HIDE DEF new
        <5> QED BY <2>2, <3>4, <3>5, <3>6, <4>1
      <4>2. CASE Len(b) = Len(local_chain) + 1
        <5>1. Consistent(states, local_chain, forks)
          BY <1>1 DEF TreeInv
        <5>2. b \in Seq(Header) /\ b \notin states
          BY <3>2, BlocksAssumption DEF Accepted
        <5>3. tips \in Seq(T) /\ Range(tips) \cup {local_chain} = leaves_of(T)
          <6>1. tips = list_remove(Append(forks, b), parent(b))
            BY DEF with_fork
          <6> HIDE DEF tips, T
          <6>2. T = states \cup {b}
            BY DEF T
          <6> QED BY <3>2, <3>4, <5>1, <5>2, <6>1, <6>2, ForkIsConsistent
        <5>4. b \in Range(tips)
          <6>1. b \in leaves_of(T)
            BY <2>2, <3>4, <5>2, AddToTree
          <6> QED BY <2>2, <5>2, <5>3, <6>1
        <5>5. Below(lib, local_chain) /\ Len(local_chain) - Len(lib) =< K
          BY <1>1, <2>2, DeepProperties DEF TreeInv
        <5>6. local_chain \in T /\ lib \in T /\ K \in Nat
          BY <2>2, ConfigAssumption
        <5>7. new = maxvalid_mc(local_chain, tips, K, T)
          BY <1>1 DEF fork_choice
        <5> HIDE DEF new, tips, T
        <5>8. Len(local_chain) < Len(maxvalid_mc(local_chain, tips, K, T))
          BY <3>4, <4>2, <5>3, <5>4, <5>5, <5>6, MaxvalidMcFinds
        <5> QED BY <2>2, <3>4, <3>6, <4>2, <5>7, <5>8
      <4>3. Len(b) =< Len(local_chain) \/ Len(b) = Len(local_chain) + 1
        <5>1. Len(parent(b)) \in Nat
          BY <2>2, <3>4 DEF Tree
        <5> QED BY <2>2, <3>4, <5>1
      <4> QED BY <4>1, <4>2, <4>3
    <3> HIDE DEF new
    <3>8. \A c \in states : Len(c) \in Nat /\ Len(c) =< Len(new)
      BY <1>1, <2>2, <3>5, <3>6 DEF follows_longest, Tree
    <3> QED BY <3>3, <3>7, <3>8 DEF follows_longest
  <2>6. CASE to_online
    BY <1>1, <2>6 DEF to_online
  <2>7. CASE QuietStep
    BY <1>1, <2>7 DEF QuietStep, follows_longest
  <2> QED BY <2>1, <2>4, <2>5, <2>6, <2>7, StepKinds
<1>2. TreeInv /\ [Next \/ Rebootstrap]_vars => [Stays]_vars
  BY <1>1
<1>3. RestartSpec => [][Stays]_vars
  BY <1>2, TreeAlways, PTL DEF RestartSpec
<1> QED BY <1>3 DEF LongestStaysLongest

(***************************************************************************)
(* The Follower implements ImmutableLedger: bootstrapping it searches      *)
(* above an immutable part that does not move, online it follows longer    *)
(* chains and finalises all but their last K blocks.                       *)
(***************************************************************************)
THEOREM Implements == Spec => KeepsPromise
<1>1. Init => Promise!Start
  BY DEF Init, Promise!Start, Genesis
<1>2. TreeInv /\ BootInv /\ [Next]_vars => [Promise!Evolve]_(Promise!ledger_vars)
  <2> SUFFICES ASSUME TreeInv, BootInv, [Next]_vars,
                      ~ UNCHANGED << local_chain, lib, state >>
               PROVE  Promise!Evolve
    BY DEF Promise!ledger_vars
  <2>1. TreeInv' /\ local_chain' \in Blocks /\ Len(local_chain') \in Nat /\ K \in Nat
    BY StepTree, ConfigAssumption DEF TreeInv, Consistent, Tree
  <2>2. Promise!prefix(lib, lib') /\ Promise!prefix(lib, local_chain')
    BY StepMoves DEF Below, At, Promise!prefix
  <2>3. state' = "ONLINE" => lib' = Promise!settled_part(local_chain')
    <3>1. ASSUME state' = "ONLINE"
          PROVE  lib' = IF K =< Len(local_chain') THEN At(local_chain', Len(local_chain') - K)
                                                  ELSE Genesis
      BY <2>1, <3>1 DEF TreeInv, deep
    <3> QED BY <2>1, <3>1 DEF Promise!settled_part, At, Genesis
  <2>4. CASE state = "BOOTSTRAPPING" /\ state' = "BOOTSTRAPPING" /\ lib' = lib
    BY <2>1, <2>2, <2>4 DEF Promise!Evolve, Promise!Search
  <2>5. CASE state = "BOOTSTRAPPING" /\ state' = "ONLINE" /\ local_chain' = local_chain
    BY <2>2, <2>3, <2>5 DEF Promise!Evolve, Promise!GoOnline, Promise!Finalise
  <2>6. CASE /\ state = "ONLINE" /\ state' = "ONLINE"
             /\ local_chain' = local_chain => lib' = lib
             /\ local_chain' # local_chain => Len(local_chain) < Len(local_chain')
    <3>1. Len(local_chain) < Len(local_chain') /\ Len(local_chain) \in Nat
      BY <2>6 DEF TreeInv, Consistent, Tree
    <3>2. Len(local_chain') > Len(local_chain)
      BY <2>1, <3>1
    <3> QED BY <2>1, <2>2, <2>3, <2>6, <3>2
            DEF Promise!Evolve, Promise!Follow, Promise!Finalise
  <2> QED BY <2>4, <2>5, <2>6, StepMoves
<1> QED BY <1>1, <1>2, AlwaysBoot, PTL DEF Spec, KeepsPromise, Promise!LedgerSpec

---------------------------------------------------------------------------
(***************************************************************************)
(* Types, the epoch states included: what compute_epoch_state memoises are *)
(* snapshots that exist and stakes that are never negative.                *)
(***************************************************************************)
Snapshot == Blocks \cup {GenesisState}
EpochRecord == [stake : Snapshot, nonce : Snapshot, inferred : Nat]
MemoRecord == [stake : Snapshot, nonce : Blocks, inferred : Nat]

MemoType(memo) ==
  /\ DOMAIN memo \subseteq (Nat \ {0}) \X Blocks
  /\ \A key \in DOMAIN memo : memo[key] \in MemoRecord

LedgerType(ledger) == \A b \in DOMAIN ledger : ledger[b] \subseteq Note

\* A set of blocks on one chain has a highest one.
LEMMA HighestExists ==
  ASSUME NEW H, NEW T, Tree(T, H), NEW tip \in T,
         NEW B, B \subseteq iter_chain(tip, T), B # {}
  PROVE  \E c \in B : \A d \in B : Len(d) =< Len(c)
<1> DEFINE N == Len(tip) + 1
           I == { m \in 0 .. N : \E d \in B : Len(d) >= m }
<1>0. tip \in Seq(H) /\ Len(tip) \in Nat /\ N \in Nat
  BY DEF Tree
<1>1. \A d \in B : Len(d) \in Nat /\ Len(d) =< Len(tip)
  <2>1. \A h \in 0 .. Len(tip) : Len(At(tip, h)) = h
    BY <1>0, AtProperties
  <2> QED BY <1>0, <2>1, ChainOf
<1> SUFFICES ASSUME \A c \in B : \E d \in B : ~ (Len(d) =< Len(c))
             PROVE FALSE
  OBVIOUS
<1>2. 0 \in I
  BY <1>0, <1>1
<1>3. ASSUME NEW m \in 0 .. N - 1, m \in I PROVE m+1 \in I
  <2>1. PICK c \in B : Len(c) >= m
    BY <1>3
  <2>2. PICK d \in B : ~ (Len(d) =< Len(c))
    BY <2>1
  <2>3. Len(d) >= m+1
    BY <1>1, <2>1, <2>2
  <2> QED BY <1>0, <2>3
<1>4. 0 .. N \subseteq I
  <2> HIDE DEF I, N
  <2> QED BY <1>0, <1>2, <1>3, BoundedInduction
<1>5. PICK d \in B : Len(d) >= Len(tip) + 1
  BY <1>0, <1>4
<1> QED BY <1>0, <1>1, <1>5
---------------------------------------------------------------------------
\* Snapshots.

LEMMA EpochLengths ==
  /\ epoch_relative_nonce_slot \in Nat \ {0}
  /\ epoch_length \in Nat \ {0}
<1> DEFINE P == Stabilization + NonceBuffer
<1>1. /\ P \in Nat \ {0} /\ BasePeriodLength \in Nat \ {0}
      /\ NonceStabilization \in Nat
  BY ConfigAssumption
<1> HIDE DEF P
<1>2. \A x, y \in Nat \ {0} : x * y \in Nat \ {0}
  OBVIOUS
<1>3. P * BasePeriodLength \in Nat \ {0}
  BY <1>1, <1>2
<1>4. NonceStabilization * BasePeriodLength \in Nat
  BY <1>1
<1>5. epoch_relative_nonce_slot \in Nat \ {0}
  BY <1>3 DEF epoch_relative_nonce_slot, P
<1> QED BY <1>4, <1>5 DEF epoch_length

\* What the search of state_at_slot_beginning finds.
Early(tip, sl) == { c \in iter_chain(tip, states) : slot(c) < sl }

LEMMA SnapshotKinds ==
  ASSUME TreeInv, NEW tip \in states, NEW sl \in Int
  PROVE  LET snap == state_at_slot_beginning(tip, sl) IN
         \/ Early(tip, sl) = {} /\ snap = GenesisState
         \/ snap \in Early(tip, sl) /\ \A d \in Early(tip, sl) : Len(d) =< Len(snap)
<1> DEFINE before == Early(tip, sl)
           snap == state_at_slot_beginning(tip, sl)
<1>1. snap = IF before = {} THEN GenesisState
             ELSE CHOOSE c \in before : \A d \in before : Len(d) =< Len(c)
  BY DEF state_at_slot_beginning, Early
<1>2. before \subseteq iter_chain(tip, states)
  BY DEF Early
<1>3. Tree(states, Header)
  BY DEF TreeInv, Consistent
<1> HIDE DEF before, snap
<1>4. CASE before = {}
  BY <1>1, <1>4 DEF before, snap
<1>5. CASE before # {}
  <2>1. \E c \in before : \A d \in before : Len(d) =< Len(c)
    BY <1>2, <1>3, <1>5, HighestExists
  <2>2. snap \in before /\ \A d \in before : Len(d) =< Len(snap)
    BY <1>1, <1>5, <2>1
  <2> QED BY <2>2 DEF before, snap
<1> QED BY <1>4, <1>5

LEMMA EarlyBlocks ==
  ASSUME TreeInv, NEW tip \in states, NEW sl \in Int
  PROVE  /\ \A c \in Early(tip, sl) : c \in states /\ c \in Blocks /\ Len(c) \in Nat
         /\ 0 < sl => Genesis \in Early(tip, sl)
<1>1. Tree(states, Header) /\ states \subseteq Blocks /\ tip \in Seq(Header)
  BY DEF TreeInv, Consistent, Tree
<1>2. iter_chain(tip, states) \subseteq states
  BY <1>1, ChainOf, TreeHoldsChains
<1>3. states \subseteq Seq(Header) /\ Genesis \in Seq(Header) /\ Len(Genesis) = 0
  BY <1>1, EmptySeq DEF Tree, Genesis
<1>4. Genesis \in iter_chain(tip, states)
  <2>1. Below(Genesis, tip)
    <3>1. Genesis = At(tip, 0) /\ Len(tip) \in Nat
      BY <1>1, AtEnds
    <3> QED BY <1>3, <3>1 DEF Below
  <2> QED BY <1>1, <1>3, <2>1, AncestorIsBelow DEF is_ancestor
<1>5. slot(Genesis) = 0
  BY DEF slot, GenesisSlot
<1> QED BY <1>1, <1>2, <1>3, <1>4, <1>5 DEF Early

LEMMA SnapshotTypes ==
  ASSUME TreeInv, NEW tip \in states, NEW sl \in Int
  PROVE  /\ state_at_slot_beginning(tip, sl) \in Snapshot
         /\ 0 < sl => state_at_slot_beginning(tip, sl) \in Blocks
         /\ leader_count(state_at_slot_beginning(tip, sl)) \in Nat
<1> DEFINE snap == state_at_slot_beginning(tip, sl)
<1>1. \/ Early(tip, sl) = {} /\ snap = GenesisState
      \/ snap \in Early(tip, sl)
  BY SnapshotKinds
<1>2. /\ \A c \in Early(tip, sl) : c \in Blocks /\ Len(c) \in Nat
      /\ 0 < sl => Early(tip, sl) # {}
  BY EarlyBlocks
<1> HIDE DEF snap
<1>3. Len(Genesis) = 0 /\ GenesisState \notin Blocks
  BY EmptySeq, MarkersAssumption DEF Genesis
<1>4. snap \in Snapshot /\ (0 < sl => snap \in Blocks)
  BY <1>1, <1>2 DEF Snapshot
<1>5. leader_count(snap) \in Nat
  BY <1>1, <1>2, <1>3 DEF leader_count, block_of
<1> QED BY <1>4, <1>5 DEF snap

\* A later snapshot of the same chain has counted at least as many leaders.
LEMMA SnapshotsInOrder ==
  ASSUME TreeInv, NEW tip \in states, NEW sl1 \in Int, NEW sl2 \in Int, sl1 =< sl2
  PROVE  leader_count(state_at_slot_beginning(tip, sl1))
           =< leader_count(state_at_slot_beginning(tip, sl2))
<1> DEFINE s1 == state_at_slot_beginning(tip, sl1)
           s2 == state_at_slot_beginning(tip, sl2)
<1>1. \/ Early(tip, sl1) = {} /\ s1 = GenesisState
      \/ s1 \in Early(tip, sl1)
  BY SnapshotKinds
<1>2. \/ Early(tip, sl2) = {} /\ s2 = GenesisState
      \/ s2 \in Early(tip, sl2) /\ \A d \in Early(tip, sl2) : Len(d) =< Len(s2)
  BY SnapshotKinds
<1>3. leader_count(s2) \in Nat
  BY SnapshotTypes
<1>4. /\ \A c \in Early(tip, sl1) : c \in Blocks
      /\ \A c \in Early(tip, sl2) : c \in Blocks
  BY EarlyBlocks
<1>5. Early(tip, sl1) \subseteq Early(tip, sl2)
  <2>1. \A c \in iter_chain(tip, states) : slot(c) \in Int
    <3>1. Tree(states, Header)
      BY DEF TreeInv, Consistent
    <3>2. \A c \in iter_chain(tip, states) : c \in Seq(Header)
      BY <3>1, ChainOf, TreeHoldsChains DEF Tree
    <3>3. \A c \in Seq(Header) : slot(c) \in Int
      <4> SUFFICES ASSUME NEW c \in Seq(Header), c # Genesis PROVE c[Len(c)].slot \in Int
        BY DEF slot, GenesisSlot
      <4>1. Len(c) \in 1 .. Len(c)
        BY EmptySeq DEF Genesis
      <4>2. c[Len(c)] \in Header
        BY <4>1
      <4> QED BY <4>2 DEF Header
    <3> QED BY <3>2, <3>3
  <2> QED BY <2>1 DEF Early
<1> HIDE DEF s1, s2
<1>6. Len(Genesis) = 0 /\ GenesisState \notin Blocks
  BY EmptySeq, MarkersAssumption DEF Genesis
<1>7. CASE s1 = GenesisState
  BY <1>3, <1>6, <1>7 DEF leader_count, block_of, s1, s2
<1>8. CASE s1 \in Early(tip, sl1)
  <2>1. s2 \in Early(tip, sl2) /\ Len(s1) =< Len(s2)
    BY <1>2, <1>5, <1>8
  <2>2. s1 # GenesisState /\ s2 # GenesisState
    BY <1>4, <1>6, <1>8, <2>1
  <2> QED BY <2>1, <2>2 DEF leader_count, block_of, s1, s2
<1> QED BY <1>1, <1>7, <1>8
---------------------------------------------------------------------------
\* Epoch states.

\* The estimate only shrinks by the learning rate's share of the old one, never below 0.
LEMMA InferredType ==
  ASSUME NEW prev \in Nat, NEW nonce, NEW stake,
         leader_count(nonce) \in Nat, leader_count(stake) \in Nat,
         leader_count(stake) =< leader_count(nonce)
  PROVE  infer_total_active_stake(prev, nonce, stake) \in Nat
<1> DEFINE T == epoch_relative_nonce_slot
           observed == leader_count(nonce) - leader_count(stake)
           gap == Rate.den - Rate.num
           n == Rate.num  d == Rate.den  en == Expected.num  ed == Expected.den
<1>1. T \in Nat \ {0} /\ observed \in Nat
  BY EpochLengths
<1>2. gap \in Nat /\ n \in Nat /\ d \in Nat \ {0} /\ en \in Nat \ {0} /\ ed \in Nat \ {0}
  BY StakeAssumption
<1>3. infer_total_active_stake(prev, nonce, stake)
        = (prev * (gap * T * en + n * observed * ed)) \div (d * T * en)
  BY DEF infer_total_active_stake
<1> HIDE DEF T, observed, gap, n, d, en, ed
<1>4. \A i, j \in Nat : i * j \in Nat /\ i + j \in Nat
  OBVIOUS
<1>5. gap * T * en \in Nat /\ n * observed * ed \in Nat
  BY <1>1, <1>2, <1>4
<1>6. prev * (gap * T * en + n * observed * ed) \in Nat
  BY <1>4, <1>5
<1>7. d * T * en \in Nat \ {0}
  <2>1. \A i, j \in Nat \ {0} : i * j \in Nat \ {0}
    OBVIOUS
  <2> QED BY <1>1, <1>2, <2>1
<1>8. \A i \in Nat, j \in Nat \ {0} : i \div j \in Nat
  OBVIOUS
<1> QED BY <1>3, <1>6, <1>7, <1>8

LEMMA EpochSnapshots ==
  ASSUME TreeInv, NEW tip \in states, NEW e \in Nat \ {0}
  PROVE  LET stake == stake_distribution_snapshot(e, tip)
             nonce == nonce_snapshot(e, tip) IN
         /\ stake \in Snapshot /\ nonce \in Blocks
         /\ memo_key(e, tip) \in (Nat \ {0}) \X Blocks
         /\ \A prev \in Nat : infer_total_active_stake(prev, nonce, stake) \in Nat
<1> DEFINE sl1 == (e - 1) * epoch_length
           sl2 == epoch_relative_nonce_slot + (e - 1) * epoch_length
           stake == state_at_slot_beginning(tip, sl1)
           nonce == state_at_slot_beginning(tip, sl2)
<1>1. sl1 \in Nat
  <2>1. e - 1 \in Nat /\ epoch_length \in Nat
    BY EpochLengths
  <2> QED BY <2>1
<1>2. sl2 \in Nat /\ 0 < sl2 /\ sl1 =< sl2
  BY <1>1, EpochLengths
<1>3. stake = stake_distribution_snapshot(e, tip) /\ nonce = nonce_snapshot(e, tip)
  BY DEF stake_distribution_snapshot, nonce_snapshot
<1> HIDE DEF sl1, sl2
<1>4. /\ stake \in Snapshot /\ nonce \in Blocks
      /\ leader_count(stake) \in Nat /\ leader_count(nonce) \in Nat
  BY <1>1, <1>2, SnapshotTypes
<1>5. leader_count(stake) =< leader_count(nonce)
  BY <1>1, <1>2, SnapshotsInOrder
<1> HIDE DEF stake, nonce
<1>6. memo_key(e, tip) \in (Nat \ {0}) \X Blocks
  BY <1>3, <1>4, MarkersAssumption DEF memo_key, block_of
<1>7. \A prev \in Nat : infer_total_active_stake(prev, nonce, stake) \in Nat
  BY <1>4, <1>5, InferredType
<1> QED BY <1>3, <1>4, <1>6, <1>7

\* One level of compute_epoch_state, and the function of which epoch_states is the run.
EpochStep(prev, e, tip, memo) ==
  IF memo_key(e, tip) \in DOMAIN memo THEN memo[memo_key(e, tip)]
  ELSE [stake |-> stake_distribution_snapshot(e, tip), nonce |-> nonce_snapshot(e, tip),
        inferred |-> infer_total_active_stake(prev, nonce_snapshot(e, tip),
                                              stake_distribution_snapshot(e, tip))]

EpochRun(f, epoch, tip, memo) ==
  f = [e \in 0 .. epoch |->
         IF e = 0 THEN GenesisEpoch ELSE EpochStep(f[e-1].inferred, e, tip, memo)]

LEMMA EpochStepType ==
  ASSUME TreeInv, NEW tip \in states, NEW memo, MemoType(memo),
         NEW e \in Nat \ {0}, NEW prev \in Nat
  PROVE  EpochStep(prev, e, tip, memo) \in MemoRecord
<1>1. CASE memo_key(e, tip) \in DOMAIN memo
  BY <1>1 DEF EpochStep, MemoType
<1>2. CASE memo_key(e, tip) \notin DOMAIN memo
  <2>1. /\ stake_distribution_snapshot(e, tip) \in Snapshot
        /\ nonce_snapshot(e, tip) \in Blocks
        /\ infer_total_active_stake(prev, nonce_snapshot(e, tip),
                                    stake_distribution_snapshot(e, tip)) \in Nat
    BY EpochSnapshots
  <2> QED BY <1>2, <2>1 DEF EpochStep, MemoRecord
<1> QED BY <1>1, <1>2

LEMMA RecordKinds ==
  /\ GenesisEpoch \in EpochRecord
  /\ MemoRecord \subseteq EpochRecord
  /\ \A r \in EpochRecord : r.inferred \in Nat
BY StakeAssumption DEF GenesisEpoch, EpochRecord, MemoRecord, Snapshot

LEMMA EpochRunExists ==
  ASSUME TreeInv, NEW tip \in states, NEW memo, MemoType(memo), NEW epoch \in Nat
  PROVE  \E f : EpochRun(f, epoch, tip, memo)
<1> DEFINE step(r, e) == EpochStep(r.inferred, e, tip, memo)
           g == [p \in EpochRecord \X (1 .. epoch) |-> step(p[1], p[2])]
<1>1. \A r \in EpochRecord, e \in 1 .. epoch : step(r, e) \in EpochRecord
  <2> SUFFICES ASSUME NEW r \in EpochRecord, NEW e \in 1 .. epoch
               PROVE  step(r, e) \in EpochRecord
    OBVIOUS
  <2>1. r.inferred \in Nat /\ e \in Nat \ {0}
    BY RecordKinds
  <2>2. step(r, e) \in MemoRecord
    BY <2>1, EpochStepType
  <2> QED BY <2>2, RecordKinds
<1> HIDE DEF step
<1>2. g \in Body(EpochRecord, epoch)
  BY <1>1 DEF Body
<1>3. PICK f : LoopRun(f, epoch, EpochRecord, GenesisEpoch, g)
  <2> HIDE DEF g
  <2> QED BY <1>2, LoopRuns, RecordKinds
<1> DEFINE h == [e \in 0 .. epoch |-> IF e = 0 THEN GenesisEpoch ELSE step(f[e-1], e)]
<1>4. f = h
  <2>1. ASSUME NEW e \in 1 .. epoch PROVE f[e] = h[e]
    <3>1. e-1 \in 0 .. epoch /\ e \in 0 .. epoch /\ e # 0
      OBVIOUS
    <3>2. << f[e-1], e >> \in EpochRecord \X (1 .. epoch)
      BY <1>3, <3>1 DEF LoopRun
    <3>3. f[e] = step(f[e-1], e)
      BY <1>3, <3>2 DEF LoopRun
    <3> QED BY <3>1, <3>3
  <2>2. f[0] = h[0]
    BY <1>3 DEF LoopRun
  <2>3. \A e \in 0 .. epoch : e = 0 \/ e \in 1 .. epoch
    OBVIOUS
  <2>4. DOMAIN f = 0 .. epoch /\ f = [e \in 0 .. epoch |-> f[e]]
    BY <1>3 DEF LoopRun
  <2> QED BY <2>1, <2>2, <2>3, <2>4
<1>5. EpochRun(f, epoch, tip, memo)
  BY <1>4 DEF EpochRun, step
<1> QED BY <1>5

LEMMA EpochRunTypes ==
  ASSUME TreeInv, NEW tip \in states, NEW memo, MemoType(memo), NEW epoch \in Nat,
         NEW f, EpochRun(f, epoch, tip, memo)
  PROVE  \A e \in 1 .. epoch : f[e] \in MemoRecord
<1>1. /\ f[0] = GenesisEpoch
      /\ \A e \in 1 .. epoch : f[e] = EpochStep(f[e-1].inferred, e, tip, memo)
  BY DEF EpochRun
<1> DEFINE I == { e \in 0 .. epoch : f[e] \in EpochRecord /\ (e # 0 => f[e] \in MemoRecord) }
<1>2. 0 \in I
  BY <1>1, RecordKinds
<1>3. ASSUME NEW e \in 0 .. epoch-1, e \in I PROVE e+1 \in I
  <2>1. e+1 \in 1 .. epoch /\ e+1 \in 0 .. epoch /\ (e+1)-1 = e /\ e+1 \in Nat \ {0}
    OBVIOUS
  <2>2. f[e].inferred \in Nat
    BY <1>3, RecordKinds
  <2>3. f[e+1] = EpochStep(f[e].inferred, e+1, tip, memo)
    BY <1>1, <2>1
  <2>4. f[e+1] \in MemoRecord
    BY <2>1, <2>2, <2>3, EpochStepType
  <2> QED BY <2>1, <2>4, RecordKinds
<1>4. 0 .. epoch \subseteq I
  <2> HIDE DEF I
  <2> QED BY <1>2, <1>3, BoundedInduction
<1> QED BY <1>4

LEMMA EpochStatesType ==
  ASSUME TreeInv, NEW tip \in states, NEW memo, MemoType(memo), NEW epoch \in Nat
  PROVE  \A e \in 1 .. epoch : epoch_states(epoch, tip, memo)[e] \in MemoRecord
<1> DEFINE st == epoch_states(epoch, tip, memo)
<1>1. st = CHOOSE f : EpochRun(f, epoch, tip, memo)
  BY DEF epoch_states, EpochRun, EpochStep
<1> HIDE DEF st
<1>2. EpochRun(st, epoch, tip, memo)
  BY <1>1, EpochRunExists
<1>3. \A e \in 1 .. epoch : st[e] \in MemoRecord
  BY <1>2, EpochRunTypes
<1> QED BY <1>3 DEF st

LEMMA SlotOfBlock == \A b \in Blocks : slot(b) \in Nat
<1> SUFFICES ASSUME NEW b \in Blocks, b # Genesis PROVE b[Len(b)].slot \in Nat
  BY DEF slot, GenesisSlot
<1>1. b \in Seq(Header)
  BY BlocksAssumption
<1>2. Len(b) \in 1 .. Len(b)
  BY <1>1, EmptySeq DEF Genesis
<1>3. b[Len(b)] \in Header
  BY <1>1, <1>2
<1> QED BY <1>3 DEF Header

LEMMA EpochOfBlock == \A b \in Blocks : epoch_of(slot(b)) \in Nat
<1>1. \A i \in Nat, j \in Nat \ {0} : i \div j \in Nat
  OBVIOUS
<1> QED BY <1>1, SlotOfBlock, EpochLengths DEF epoch_of

LEMMA MemoisedType ==
  ASSUME TreeInv, NEW tip \in states, MemoType(epoch_state), NEW epoch \in Nat
  PROVE  MemoType(memoised(epoch, tip))
<1> DEFINE computed == { e \in 1 .. epoch : \A i \in e .. epoch :
                                               memo_key(i, tip) \notin DOMAIN epoch_state }
           st == epoch_states(epoch, tip, epoch_state)
           fresh == { memo_key(e, tip) : e \in computed }
           m == memoised(epoch, tip)
<1>1. m = [key \in DOMAIN epoch_state \cup fresh |->
             IF key \in fresh THEN st[key[1]] ELSE epoch_state[key]]
  BY DEF memoised
<1>2. \A e \in 1 .. epoch : st[e] \in MemoRecord
  BY EpochStatesType
<1>3. \A e \in 1 .. epoch : memo_key(e, tip) \in (Nat \ {0}) \X Blocks
  BY EpochSnapshots
<1>4. \A e \in 1 .. epoch : memo_key(e, tip)[1] = e
  BY DEF memo_key
<1>5. computed \subseteq 1 .. epoch
  OBVIOUS
<1> HIDE DEF computed, st, m
<1>6. \A key \in fresh : key \in (Nat \ {0}) \X Blocks /\ st[key[1]] \in MemoRecord
  BY <1>2, <1>3, <1>4, <1>5
<1> HIDE DEF fresh
<1>7. DOMAIN m \subseteq (Nat \ {0}) \X Blocks
  BY <1>1, <1>6 DEF MemoType
<1>8. ASSUME NEW key \in DOMAIN m PROVE m[key] \in MemoRecord
  <2>1. CASE key \in fresh
    BY <1>1, <1>6, <2>1
  <2>2. CASE key \notin fresh
    BY <1>1, <2>2 DEF MemoType
  <2> QED BY <2>1, <2>2
<1>9. MemoType(m)
  BY <1>7, <1>8 DEF MemoType
<1> QED BY <1>9 DEF m
---------------------------------------------------------------------------
\* The type invariant.

TypeInv ==
  /\ TreeInv
  /\ LedgerType(ledger_state)
  /\ MemoType(epoch_state)

LEMMA SettledLedger ==
  ASSUME NEW tip, NEW tips, NEW ledger, LedgerType(ledger), settle(tip, tips, ledger)
  PROVE  LedgerType(ledger_state')
<1>1. CASE ledger_state' = ledger
  BY <1>1
<1>2. CASE ledger_state' = Restrict(ledger, kept(lib_of(tip, DOMAIN ledger), DOMAIN ledger))
  <2> DEFINE T == kept(lib_of(tip, DOMAIN ledger), DOMAIN ledger)
  <2>1. T \subseteq DOMAIN ledger
    BY DEF kept
  <2> HIDE DEF T
  <2>2. ledger_state' = [b \in T |-> ledger[b]]
    BY <1>2 DEF Restrict, T
  <2> QED BY <2>1, <2>2 DEF LedgerType
<1> QED BY <1>1, <1>2 DEF settle, update_lib

LEMMA AcceptedTypes ==
  ASSUME TypeInv, NEW b \in Blocks, ExtendLocalChain(b) \/ ExtendFork(b)
  PROVE  LedgerType(ledger_state') /\ MemoType(epoch_state')
<1>1. /\ parent(b) \in states
      /\ epoch_state' = memoised(epoch_of(slot(b)), parent(b))
  BY DEF ExtendLocalChain, ExtendFork, Accepted, parent_found
<1>2. MemoType(epoch_state')
  BY <1>1, EpochOfBlock, MemoisedType DEF TypeInv
<1>3. LedgerType(with_block(b))
  BY <1>1 DEF TypeInv, LedgerType, with_block, states
<1>4. \E tip, tips : settle(tip, tips, with_block(b))
  BY DEF ExtendLocalChain, ExtendFork
<1>5. LedgerType(ledger_state')
  BY <1>3, <1>4, SettledLedger
<1> QED BY <1>2, <1>5

LEMMA StepTypes == TypeInv /\ [Next \/ Rebootstrap]_vars => TypeInv'
<1> SUFFICES ASSUME TypeInv, [Next \/ Rebootstrap]_vars
             PROVE  LedgerType(ledger_state') /\ MemoType(epoch_state')
  BY StepTree DEF TypeInv, LedgerType, MemoType
<1>1. ASSUME ledger_state' = ledger_state, epoch_state' = epoch_state
      PROVE  LedgerType(ledger_state') /\ MemoType(epoch_state')
  BY <1>1 DEF TypeInv
<1>2. ASSUME NEW b \in Blocks, on_block(b)
      PROVE  LedgerType(ledger_state') /\ MemoType(epoch_state')
  <2>1. CASE DropKnown(b) \/ RaiseParentNotFound(b) \/ RaiseImmutableFork(b)
    BY <1>1, <2>1 DEF DropKnown, RaiseParentNotFound, RaiseImmutableFork, vars
  <2>2. CASE RaiseInvalidLeaderProof(b)
    <3>1. /\ parent(b) \in states /\ ledger_state' = ledger_state
          /\ epoch_state' = memoised(epoch_of(slot(b)), parent(b))
      BY <2>2 DEF RaiseInvalidLeaderProof, parent_found
    <3>2. MemoType(epoch_state')
      BY <3>1, EpochOfBlock, MemoisedType DEF TypeInv
    <3> QED BY <3>1, <3>2 DEF TypeInv
  <2>3. CASE ExtendLocalChain(b) \/ ExtendFork(b)
    BY <2>3, AcceptedTypes
  <2> QED BY <1>2, <2>1, <2>2, <2>3 DEF on_block
<1>3. ASSUME NEW b \in Blocks, NEW n \in Mintable, MintNote(b, n)
      PROVE  LedgerType(ledger_state') /\ MemoType(epoch_state')
  <2>1. /\ ledger_state' = [ledger_state EXCEPT ![b] = @ \cup {n}]
        /\ epoch_state' = epoch_state
    BY <1>3 DEF MintNote
  <2>2. n \in Note
    BY NotesAssumption
  <2>3. LedgerType(ledger_state')
    BY <2>1, <2>2 DEF TypeInv, LedgerType
  <2> QED BY <2>1, <2>3 DEF TypeInv
<1>4. CASE to_online
  <2>1. settle(local_chain, forks, ledger_state) /\ epoch_state' = epoch_state
    BY <1>4 DEF to_online
  <2> QED BY <2>1, SettledLedger DEF TypeInv
<1>5. CASE Rebootstrap
  BY <1>1, <1>5 DEF Rebootstrap
<1>6. CASE UNCHANGED vars
  BY <1>1, <1>6 DEF vars
<1> QED BY <1>2, <1>3, <1>4, <1>5, <1>6 DEF Next

LEMMA InitTypes == Init => TypeInv
<1> SUFFICES ASSUME Init PROVE LedgerType(ledger_state) /\ MemoType(epoch_state)
  BY InitTree DEF TypeInv
<1>1. LedgerType(ledger_state)
  BY NotesAssumption DEF Init, LedgerType
<1>2. DOMAIN epoch_state = {}
  BY DEF Init
<1> QED BY <1>1, <1>2 DEF MemoType

(***************************************************************************)
(* The state of a Follower always has the types Follower.__init__ gives    *)
(* it; in particular no inferred stake that compute_epoch_state memoises   *)
(* is negative and every nonce snapshot is that of a stored block.         *)
(***************************************************************************)
THEOREM TypesAlways == RestartSpec => []TypeOK
<1>1. TypeInv => TypeOK
  <2> SUFFICES ASSUME TypeInv PROVE TypeOK
    OBVIOUS
  <2>1. states \subseteq Blocks /\ local_chain \in states /\ lib \in states
    BY DEF TypeInv, TreeInv, Consistent, leaves_of
  <2>2. forks \in Seq(states)
    BY DEF TypeInv, TreeInv, Consistent
  <2>3. forks \in Seq(Blocks)
    <3> HIDE DEF states
    <3> QED BY <2>1, <2>2
  <2>4. \A b \in states : ledger_state[b] \subseteq Note
    BY DEF TypeInv, LedgerType, states
  <2>5. state \in {"ONLINE", "BOOTSTRAPPING"}
    BY DEF TypeInv, TreeInv
  <2>6. MemoType(epoch_state)
    BY DEF TypeInv
  <2> QED BY <2>1, <2>3, <2>4, <2>5, <2>6 DEF TypeOK, MemoType, MemoRecord, Snapshot
<1>2. Init => TypeInv
  BY InitTypes
<1> QED BY <1>1, <1>2, StepTypes, PTL DEF RestartSpec

---------------------------------------------------------------------------
(***************************************************************************)
(* Snapshots and epoch states of a chain by its blocks alone, whatever the *)
(* node stores; an exact memo holds these only.                            *)
(***************************************************************************)
EarlyOf(b, sl) == { c \in iter_chain(b, Seq(Header)) : slot(c) < sl }

SnapshotOf(b, sl) ==
  IF EarlyOf(b, sl) = {} THEN GenesisState
  ELSE CHOOSE c \in EarlyOf(b, sl) : \A d \in EarlyOf(b, sl) : Len(d) =< Len(c)

StakeSlot(e) == (e - 1) * epoch_length
NonceSlot(e) == epoch_relative_nonce_slot + (e - 1) * epoch_length

ScratchStep(prev, e, b) ==
  [stake |-> SnapshotOf(b, StakeSlot(e)), nonce |-> SnapshotOf(b, NonceSlot(e)),
   inferred |-> infer_total_active_stake(prev, SnapshotOf(b, NonceSlot(e)),
                                         SnapshotOf(b, StakeSlot(e)))]

ScratchRun(f, epoch, b) ==
  f = [e \in 0 .. epoch |->
         IF e = 0 THEN GenesisEpoch ELSE ScratchStep(f[e-1].inferred, e, b)]

MemoExact(memo) ==
  \A key \in DOMAIN memo :
    \E f : ScratchRun(f, key[1], key[2]) /\ memo[key] = f[key[1]]

LEMMA SlotsInOrder ==
  ASSUME NEW e \in Nat \ {0}, NEW i \in 1 .. e
  PROVE  /\ StakeSlot(i) \in Nat /\ NonceSlot(i) \in Nat /\ NonceSlot(e) \in Nat
         /\ 0 < NonceSlot(e) /\ StakeSlot(i) =< NonceSlot(i) /\ NonceSlot(i) =< NonceSlot(e)
<1> DEFINE L == epoch_length  R == epoch_relative_nonce_slot
<1>1. L \in Nat /\ R \in Nat \ {0}
  BY EpochLengths
<1>2. i - 1 \in Nat /\ e - 1 \in Nat /\ e - i \in Nat /\ e - 1 = (i - 1) + (e - i)
  OBVIOUS
<1> HIDE DEF L, R
<1>3. \A x, y, z \in Nat : x * z \in Nat /\ (x + y) * z = x * z + y * z
  OBVIOUS
<1>4. /\ (i - 1) * L \in Nat /\ (e - i) * L \in Nat
      /\ (e - 1) * L = (i - 1) * L + (e - i) * L
  BY <1>1, <1>2, <1>3
<1>5. /\ StakeSlot(i) = (i - 1) * L
      /\ NonceSlot(i) = R + (i - 1) * L /\ NonceSlot(e) = R + (e - 1) * L
  BY DEF StakeSlot, NonceSlot, L, R
<1> DEFINE a == (i - 1) * L  b == (e - i) * L  c == (e - 1) * L
<1> HIDE DEF a, b, c
<1>6. a \in Nat /\ b \in Nat /\ c = a + b
  BY <1>4 DEF a, b, c
<1>7. StakeSlot(i) = a /\ NonceSlot(i) = R + a /\ NonceSlot(e) = R + c
  BY <1>5 DEF a, c
<1> QED BY <1>1, <1>6, <1>7

\* A stored tip's snapshots are those of its chain.
LEMMA SnapshotIsOf ==
  ASSUME TreeInv, NEW tip \in states, NEW sl
  PROVE  /\ Early(tip, sl) = EarlyOf(tip, sl)
         /\ state_at_slot_beginning(tip, sl) = SnapshotOf(tip, sl)
<1>1. Tree(states, Header) /\ tip \in Seq(Header)
  BY DEF TreeInv, Consistent, Tree
<1>2. Tree(Seq(Header), Header)
  BY ParentProperties, EmptySeq DEF Tree, Genesis
<1>3. iter_chain(tip, states) = iter_chain(tip, Seq(Header))
  BY <1>1, <1>2, ChainOf
<1>4. Early(tip, sl) = EarlyOf(tip, sl)
  BY <1>3 DEF Early, EarlyOf
<1>5. state_at_slot_beginning(tip, sl) =
        IF Early(tip, sl) = {} THEN GenesisState
        ELSE CHOOSE c \in Early(tip, sl) : \A d \in Early(tip, sl) : Len(d) =< Len(c)
  BY DEF state_at_slot_beginning, Early
<1> QED BY <1>4, <1>5 DEF SnapshotOf

(***************************************************************************)
(* The nonce snapshot of epoch e is a block with which the chain shares    *)
(* all the snapshots of the epochs up to e: none is taken at a later slot. *)
(***************************************************************************)
LEMMA SnapshotsBelow ==
  ASSUME TreeInv, NEW tip \in states, NEW e \in Nat \ {0}
  PROVE  LET n == nonce_snapshot(e, tip) IN
         /\ n \in states /\ memo_key(e, tip) = << e, n >>
         /\ \A i \in 1 .. e : \A prev : ScratchStep(prev, i, n) = ScratchStep(prev, i, tip)
<1> DEFINE n == nonce_snapshot(e, tip)
<1>1. e \in 1 .. e
  OBVIOUS
<1>2. /\ n \in Early(tip, NonceSlot(e))
      /\ \A d \in Early(tip, NonceSlot(e)) : Len(d) =< Len(n)
  <2>1. n = state_at_slot_beginning(tip, NonceSlot(e))
    BY DEF nonce_snapshot, NonceSlot
  <2> HIDE DEF n
  <2>2. NonceSlot(e) \in Nat /\ 0 < NonceSlot(e)
    BY <1>1, SlotsInOrder
  <2> DEFINE sl == NonceSlot(e)
  <2> HIDE DEF sl
  <2>3. sl \in Int /\ 0 < sl
    BY <2>2 DEF sl
  <2>4. Early(tip, sl) # {}
    BY <2>3, EarlyBlocks
  <2>5. \/ Early(tip, sl) = {} /\ n = GenesisState
        \/ n \in Early(tip, sl) /\ \A d \in Early(tip, sl) : Len(d) =< Len(n)
    BY <2>1, <2>3, SnapshotKinds DEF sl
  <2> QED BY <2>4, <2>5 DEF sl
<1>3. n \in states /\ n \in Blocks
  <2>1. NonceSlot(e) \in Int
    BY <1>1, SlotsInOrder
  <2> HIDE DEF n
  <2> QED BY <1>2, <2>1, EarlyBlocks
<1>4. memo_key(e, tip) = << e, n >>
  BY <1>3, MarkersAssumption DEF memo_key, block_of
<1> HIDE DEF n
<1>5. Tree(states, Header) /\ tip \in Seq(Header) /\ n \in Seq(Header)
  BY <1>3 DEF TreeInv, Consistent, Tree
<1>6. Below(n, tip)
  BY <1>2, <1>5, AncestorIsBelow DEF Early, is_ancestor
<1>7. ASSUME NEW sl \in Int, sl =< NonceSlot(e)
      PROVE  SnapshotOf(n, sl) = SnapshotOf(tip, sl)
  <2>1. ASSUME NEW c PROVE c \in Early(n, sl) <=> c \in Early(tip, sl)
    <3>1. NonceSlot(e) \in Int
      BY <1>1, SlotsInOrder
    <3>2. \A d \in Blocks : slot(d) \in Int
      BY SlotOfBlock
    <3>3. CASE c \in Early(n, sl)
      <4>1. c \in Seq(Header) /\ Below(c, n) /\ slot(c) < sl
        BY <1>3, <1>5, <3>3, AncestorIsBelow DEF Early, is_ancestor
      <4>2. Below(c, tip)
        BY <1>5, <1>6, <4>1, BelowTransitive
      <4> QED BY <1>5, <3>3, <4>1, <4>2, AncestorIsBelow DEF Early, is_ancestor
    <3>4. CASE c \in Early(tip, sl)
      <4>1. c \in Seq(Header) /\ Below(c, tip) /\ slot(c) < sl
        BY <1>5, <3>4, AncestorIsBelow DEF Early, is_ancestor
      <4>2. c \in Blocks
        BY <3>4, EarlyBlocks
      <4>3. slot(c) < NonceSlot(e)
        BY <1>7, <3>1, <3>2, <4>1, <4>2
      <4>4. Len(c) =< Len(n)
        BY <1>2, <3>4, <4>3 DEF Early
      <4>5. Below(c, n)
        BY <1>5, <1>6, <4>1, <4>4, BelowLinear
      <4> QED BY <1>3, <1>5, <4>1, <4>5, AncestorIsBelow DEF Early, is_ancestor
    <3> QED BY <3>3, <3>4
  <2>2. Early(n, sl) = Early(tip, sl)
    BY <2>1
  <2>3. EarlyOf(n, sl) = EarlyOf(tip, sl)
    BY <1>3, <2>2, SnapshotIsOf
  <2> QED BY <2>3 DEF SnapshotOf
<1>8. ASSUME NEW i \in 1 .. e, NEW prev
      PROVE  ScratchStep(prev, i, n) = ScratchStep(prev, i, tip)
  <2>1. /\ StakeSlot(i) \in Int /\ StakeSlot(i) =< NonceSlot(e)
        /\ NonceSlot(i) \in Int /\ NonceSlot(i) =< NonceSlot(e)
    BY SlotsInOrder
  <2>2. /\ SnapshotOf(n, StakeSlot(i)) = SnapshotOf(tip, StakeSlot(i))
        /\ SnapshotOf(n, NonceSlot(i)) = SnapshotOf(tip, NonceSlot(i))
    BY <1>7, <2>1
  <2> QED BY <2>2 DEF ScratchStep
<1> QED BY <1>3, <1>4, <1>8 DEF n

\* Two chains whose snapshots agree up to e have the same epoch states up to e.
LEMMA RunsAgree ==
  ASSUME NEW m \in Nat, NEW e \in 0 .. m, NEW a, NEW b, NEW g, NEW h,
         ScratchRun(g, m, a), ScratchRun(h, e, b),
         \A i \in 1 .. e : \A prev : ScratchStep(prev, i, b) = ScratchStep(prev, i, a)
  PROVE  \A i \in 0 .. e : g[i] = h[i]
<1>1. /\ g[0] = GenesisEpoch
      /\ \A i \in 1 .. m : g[i] = ScratchStep(g[i-1].inferred, i, a)
  BY DEF ScratchRun
<1>2. /\ h[0] = GenesisEpoch
      /\ \A i \in 1 .. e : h[i] = ScratchStep(h[i-1].inferred, i, b)
  BY DEF ScratchRun
<1> DEFINE I == { i \in 0 .. e : g[i] = h[i] }
<1>3. 0 \in I
  BY <1>1, <1>2
<1>4. ASSUME NEW i \in 0 .. e-1, i \in I PROVE i+1 \in I
  <2>1. i+1 \in 1 .. e /\ i+1 \in 1 .. m /\ i+1 \in 0 .. e /\ (i+1)-1 = i
    OBVIOUS
  <2>2. g[i+1] = ScratchStep(g[i].inferred, i+1, a) /\ h[i+1] = ScratchStep(h[i].inferred, i+1, b)
    BY <1>1, <1>2, <2>1
  <2> QED BY <1>4, <2>1, <2>2
<1>5. e \in Nat
  OBVIOUS
<1>6. 0 .. e \subseteq I
  <2> HIDE DEF I
  <2> QED BY <1>3, <1>4, <1>5, BoundedInduction
<1> QED BY <1>6

\* What the memo does not hold is computed from scratch.
LEMMA EmptyMemo ==
  ASSUME TreeInv, NEW tip \in states, NEW memo, NEW e, memo_key(e, tip) \notin DOMAIN memo,
         NEW prev
  PROVE  EpochStep(prev, e, tip, memo) = ScratchStep(prev, e, tip)
<1>1. /\ stake_distribution_snapshot(e, tip) = SnapshotOf(tip, StakeSlot(e))
      /\ nonce_snapshot(e, tip) = SnapshotOf(tip, NonceSlot(e))
  BY SnapshotIsOf DEF stake_distribution_snapshot, nonce_snapshot, StakeSlot, NonceSlot
<1> QED BY <1>1 DEF EpochStep, ScratchStep

LEMMA ScratchIsRun ==
  ASSUME TreeInv, NEW tip \in states, NEW epoch \in Nat, NEW f
  PROVE  EpochRun(f, epoch, tip, << >>) <=> ScratchRun(f, epoch, tip)
<1> DEFINE F == [e \in 0 .. epoch |->
                   IF e = 0 THEN GenesisEpoch ELSE EpochStep(f[e-1].inferred, e, tip, << >>)]
           G == [e \in 0 .. epoch |->
                   IF e = 0 THEN GenesisEpoch ELSE ScratchStep(f[e-1].inferred, e, tip)]
<1>1. \A e : memo_key(e, tip) \notin DOMAIN << >>
  OBVIOUS
<1>2. \A e, prev : EpochStep(prev, e, tip, << >>) = ScratchStep(prev, e, tip)
  BY <1>1, EmptyMemo
<1>3. F = G
  BY <1>2
<1> QED BY <1>3 DEF EpochRun, ScratchRun

LEMMA ScratchExists ==
  ASSUME TreeInv, NEW tip \in states, NEW epoch \in Nat
  PROVE  \E f : ScratchRun(f, epoch, tip)
<1>1. MemoType(<< >>)
  BY DEF MemoType
<1> QED BY <1>1, EpochRunExists, ScratchIsRun

\* Over an exact memo, compute_epoch_state answers what it would from scratch.
LEMMA MemoAgrees ==
  ASSUME TreeInv, NEW tip \in states, NEW memo, MemoExact(memo),
         NEW epoch \in Nat, NEW f, EpochRun(f, epoch, tip, memo),
         NEW g, ScratchRun(g, epoch, tip)
  PROVE  \A e \in 0 .. epoch : f[e] = g[e]
<1>1. /\ f[0] = GenesisEpoch
      /\ \A e \in 1 .. epoch : f[e] = EpochStep(f[e-1].inferred, e, tip, memo)
  BY DEF EpochRun
<1>2. /\ g[0] = GenesisEpoch
      /\ \A e \in 1 .. epoch : g[e] = ScratchStep(g[e-1].inferred, e, tip)
  BY DEF ScratchRun
<1> DEFINE I == { e \in 0 .. epoch : f[e] = g[e] }
<1>3. 0 \in I
  BY <1>1, <1>2
<1>4. ASSUME NEW i \in 0 .. epoch-1, i \in I PROVE i+1 \in I
  <2> DEFINE e == i+1
             n == nonce_snapshot(e, tip)
  <2>1. e \in 1 .. epoch /\ e \in 0 .. epoch /\ e-1 = i /\ e \in Nat \ {0}
    OBVIOUS
  <2> HIDE DEF e
  <2>2. /\ f[e] = EpochStep(f[i].inferred, e, tip, memo)
        /\ g[e] = ScratchStep(g[i].inferred, e, tip)
    BY <1>1, <1>2, <2>1
  <2>3. CASE memo_key(e, tip) \notin DOMAIN memo
    BY <1>4, <2>1, <2>2, <2>3, EmptyMemo DEF e
  <2>4. CASE memo_key(e, tip) \in DOMAIN memo
    <3>1. /\ memo_key(e, tip) = << e, n >>
          /\ \A j \in 1 .. e : \A prev : ScratchStep(prev, j, n) = ScratchStep(prev, j, tip)
      BY <2>1, SnapshotsBelow
    <3> HIDE DEF n
    <3>2. f[e] = memo[<< e, n >>]
      BY <2>2, <2>4, <3>1 DEF EpochStep
    <3>3. PICK h : ScratchRun(h, e, n) /\ memo[<< e, n >>] = h[e]
      BY <2>4, <3>1 DEF MemoExact
    <3>4. \A j \in 0 .. e : g[j] = h[j]
      BY <2>1, <3>1, <3>3, RunsAgree
    <3>5. e \in 0 .. e
      BY <2>1
    <3> QED BY <2>1, <3>2, <3>3, <3>4, <3>5 DEF e
  <2> QED BY <2>3, <2>4
<1>5. 0 .. epoch \subseteq I
  <2> HIDE DEF I
  <2> QED BY <1>3, <1>4, BoundedInduction
<1> QED BY <1>5

LEMMA EpochStatesExact ==
  ASSUME TreeInv, NEW tip \in states, NEW memo, MemoType(memo), MemoExact(memo),
         NEW epoch \in Nat, NEW g, ScratchRun(g, epoch, tip)
  PROVE  \A e \in 0 .. epoch : epoch_states(epoch, tip, memo)[e] = g[e]
<1> DEFINE st == epoch_states(epoch, tip, memo)
<1>1. st = CHOOSE f : EpochRun(f, epoch, tip, memo)
  BY DEF epoch_states, EpochRun, EpochStep
<1> HIDE DEF st
<1>2. EpochRun(st, epoch, tip, memo)
  BY <1>1, EpochRunExists
<1>3. \A e \in 0 .. epoch : st[e] = g[e]
  BY <1>2, MemoAgrees
<1> QED BY <1>3 DEF st

LEMMA MemoisedExact ==
  ASSUME TreeInv, NEW tip \in states, MemoType(epoch_state), MemoExact(epoch_state),
         NEW epoch \in Nat
  PROVE  MemoExact(memoised(epoch, tip))
<1> DEFINE computed == { e \in 1 .. epoch : \A i \in e .. epoch :
                                               memo_key(i, tip) \notin DOMAIN epoch_state }
           st == epoch_states(epoch, tip, epoch_state)
           fresh == { memo_key(e, tip) : e \in computed }
           m == memoised(epoch, tip)
<1>1. m = [key \in DOMAIN epoch_state \cup fresh |->
             IF key \in fresh THEN st[key[1]] ELSE epoch_state[key]]
  BY DEF memoised
<1>2. PICK g : ScratchRun(g, epoch, tip)
  BY ScratchExists
<1>3. \A e \in 0 .. epoch : st[e] = g[e]
  BY <1>2, EpochStatesExact
<1>4. computed \subseteq 1 .. epoch
  OBVIOUS
<1> HIDE DEF computed, st, m
<1>5. ASSUME NEW key \in fresh
      PROVE  \E f : ScratchRun(f, key[1], key[2]) /\ st[key[1]] = f[key[1]]
  <2>1. PICK e \in 1 .. epoch : key = memo_key(e, tip)
    BY <1>4, <1>5
  <2> DEFINE n == nonce_snapshot(e, tip)
  <2>2. e \in Nat \ {0} /\ e \in Nat /\ e \in 0 .. epoch /\ e \in 0 .. e
    OBVIOUS
  <2>3. /\ n \in states /\ memo_key(e, tip) = << e, n >>
        /\ \A j \in 1 .. e : \A prev : ScratchStep(prev, j, n) = ScratchStep(prev, j, tip)
    BY <2>2, SnapshotsBelow
  <2> HIDE DEF n
  <2>4. PICK h : ScratchRun(h, e, n)
    BY <2>2, <2>3, ScratchExists
  <2>5. \A j \in 0 .. e : g[j] = h[j]
    BY <1>2, <2>2, <2>3, <2>4, RunsAgree
  <2>6. st[e] = h[e]
    BY <1>3, <2>2, <2>5
  <2>7. key[1] = e /\ key[2] = n
    BY <2>1, <2>3
  <2> QED BY <2>4, <2>6, <2>7
<1> HIDE DEF fresh
<1>6. ASSUME NEW key \in DOMAIN m
      PROVE  \E f : ScratchRun(f, key[1], key[2]) /\ m[key] = f[key[1]]
  <2>1. CASE key \in fresh
    BY <1>1, <1>5, <2>1
  <2>2. CASE key \notin fresh
    <3>1. key \in DOMAIN epoch_state /\ m[key] = epoch_state[key]
      BY <1>1, <2>2
    <3> QED BY <3>1 DEF MemoExact
  <2> QED BY <2>1, <2>2
<1>7. MemoExact(m)
  BY <1>6 DEF MemoExact
<1> QED BY <1>7 DEF m

\* The invariant of the memo; it needs the types, which the runs' existence rests on.
MemoInv == TypeInv /\ MemoExact(epoch_state)

LEMMA StepMemo == MemoInv /\ [Next \/ Rebootstrap]_vars => MemoInv'
<1> SUFFICES ASSUME MemoInv, [Next \/ Rebootstrap]_vars PROVE MemoExact(epoch_state')
  BY StepTypes DEF MemoInv, MemoExact
<1>1. CASE epoch_state' = epoch_state
  BY <1>1 DEF MemoInv
<1>2. ASSUME NEW b \in Blocks, on_block(b) PROVE MemoExact(epoch_state')
  <2>1. CASE DropKnown(b) \/ RaiseParentNotFound(b) \/ RaiseImmutableFork(b)
    BY <1>1, <2>1 DEF DropKnown, RaiseParentNotFound, RaiseImmutableFork, vars
  <2>2. CASE RaiseInvalidLeaderProof(b) \/ ExtendLocalChain(b) \/ ExtendFork(b)
    <3>1. /\ parent(b) \in states
          /\ epoch_state' = memoised(epoch_of(slot(b)), parent(b))
      BY <2>2 DEF RaiseInvalidLeaderProof, ExtendLocalChain, ExtendFork, Accepted, parent_found
    <3> QED BY <3>1, EpochOfBlock, MemoisedExact DEF MemoInv, TypeInv
  <2> QED BY <1>2, <2>1, <2>2 DEF on_block
<1>3. CASE \E b \in Blocks, n \in Mintable : MintNote(b, n)
  BY <1>1, <1>3 DEF MintNote
<1>4. CASE to_online \/ Rebootstrap \/ UNCHANGED vars
  BY <1>1, <1>4 DEF to_online, Rebootstrap, vars
<1> QED BY <1>2, <1>3, <1>4 DEF Next

LEMMA InitMemo == Init => MemoInv
<1>1. Init => MemoExact(epoch_state)
  BY DEF Init, MemoExact
<1> QED BY <1>1, InitTypes DEF MemoInv

LEMMA MemoAlways == RestartSpec => []MemoInv
BY InitMemo, StepMemo, PTL DEF RestartSpec

(***************************************************************************)
(* What the memo of compute_epoch_state answers is what a computation from *)
(* scratch would, on every chain, after any switches and pruning: all the  *)
(* snapshots of the epochs up to e are on the chain of e's nonce snapshot, *)
(* which is in the key.                                                    *)
(***************************************************************************)
THEOREM MemoIsExactAlways == RestartSpec => []MemoIsExact
<1>1. MemoInv => MemoIsExact
  <2> SUFFICES ASSUME MemoInv, NEW tip \in states, NEW key \in DOMAIN epoch_state,
                      memo_key(key[1], tip) = key
               PROVE  epoch_state[key] = epoch_states(key[1], tip, << >>)[key[1]]
    BY DEF MemoIsExact
  <2> DEFINE e == key[1]
             n == nonce_snapshot(e, tip)
  <2>1. TreeInv /\ MemoExact(epoch_state) /\ e \in Nat \ {0} /\ e \in Nat
    BY DEF MemoInv, TypeInv, MemoType
  <2> HIDE DEF e
  <2>2. /\ memo_key(e, tip) = << e, n >>
        /\ \A i \in 1 .. e : \A prev : ScratchStep(prev, i, n) = ScratchStep(prev, i, tip)
    BY <2>1, SnapshotsBelow
  <2> HIDE DEF n
  <2>3. key[2] = n
    BY <2>2 DEF e
  <2>4. PICK h : ScratchRun(h, e, n) /\ epoch_state[key] = h[e]
    BY <2>1, <2>3 DEF MemoExact, e
  <2>5. PICK g : ScratchRun(g, e, tip)
    BY <2>1, ScratchExists
  <2>6. e \in 0 .. e
    BY <2>1
  <2>7. \A i \in 0 .. e : g[i] = h[i]
    BY <2>1, <2>2, <2>4, <2>5, <2>6, RunsAgree
  <2>8. MemoType(<< >>) /\ MemoExact(<< >>)
    BY DEF MemoType, MemoExact
  <2>9. epoch_states(e, tip, << >>)[e] = g[e]
    BY <2>1, <2>5, <2>6, <2>8, EpochStatesExact
  <2> QED BY <2>4, <2>6, <2>7, <2>9 DEF e
<1> QED BY <1>1, MemoAlways, PTL

---------------------------------------------------------------------------
\* Where the note that leads b comes from, by the blocks below b and their ledger states.
FrozenNote(b, ledger) ==
  \/ header(b).proof \in GenesisNotes
  \/ \E m \in DOMAIN ledger : /\ Below(m, b)
                              /\ header(b).proof \in ledger[m]
                              /\ epoch_of(slot(m)) + 2 =< epoch_of(slot(b))

StakeInv == MemoInv /\ \A b \in states \ {Genesis} : FrozenNote(b, ledger_state)

LEMMA StakeIsFrozenMeans ==
  ASSUME TreeInv, NEW b \in states
  PROVE  FrozenNote(b, ledger_state) <=>
           \/ header(b).proof \in GenesisNotes
           \/ \E m \in iter_chain(b, states) :
                /\ header(b).proof \in ledger_state[m]
                /\ epoch_of(slot(m)) + 2 =< epoch_of(slot(b))
<1>1. Tree(states, Header)
  BY DEF TreeInv, Consistent
<1>2. \A m : m \in iter_chain(b, states) <=> m \in Seq(Header) /\ Below(m, b)
  BY <1>1, AncestorIsBelow DEF is_ancestor
<1>3. \A m : m \in iter_chain(b, states) <=> m \in states /\ Below(m, b)
  BY <1>1, <1>2, BelowInTree DEF Tree
<1> QED BY <1>3 DEF FrozenNote, states

\* A slot before the beginning of the last epoch but one is in an earlier epoch than that.
LEMMA EarlyEpoch ==
  ASSUME NEW E \in Nat \ {0}, NEW sl \in Nat, sl < StakeSlot(E)
  PROVE  epoch_of(sl) + 2 =< E
<1> DEFINE L == epoch_length
           q == sl \div L
           r == sl % L
<1>1. L \in Nat \ {0}
  BY EpochLengths
<1> HIDE DEF L
<1>2. q \in Nat /\ r \in Nat /\ sl = L * q + r
  BY <1>1
<1> HIDE DEF q, r
<1>3. SUFFICES ASSUME E - 1 =< q PROVE FALSE
  BY <1>2 DEF epoch_of, q, L
<1>4. \A x, y, z \in Nat : x =< y => x * z =< z * y
  OBVIOUS
<1>5. E - 1 \in Nat /\ (E - 1) * L =< L * q
  BY <1>1, <1>2, <1>3, <1>4
<1>6. sl < (E - 1) * L
  BY DEF StakeSlot, L
<1> DEFINE x == (E - 1) * L  y == L * q
<1>7. x \in Nat /\ y \in Nat
  BY <1>1, <1>2, <1>5
<1> HIDE DEF x, y
<1>8. x =< y /\ sl < x /\ sl = y + r
  BY <1>2, <1>5, <1>6 DEF x, y
<1> QED BY <1>2, <1>7, <1>8

\* The leader proof of an accepted block was in the snapshot its own chain froze.
LEMMA AcceptedStake ==
  ASSUME MemoInv, NEW b \in Blocks, Accepted(b)
  PROVE  FrozenNote(b, with_block(b))
<1> DEFINE E == epoch_of(slot(b))
           tip == parent(b)
           st == epoch_states(E, tip, epoch_state)
<1>1. tip \in states /\ b \notin states /\ leader_proof_valid(b)
  BY DEF Accepted, parent_found
<1>2. E \in Nat /\ TreeInv
  BY EpochOfBlock DEF MemoInv, TypeInv
<1>3. header(b).proof \in commitments(st[E].stake)
  BY <1>1 DEF leader_proof_valid, verify, compute_epoch_state
<1> HIDE DEF E, tip
<1>4. PICK g : ScratchRun(g, E, tip)
  BY <1>1, <1>2, ScratchExists
<1>5. st[E] = g[E]
  <2>1. \A e \in 0 .. E : st[e] = g[e]
    BY <1>1, <1>2, <1>4, EpochStatesExact DEF MemoInv, TypeInv
  <2> QED BY <1>2, <2>1
<1> HIDE DEF st
<1>6. CASE E = 0
  <2>1. g[E].stake = GenesisState
    BY <1>4, <1>6 DEF ScratchRun, GenesisEpoch
  <2> QED BY <1>3, <1>5, <2>1 DEF commitments, FrozenNote
<1>7. CASE E # 0
  <2> DEFINE sl == StakeSlot(E)
             s == state_at_slot_beginning(tip, sl)
  <2>1. E \in Nat \ {0} /\ E \in 1 .. E
    BY <1>2, <1>7
  <2>2. sl \in Int
    BY <2>1, SlotsInOrder
  <2> HIDE DEF sl
  <2>3. s = SnapshotOf(tip, sl)
    BY <1>1, <1>2, SnapshotIsOf
  <2>4. g[E].stake = s
    <3>1. g[E] = ScratchStep(g[E-1].inferred, E, tip)
      BY <1>4, <1>7, <2>1 DEF ScratchRun
    <3> QED BY <2>3, <3>1 DEF ScratchStep, sl
  <2>5. \/ s = GenesisState
        \/ s \in Early(tip, sl)
    BY <1>1, <1>2, <2>2, SnapshotKinds
  <2> HIDE DEF s
  <2>6. CASE s = GenesisState
    BY <1>3, <1>5, <2>4, <2>6 DEF commitments, FrozenNote
  <2>7. CASE s \in Early(tip, sl)
    <3>1. s \in states /\ s \in Blocks
      BY <1>1, <1>2, <2>2, <2>7, EarlyBlocks
    <3>2. header(b).proof \in ledger_state[s]
      BY <1>3, <1>5, <2>4, <3>1, MarkersAssumption DEF commitments
    <3>3. Below(s, b)
      <4>1. Tree(states, Header) /\ tip \in Seq(Header) /\ s \in Seq(Header) /\ b \in Seq(Header)
        BY <1>1, <1>2, <3>1, BlocksAssumption DEF TreeInv, Consistent, Tree
      <4>2. Below(s, tip)
        BY <1>1, <2>7, <4>1, AncestorIsBelow DEF Early, is_ancestor
      <4>3. Below(tip, b)
        <5>1. b # Genesis
          BY <1>2, AcceptedStands
        <5> QED BY <4>1, <5>1, ParentProperties DEF tip
      <4> QED BY <4>1, <4>2, <4>3, BelowTransitive
    <3>4. epoch_of(slot(s)) + 2 =< E
      <4>1. slot(s) < sl
        BY <2>7 DEF Early
      <4> QED BY <2>1, <3>1, <4>1, SlotOfBlock, EarlyEpoch DEF sl
    <3>5. s \in DOMAIN with_block(b) /\ with_block(b)[s] = ledger_state[s]
      BY <1>1, <3>1 DEF with_block
    <3> QED BY <3>2, <3>3, <3>4, <3>5 DEF FrozenNote, E
  <2> QED BY <2>5, <2>6, <2>7
<1> QED BY <1>6, <1>7

\* Adding to ledger states, and forgetting blocks that b does not stand on, leave it so.
LEMMA FrozenStays ==
  ASSUME NEW b, NEW ledger, NEW ledger2, FrozenNote(b, ledger),
         \A m \in DOMAIN ledger : Below(m, b) =>
           m \in DOMAIN ledger2 /\ ledger[m] \subseteq ledger2[m]
  PROVE  FrozenNote(b, ledger2)
BY DEF FrozenNote

LEMMA StakeSettles ==
  ASSUME NEW tip, NEW tips, NEW ledger, settle(tip, tips, ledger), TreeInv',
         DOMAIN ledger \subseteq Seq(Header),
         \A b \in DOMAIN ledger \ {Genesis} : FrozenNote(b, ledger)
  PROVE  \A b \in states' \ {Genesis} : FrozenNote(b, ledger_state')
<1> SUFFICES ASSUME NEW b \in states' \ {Genesis} PROVE FrozenNote(b, ledger_state')
  OBVIOUS
<1>1. /\ states' \subseteq DOMAIN ledger
      /\ \A c \in states' : ledger_state'[c] = ledger[c]
  BY SettledStates
<1>2. Tree(states', Header) /\ states' = DOMAIN ledger_state'
  BY DEF TreeInv, Consistent, states
<1>3. ASSUME NEW m \in DOMAIN ledger, Below(m, b)
      PROVE  m \in DOMAIN ledger_state' /\ ledger[m] \subseteq ledger_state'[m]
  <2>1. m \in states'
    BY <1>2, <1>3, BelowInTree
  <2> QED BY <1>1, <1>2, <2>1
<1>4. FrozenNote(b, ledger)
  BY <1>1
<1> QED BY <1>3, <1>4, FrozenStays

LEMMA StepStake == StakeInv /\ [Next \/ Rebootstrap]_vars => StakeInv'
<1> SUFFICES ASSUME StakeInv, [Next \/ Rebootstrap]_vars
             PROVE  \A b \in states' \ {Genesis} : FrozenNote(b, ledger_state')
  BY StepMemo DEF StakeInv, FrozenNote, header
<1>1. TreeInv /\ TreeInv' /\ MemoInv /\ states = DOMAIN ledger_state
  BY StepTree DEF StakeInv, MemoInv, TypeInv, states
<1>2. /\ DOMAIN ledger_state \subseteq Seq(Header)
      /\ \A b \in DOMAIN ledger_state \ {Genesis} : FrozenNote(b, ledger_state)
  BY <1>1 DEF TreeInv, Consistent, Tree, StakeInv
<1>3. CASE ledger_state' = ledger_state
  BY <1>2, <1>3 DEF states
<1>4. CASE to_online
  BY <1>1, <1>2, <1>4, StakeSettles DEF to_online
<1>5. ASSUME NEW b \in Blocks, ExtendLocalChain(b) \/ ExtendFork(b)
      PROVE  \A c \in states' \ {Genesis} : FrozenNote(c, ledger_state')
  <2> DEFINE ledger == with_block(b)
  <2>1. Accepted(b) /\ b \notin states
    BY <1>5 DEF ExtendLocalChain, ExtendFork, Accepted
  <2>2. DOMAIN ledger = states \cup {b} /\ \A c \in states : ledger[c] = ledger_state[c]
    BY <2>1 DEF with_block
  <2>3. FrozenNote(b, ledger)
    BY <1>1, <2>1, AcceptedStake
  <2>4. PICK tip : \E tips : settle(tip, tips, ledger)
    BY <1>5 DEF ExtendLocalChain, ExtendFork
  <2>5. PICK tips : settle(tip, tips, ledger)
    BY <2>4
  <2> HIDE DEF ledger
  <2>6. ASSUME NEW c \in DOMAIN ledger \ {Genesis} PROVE FrozenNote(c, ledger)
    <3>1. CASE c = b
      BY <2>3, <3>1
    <3>2. CASE c # b
      <4>1. FrozenNote(c, ledger_state)
        BY <1>1, <1>2, <2>2, <3>2
      <4> QED BY <1>1, <2>2, <4>1, FrozenStays
    <3> QED BY <3>1, <3>2
  <2>7. DOMAIN ledger \subseteq Seq(Header)
    BY <1>1, <1>2, <2>2, BlocksAssumption
  <2> QED BY <1>1, <2>5, <2>6, <2>7, StakeSettles
<1>6. ASSUME NEW b \in Blocks, NEW n \in Mintable, MintNote(b, n)
      PROVE  \A c \in states' \ {Genesis} : FrozenNote(c, ledger_state')
  <2>1. /\ DOMAIN ledger_state' = DOMAIN ledger_state
        /\ \A m \in DOMAIN ledger_state : ledger_state[m] \subseteq ledger_state'[m]
    BY <1>6 DEF MintNote
  <2> QED BY <1>2, <2>1, FrozenStays DEF states
<1>7. CASE Rebootstrap \/ UNCHANGED vars
  BY <1>3, <1>7 DEF Rebootstrap, vars
<1>8. ASSUME NEW b \in Blocks, on_block(b)
      PROVE  \A c \in states' \ {Genesis} : FrozenNote(c, ledger_state')
  <2>1. CASE DropKnown(b) \/ RaiseParentNotFound(b) \/ RaiseImmutableFork(b)
               \/ RaiseInvalidLeaderProof(b)
    BY <1>3, <2>1 DEF DropKnown, RaiseParentNotFound, RaiseImmutableFork,
                      RaiseInvalidLeaderProof, vars
  <2> QED BY <1>5, <1>8, <2>1 DEF on_block
<1> QED BY <1>4, <1>6, <1>7, <1>8 DEF Next

(***************************************************************************)
(* The leader of every stored block spent a note that was in genesis, or   *)
(* in a ledger state on the block's own chain at least two epochs before   *)
(* (compute_epoch_state and its memo, MockLeaderProof.verify).             *)
(***************************************************************************)
THEOREM StakeIsFrozenAlways == RestartSpec => []StakeIsFrozen
<1>1. Init => StakeInv
  <2> SUFFICES ASSUME Init PROVE StakeInv
    OBVIOUS
  <2>1. MemoInv
    BY InitTypes DEF Init, MemoInv, MemoExact
  <2>2. states = {Genesis}
    BY DEF Init, states
  <2> QED BY <2>1, <2>2 DEF StakeInv
<1>2. StakeInv => StakeIsFrozen
  BY StakeIsFrozenMeans DEF StakeInv, MemoInv, TypeInv, StakeIsFrozen
<1> QED BY <1>1, <1>2, StepStake, PTL DEF RestartSpec
---------------------------------------------------------------------------
(***************************************************************************)
(* The loop of common_prefix_depth: until the deeper tip's turn to meet    *)
(* the block in common, no block that is yielded was seen before.          *)
(***************************************************************************)

\* The first i blocks of t's chain, downwards.
Down(t, i) == [j \in 1 .. i |-> At(t, Len(t) + 1 - j)]

\* The loop's state, suffixes p and q having been yielded, and the tuple it returns.
Walking(a, b, p, q, d, seen, result) ==
  [tip |-> [a |-> a, b |-> b], suffix |-> [a |-> p, b |-> q],
   depth |-> d, seen |-> seen, result |-> result]
Pair(x, y) == [w \in {"a", "b"} |-> IF w = "a" THEN x ELSE y]

Noted(seen, c, d) == [x \in {c} \cup DOMAIN seen |-> IF x = c THEN d ELSE seen[x]]

LEMMA DownGrows ==
  ASSUME NEW H, NEW t \in Seq(H), NEW i \in 0 .. Len(t)
  PROVE  /\ Down(t, i) \in Seq(Seq(H)) /\ Len(Down(t, i)) = i
         /\ Down(t, i) \o << At(t, Len(t) - i) >> = Down(t, i+1)
<1>1. \A j \in 1 .. i + 1 : At(t, Len(t) + 1 - j) \in Seq(H)
  <2> SUFFICES ASSUME NEW j \in 1 .. i + 1 PROVE At(t, Len(t) + 1 - j) \in Seq(H)
    OBVIOUS
  <2>1. Len(t) + 1 - j \in 0 .. Len(t)
    OBVIOUS
  <2> QED BY <2>1, AtProperties
<1> HIDE DEF At
<1>2. Down(t, i) \in Seq(Seq(H)) /\ Len(Down(t, i)) = i
  BY <1>1 DEF Down
<1>3. Down(t, i+1) \in Seq(Seq(H)) /\ Len(Down(t, i+1)) = i+1
  BY <1>1 DEF Down
<1>4. At(t, Len(t) - i) \in Seq(H) /\ Len(t) - i = Len(t) + 1 - (i+1)
  BY <1>1
<1> DEFINE e == Down(t, i) \o << At(t, Len(t) - i) >>
<1>5. e \in Seq(Seq(H)) /\ Len(e) = i+1
  BY <1>2, <1>4
<1>6. \A j \in 1 .. i+1 : e[j] = Down(t, i+1)[j]
  BY <1>2, <1>4 DEF Down
<1> HIDE DEF e
<1>7. e = Down(t, i+1)
  BY <1>3, <1>5, <1>6, SeqEqual
<1> QED BY <1>2, <1>7 DEF e


LEMMA RecordFacts ==
  ASSUME NEW a, NEW b, NEW p, NEW q, NEW d, NEW seen, NEW result, NEW x
  PROVE  LET s == Walking(a, b, p, q, d, seen, result) IN
         /\ s.tip["a"] = a /\ s.tip["b"] = b /\ s.suffix["a"] = p /\ s.suffix["b"] = q
         /\ s.depth = d /\ s.seen = seen /\ s.result = result
         /\ [s EXCEPT !.suffix["a"] = x] = Walking(a, b, x, q, d, seen, result)
         /\ [s EXCEPT !.suffix["b"] = x] = Walking(a, b, p, x, d, seen, result)
         /\ [s EXCEPT !.seen = x] = Walking(a, b, p, q, d, x, result)
         /\ [s EXCEPT !.depth = x] = Walking(a, b, p, q, x, seen, result)
         /\ [s EXCEPT !.result = x] = Walking(a, b, p, q, d, seen, x)
BY DEF Walking

LEMMA YieldsDown ==
  ASSUME NEW H, Tree(states, H), NEW t \in states, NEW i \in 0 .. Len(t) + 1
  PROVE  yields(t, Down(t, i)) = IF i =< Len(t) THEN << At(t, Len(t) - i) >> ELSE << >>
<1>1. t \in Seq(H) /\ Len(t) \in Nat
  BY DEF Tree
<1>2. Len(Down(t, i)) = i
  BY DEF Down
<1>3. CASE i =< Len(t)
  <2>1. Len(t) - i \in 0 .. Len(t)
    BY <1>1, <1>3
  <2>2. At(t, Len(t) - i) \in states
    BY <2>1, TreeHoldsChains
  <2> QED BY <1>1, <1>2, <1>3, <2>1, <2>2 DEF yields
<1>4. CASE ~ (i =< Len(t))
  BY <1>1, <1>2, <1>4 DEF yields
<1> QED BY <1>3, <1>4

LEMMA WalkA ==
  ASSUME NEW H, Tree(states, H), NEW a \in states, NEW b, NEW i \in 0 .. Len(a) + 1,
         NEW q, NEW d, NEW seen
  PROVE  LET s == Walking(a, b, Down(a, i), q, d, seen, << >>)
             c == At(a, Len(a) - i)
         IN  /\ i > Len(a) => walk(s, "a") = s
             /\ i =< Len(a) /\ c \notin DOMAIN seen =>
                  walk(s, "a") = Walking(a, b, Down(a, i+1), q, d, Noted(seen, c, d), << >>)
             /\ i =< Len(a) /\ c \in DOMAIN seen =>
                  walk(s, "a") = Walking(a, b, Down(a, i+1), q, d, seen,
                                      Pair(suffix_upto(Down(a, i+1), d), suffix_upto(q, seen[c])))
<1> DEFINE s == Walking(a, b, Down(a, i), q, d, seen, << >>)
           c == At(a, Len(a) - i)
<1>0. a \in Seq(H) /\ Len(a) \in Nat
  BY DEF Tree
<1>1. s.tip["a"] = a /\ s.suffix["a"] = Down(a, i) /\ s.seen = seen /\ s.depth = d
  BY RecordFacts
<1>2. yields(a, Down(a, i)) = IF i =< Len(a) THEN << c >> ELSE << >>
  BY YieldsDown
<1> DEFINE walked == [s EXCEPT !.suffix["a"] = @ \o yields(a, Down(a, i))]
<1>3. i =< Len(a) => walked = Walking(a, b, Down(a, i+1), q, d, seen, << >>)
  <2> SUFFICES ASSUME i =< Len(a) PROVE walked = Walking(a, b, Down(a, i+1), q, d, seen, << >>)
    OBVIOUS
  <2>1. s.suffix["a"] \o yields(a, Down(a, i)) = Down(a, i+1)
    <3>1. i \in 0 .. Len(a) /\ yields(a, Down(a, i)) = << c >>
      BY <1>0, <1>2
    <3> HIDE DEF s
    <3> QED BY <1>0, <1>1, <3>1, DownGrows
  <2>2. [s EXCEPT !.suffix["a"] = Down(a, i+1)] = Walking(a, b, Down(a, i+1), q, d, seen, << >>)
    BY DEF Walking
  <2> HIDE DEF s
  <2> QED BY <2>1, <2>2
<1>4. << c >> # << >> /\ << c >>[1] = c
  OBVIOUS
<1> HIDE DEF c
<1>5. i > Len(a) => walk(s, "a") = s
  <2> HIDE DEF s
  <2> QED BY <1>0, <1>1, <1>2 DEF walk
<1>6. i =< Len(a) /\ c \notin DOMAIN seen =>
         walk(s, "a") = Walking(a, b, Down(a, i+1), q, d, Noted(seen, c, d), << >>)
  <2> SUFFICES ASSUME i =< Len(a), c \notin DOMAIN seen
               PROVE  walk(s, "a") = Walking(a, b, Down(a, i+1), q, d, Noted(seen, c, d), << >>)
    OBVIOUS
  <2>1. [walked EXCEPT !.seen = Noted(seen, c, d)]
           = Walking(a, b, Down(a, i+1), q, d, Noted(seen, c, d), << >>)
    <3> HIDE DEF walked
    <3> QED BY <1>3, RecordFacts
  <2>2. noted(s, c) = Noted(seen, c, d)
    BY <1>1 DEF noted, Noted
  <2>3. walk(s, "a") = [walked EXCEPT !.seen = noted(s, c)]
    <3> HIDE DEF s
    <3> QED BY <1>1, <1>2, <1>4 DEF walk
  <2> HIDE DEF walked
  <2> QED BY <2>1, <2>2, <2>3
<1>7. i =< Len(a) /\ c \in DOMAIN seen =>
         walk(s, "a") = Walking(a, b, Down(a, i+1), q, d, seen,
                             Pair(suffix_upto(Down(a, i+1), d), suffix_upto(q, seen[c])))
  <2> SUFFICES ASSUME i =< Len(a), c \in DOMAIN seen
               PROVE  walk(s, "a") = Walking(a, b, Down(a, i+1), q, d, seen,
                             Pair(suffix_upto(Down(a, i+1), d), suffix_upto(q, seen[c])))
    OBVIOUS
  <2> DEFINE r == [w \in {"a", "b"} |->
                    suffix_upto(walked.suffix[w], IF w = "a" THEN s.depth ELSE s.seen[c])]
  <2>1. walk(s, "a") = [walked EXCEPT !.result = r]
    <3> HIDE DEF s
    <3> QED BY <1>1, <1>2, <1>4 DEF walk
  <2>2. walked.suffix["a"] = Down(a, i+1) /\ walked.suffix["b"] = q
    <3> HIDE DEF walked
    <3> QED BY <1>3, RecordFacts
  <2>3. r = Pair(suffix_upto(Down(a, i+1), d), suffix_upto(q, seen[c]))
    <3> HIDE DEF walked, s
    <3> QED BY <1>1, <2>2 DEF Pair
  <2>4. [walked EXCEPT !.result = r] = Walking(a, b, Down(a, i+1), q, d, seen, r)
    <3> HIDE DEF walked, r
    <3> QED BY <1>3, RecordFacts
  <2> HIDE DEF walked, r, s
  <2> QED BY <2>1, <2>3, <2>4
<1> HIDE DEF s
<1> QED BY <1>5, <1>6, <1>7 DEF s, c
LEMMA WalkB ==
  ASSUME NEW H, Tree(states, H), NEW a, NEW b \in states, NEW i \in 0 .. Len(b) + 1,
         NEW p, NEW d, NEW seen
  PROVE  LET s == Walking(a, b, p, Down(b, i), d, seen, << >>)
             c == At(b, Len(b) - i)
         IN  /\ i > Len(b) => walk(s, "b") = s
             /\ i =< Len(b) /\ c \notin DOMAIN seen =>
                  walk(s, "b") = Walking(a, b, p, Down(b, i+1), d, Noted(seen, c, d), << >>)
             /\ i =< Len(b) /\ c \in DOMAIN seen =>
                  walk(s, "b") = Walking(a, b, p, Down(b, i+1), d, seen,
                                      Pair(suffix_upto(p, seen[c]), suffix_upto(Down(b, i+1), d)))
<1> DEFINE s == Walking(a, b, p, Down(b, i), d, seen, << >>)
           c == At(b, Len(b) - i)
<1>0. b \in Seq(H) /\ Len(b) \in Nat
  BY DEF Tree
<1>1. s.tip["b"] = b /\ s.suffix["b"] = Down(b, i) /\ s.seen = seen /\ s.depth = d
  BY RecordFacts
<1>2. yields(b, Down(b, i)) = IF i =< Len(b) THEN << c >> ELSE << >>
  BY YieldsDown
<1> DEFINE walked == [s EXCEPT !.suffix["b"] = @ \o yields(b, Down(b, i))]
<1>3. i =< Len(b) => walked = Walking(a, b, p, Down(b, i+1), d, seen, << >>)
  <2> SUFFICES ASSUME i =< Len(b) PROVE walked = Walking(a, b, p, Down(b, i+1), d, seen, << >>)
    OBVIOUS
  <2>1. s.suffix["b"] \o yields(b, Down(b, i)) = Down(b, i+1)
    <3>1. i \in 0 .. Len(b) /\ yields(b, Down(b, i)) = << c >>
      BY <1>0, <1>2
    <3> HIDE DEF s
    <3> QED BY <1>0, <1>1, <3>1, DownGrows
  <2>2. [s EXCEPT !.suffix["b"] = Down(b, i+1)] = Walking(a, b, p, Down(b, i+1), d, seen, << >>)
    BY DEF Walking
  <2> HIDE DEF s
  <2> QED BY <2>1, <2>2
<1>4. << c >> # << >> /\ << c >>[1] = c
  OBVIOUS
<1> HIDE DEF c
<1>5. i > Len(b) => walk(s, "b") = s
  <2> HIDE DEF s
  <2> QED BY <1>0, <1>1, <1>2 DEF walk
<1>6. i =< Len(b) /\ c \notin DOMAIN seen =>
         walk(s, "b") = Walking(a, b, p, Down(b, i+1), d, Noted(seen, c, d), << >>)
  <2> SUFFICES ASSUME i =< Len(b), c \notin DOMAIN seen
               PROVE  walk(s, "b") = Walking(a, b, p, Down(b, i+1), d, Noted(seen, c, d), << >>)
    OBVIOUS
  <2>1. [walked EXCEPT !.seen = Noted(seen, c, d)]
           = Walking(a, b, p, Down(b, i+1), d, Noted(seen, c, d), << >>)
    <3> HIDE DEF walked
    <3> QED BY <1>3, RecordFacts
  <2>2. noted(s, c) = Noted(seen, c, d)
    BY <1>1 DEF noted, Noted
  <2>3. walk(s, "b") = [walked EXCEPT !.seen = noted(s, c)]
    <3> HIDE DEF s
    <3> QED BY <1>1, <1>2, <1>4 DEF walk
  <2> HIDE DEF walked
  <2> QED BY <2>1, <2>2, <2>3
<1>7. i =< Len(b) /\ c \in DOMAIN seen =>
         walk(s, "b") = Walking(a, b, p, Down(b, i+1), d, seen,
                             Pair(suffix_upto(p, seen[c]), suffix_upto(Down(b, i+1), d)))
  <2> SUFFICES ASSUME i =< Len(b), c \in DOMAIN seen
               PROVE  walk(s, "b") = Walking(a, b, p, Down(b, i+1), d, seen,
                             Pair(suffix_upto(p, seen[c]), suffix_upto(Down(b, i+1), d)))
    OBVIOUS
  <2> DEFINE r == [w \in {"a", "b"} |->
                    suffix_upto(walked.suffix[w], IF w = "b" THEN s.depth ELSE s.seen[c])]
  <2>1. walk(s, "b") = [walked EXCEPT !.result = r]
    <3> HIDE DEF s
    <3> QED BY <1>1, <1>2, <1>4 DEF walk
  <2>2. walked.suffix["a"] = p /\ walked.suffix["b"] = Down(b, i+1)
    <3> HIDE DEF walked
    <3> QED BY <1>3, RecordFacts
  <2>3. r = Pair(suffix_upto(p, seen[c]), suffix_upto(Down(b, i+1), d))
    <3> HIDE DEF walked, s
    <3> QED BY <1>1, <2>2 DEF Pair
  <2>4. [walked EXCEPT !.result = r] = Walking(a, b, p, Down(b, i+1), d, seen, r)
    <3> HIDE DEF walked, r
    <3> QED BY <1>3, RecordFacts
  <2> HIDE DEF walked, r, s
  <2> QED BY <2>1, <2>3, <2>4
<1> HIDE DEF s
<1> QED BY <1>5, <1>6, <1>7 DEF s, c

---------------------------------------------------------------------------
\* How many blocks of t were yielded once i were asked for, and which.
Asked(t, i) == IF i =< Len(t) THEN i ELSE Len(t) + 1
Tops(t, i) == { x \in iter_chain(t, states) : Len(x) + i > Len(t) }

SeenBy(a, b, i, j) ==
  [x \in Tops(a, i) \cup Tops(b, j) |-> Len(IF x \in Tops(a, i) THEN a ELSE b) - Len(x)]

\* The state between two iterations, after i.
StateAfter(a, b, i) ==
  Walking(a, b, Down(a, Asked(a, i)), Down(b, Asked(b, i)), i,
       SeenBy(a, b, Asked(a, i), Asked(b, i)), << >>)

LEMMA TopsAre ==
  ASSUME NEW H, Tree(states, H), NEW t \in states, NEW i \in Int
  PROVE  \A x : x \in Tops(t, i) <=> x \in Seq(H) /\ Below(x, t) /\ Len(x) + i > Len(t)
BY AncestorIsBelow DEF Tops, is_ancestor

LEMMA TopsGrow ==
  ASSUME NEW H, Tree(states, H), NEW t \in states, NEW i \in 0 .. Len(t)
  PROVE  LET c == At(t, Len(t) - i) IN
         /\ c \in Seq(H) /\ Len(c) = Len(t) - i /\ Below(c, t) /\ c \notin Tops(t, i)
         /\ Tops(t, i+1) = Tops(t, i) \cup {c}
<1> DEFINE c == At(t, Len(t) - i)
<1>0. t \in Seq(H) /\ Len(t) \in Nat /\ Len(t) - i \in 0 .. Len(t)
  BY DEF Tree
<1>1. c \in Seq(H) /\ Len(c) = Len(t) - i
  BY <1>0, AtProperties
<1>2. Below(c, t)
  BY <1>0, <1>1 DEF Below
<1>3. \A x \in Seq(H) : Below(x, t) /\ Len(x) = Len(t) - i => x = c
  BY DEF Below
<1> HIDE DEF c
<1>4. c \notin Tops(t, i)
  BY <1>0, <1>1, TopsAre
<1>5. ASSUME NEW x PROVE x \in Tops(t, i+1) <=> x \in Tops(t, i) \/ x = c
  <2>1. x \in Tops(t, i+1) <=> x \in Seq(H) /\ Below(x, t) /\ Len(x) + (i+1) > Len(t)
    BY <1>0, TopsAre
  <2>2. x \in Tops(t, i) <=> x \in Seq(H) /\ Below(x, t) /\ Len(x) + i > Len(t)
    BY <1>0, TopsAre
  <2>3. x \in Seq(H) => Len(x) \in Nat
    OBVIOUS
  <2> QED BY <1>0, <1>1, <1>2, <1>3, <2>1, <2>2, <2>3
<1> QED BY <1>1, <1>2, <1>4, <1>5 DEF c

LEMMA SeenGrows ==
  ASSUME NEW H, Tree(states, H), NEW a \in states, NEW b \in states, NEW i, NEW j
  PROVE  /\ i \in 0 .. Len(a) /\ At(a, Len(a) - i) \notin DOMAIN SeenBy(a, b, i, j)
              => Noted(SeenBy(a, b, i, j), At(a, Len(a) - i), i) = SeenBy(a, b, i+1, j)
         /\ j \in 0 .. Len(b) /\ At(b, Len(b) - j) \notin DOMAIN SeenBy(a, b, i, j)
              => Noted(SeenBy(a, b, i, j), At(b, Len(b) - j), j) = SeenBy(a, b, i, j+1)
<1>0. Len(a) \in Nat /\ Len(b) \in Nat
  BY DEF Tree
<1>1. ASSUME i \in 0 .. Len(a), At(a, Len(a) - i) \notin DOMAIN SeenBy(a, b, i, j)
      PROVE  Noted(SeenBy(a, b, i, j), At(a, Len(a) - i), i) = SeenBy(a, b, i+1, j)
  <2> DEFINE c == At(a, Len(a) - i)
  <2>1. Len(c) = Len(a) - i /\ Tops(a, i+1) = Tops(a, i) \cup {c} /\ c \notin Tops(a, i)
    BY <1>1, TopsGrow
  <2>2. c \notin Tops(b, j)
    BY <1>1, Zenon DEF SeenBy
  <2> HIDE DEF c
  <2>3. Len(a) - Len(c) = i
    BY <1>0, <1>1, <2>1
  <2>4. Noted(SeenBy(a, b, i, j), c, i) = SeenBy(a, b, i+1, j)
    BY <2>1, <2>2, <2>3 DEF Noted, SeenBy
  <2> QED BY <2>4 DEF c
<1>2. ASSUME j \in 0 .. Len(b), At(b, Len(b) - j) \notin DOMAIN SeenBy(a, b, i, j)
      PROVE  Noted(SeenBy(a, b, i, j), At(b, Len(b) - j), j) = SeenBy(a, b, i, j+1)
  <2> DEFINE c == At(b, Len(b) - j)
  <2>1. Len(c) = Len(b) - j /\ Tops(b, j+1) = Tops(b, j) \cup {c}
    BY <1>2, TopsGrow
  <2>2. c \notin Tops(a, i)
    BY <1>2, Zenon DEF SeenBy
  <2> HIDE DEF c
  <2>3. Len(b) - Len(c) = j
    BY <1>0, <1>2, <2>1
  <2>4. Noted(SeenBy(a, b, i, j), c, j) = SeenBy(a, b, i, j+1)
    BY <2>1, <2>2, <2>3 DEF Noted, SeenBy
  <2> QED BY <2>4 DEF c
<1> QED BY <1>1, <1>2

\* A block of t, i below it, that was yielded on u, too, is in common.
LEMMA SeenIsCommon ==
  ASSUME NEW H, Tree(states, H), NEW t \in states, NEW u \in states,
         NEW i \in 0 .. Len(t), NEW j \in 0 .. Len(u) + 1, NEW h \in Nat,
         \A x \in Seq(H) : Below(x, t) /\ Below(x, u) => Len(x) =< h,
         At(t, Len(t) - i) \in Tops(u, j)
  PROVE  i >= Len(t) - h /\ j > Len(u) - h
<1> DEFINE c == At(t, Len(t) - i)
<1>1. c \in Seq(H) /\ Len(c) = Len(t) - i /\ Below(c, t)
  BY TopsGrow
<1>2. Below(c, u) /\ Len(c) + j > Len(u)
  BY TopsAre
<1>3. Len(t) \in Nat /\ Len(u) \in Nat
  BY DEF Tree
<1>4. Len(c) =< h
  BY <1>1, <1>2
<1> HIDE DEF c
<1> QED BY <1>1, <1>2, <1>3, <1>4

\* What the loop is to return of a side: t's blocks upwards from height h.
Side(t, h) == [depth |-> Len(t) - h, suffix |-> [j \in 1 .. Len(t) - h + 1 |-> At(t, h + j - 1)]]

LEMMA SuffixUpto ==
  ASSUME NEW H, NEW t \in Seq(H), NEW h \in 0 .. Len(t), NEW i \in 0 .. Len(t) + 1,
         i > Len(t) - h
  PROVE  suffix_upto(Down(t, i), Len(t) - h) = Side(t, h)
<1> DEFINE d == Len(t) - h
           l == SubSeq(Down(t, i), 1, d + 1)
<1>0. Len(t) \in Nat /\ d \in Nat /\ i - 1 \in 0 .. Len(t)
  OBVIOUS
<1>1. Down(t, i) \in Seq(Seq(H)) /\ Len(Down(t, i)) = i
  <2>1. (i-1) + 1 = i
    OBVIOUS
  <2>2. CASE i =< Len(t)
    <3>1. i \in 0 .. Len(t)
      BY <2>2
    <3> QED BY <3>1, DownGrows
  <2>3. CASE i = Len(t) + 1
    <3>1. \A j \in 1 .. i : At(t, Len(t) + 1 - j) \in Seq(H)
      <4> SUFFICES ASSUME NEW j \in 1 .. i PROVE At(t, Len(t) + 1 - j) \in Seq(H)
        OBVIOUS
      <4>1. Len(t) + 1 - j \in 0 .. Len(t)
        OBVIOUS
      <4> QED BY <4>1, AtProperties
    <3> HIDE DEF At
    <3> QED BY <3>1, <2>3 DEF Down
  <2>4. i =< Len(t) \/ i = Len(t) + 1
    BY <1>0
  <2> QED BY <2>2, <2>3, <2>4
<1>2. (IF d < Len(Down(t, i)) THEN d + 1 ELSE Len(Down(t, i))) = d + 1
  BY <1>0, <1>1
<1>3. Len(l) = d + 1 /\ \A j \in 1 .. d + 1 : l[j] = At(t, Len(t) + 1 - j)
  <2>1. Len(l) = d + 1 /\ \A j \in 1 .. d + 1 : l[j] = Down(t, i)[j]
    BY <1>0, <1>1
  <2>2. \A j \in 1 .. d + 1 : Down(t, i)[j] = At(t, Len(t) + 1 - j)
    BY <1>0 DEF Down
  <2> QED BY <2>1, <2>2
<1>4. Reverse(l) = [j \in 1 .. d + 1 |-> l[(d + 1) - j + 1]]
  <2> HIDE DEF l, d
  <2> QED BY <1>3 DEF Reverse
<1>5. [j \in 1 .. d + 1 |-> l[(d + 1) - j + 1]] = [j \in 1 .. d + 1 |-> At(t, h + j - 1)]
  <2> SUFFICES ASSUME NEW j \in 1 .. d + 1 PROVE l[(d + 1) - j + 1] = At(t, h + j - 1)
    OBVIOUS
  <2>1. (d + 1) - j + 1 \in 1 .. d + 1 /\ Len(t) + 1 - ((d + 1) - j + 1) = h + j - 1
    OBVIOUS
  <2> HIDE DEF l, d
  <2> QED BY <1>3, <2>1
<1> HIDE DEF l
<1> QED BY <1>2, <1>4, <1>5 DEF suffix_upto, Side, l

\* The highest block in common, and how far below the deeper tip it is.
Meets(a, b, h) ==
  /\ h \in Nat /\ h =< Len(a) /\ h =< Len(b)
  /\ At(a, h) = At(b, h)
  /\ \A x \in Seq(Header) : Below(x, a) /\ Below(x, b) => Len(x) =< h

Deeper(a, b, h) == IF Len(a) =< Len(b) THEN Len(b) - h ELSE Len(a) - h

LEMMA AskedType ==
  ASSUME NEW t, Len(t) \in Nat, NEW i \in Nat
  PROVE  /\ Asked(t, i) \in 0 .. Len(t) + 1 /\ Asked(t, i) =< i
         /\ i =< Len(t) => Asked(t, i) = i /\ Asked(t, i+1) = i+1
         /\ i > Len(t) => Asked(t, i) = Len(t) + 1 /\ Asked(t, i+1) = Len(t) + 1
BY DEF Asked

\* The first half of an iteration finds nothing before the deeper tip's turn to meet the block.
LEMMA FirstHalf ==
  ASSUME Tree(states, Header), NEW a \in states, NEW b \in states, NEW h, Meets(a, b, h),
         NEW i \in Nat, ~ (i >= Len(a) - h /\ i > Len(b) - h)
  PROVE  walk(StateAfter(a, b, i), "a") =
           Walking(a, b, Down(a, Asked(a, i+1)), Down(b, Asked(b, i)), i,
                SeenBy(a, b, Asked(a, i+1), Asked(b, i)), << >>)
<1> DEFINE p == Asked(a, i)
           q == Asked(b, i)
           seen == SeenBy(a, b, p, q)
<1>0. Len(a) \in Nat /\ Len(b) \in Nat
  BY DEF Tree
<1>1. /\ p \in 0 .. Len(a) + 1 /\ q \in 0 .. Len(b) + 1 /\ q =< i
      /\ i =< Len(a) => p = i /\ Asked(a, i+1) = i+1
      /\ i > Len(a) => p = Len(a) + 1 /\ Asked(a, i+1) = p
  BY <1>0, AskedType
<1>2. StateAfter(a, b, i) = Walking(a, b, Down(a, p), Down(b, q), i, seen, << >>)
  BY DEF StateAfter
<1> HIDE DEF p, q, seen
<1>3. CASE i > Len(a)
  <2>1. p > Len(a) /\ Asked(a, i+1) = p
    BY <1>0, <1>1, <1>3
  <2>2. walk(StateAfter(a, b, i), "a") = StateAfter(a, b, i)
    BY <1>1, <1>2, <2>1, WalkA
  <2> QED BY <1>2, <2>1, <2>2 DEF seen, q
<1>4. CASE ~ (i > Len(a))
  <2>1. p = i /\ i \in 0 .. Len(a) /\ Asked(a, i+1) = i+1
    BY <1>0, <1>1, <1>4
  <2>2. At(a, Len(a) - i) \notin Tops(a, i)
    BY <2>1, TopsGrow
  <2>3. At(a, Len(a) - i) \notin Tops(b, q)
    BY <1>0, <1>1, <2>1, SeenIsCommon DEF Meets
  <2>4. At(a, Len(a) - i) \notin DOMAIN seen
    BY <2>1, <2>2, <2>3 DEF seen, SeenBy
  <2>5. Noted(seen, At(a, Len(a) - i), i) = SeenBy(a, b, i+1, q)
    BY <2>1, <2>4, SeenGrows DEF seen
  <2>6. walk(StateAfter(a, b, i), "a")
          = Walking(a, b, Down(a, i+1), Down(b, q), i, Noted(seen, At(a, Len(a) - i), i), << >>)
    BY <1>1, <1>2, <2>1, <2>4, WalkA
  <2> QED BY <2>1, <2>5, <2>6 DEF q
<1> QED BY <1>3, <1>4

LEMMA SecondHalf ==
  ASSUME Tree(states, Header), NEW a \in states, NEW b \in states, NEW h, Meets(a, b, h),
         NEW i \in Nat, ~ (i >= Len(b) - h /\ i + 1 > Len(a) - h)
  PROVE  walk(Walking(a, b, Down(a, Asked(a, i+1)), Down(b, Asked(b, i)), i,
                   SeenBy(a, b, Asked(a, i+1), Asked(b, i)), << >>), "b")
           = Walking(a, b, Down(a, Asked(a, i+1)), Down(b, Asked(b, i+1)), i,
                  SeenBy(a, b, Asked(a, i+1), Asked(b, i+1)), << >>)
<1> DEFINE p == Asked(a, i+1)
           q == Asked(b, i)
           seen == SeenBy(a, b, p, q)
           s == Walking(a, b, Down(a, p), Down(b, q), i, seen, << >>)
<1>0. Len(a) \in Nat /\ Len(b) \in Nat
  BY DEF Tree
<1>1. /\ p \in 0 .. Len(a) + 1 /\ q \in 0 .. Len(b) + 1 /\ p =< i + 1
      /\ i =< Len(b) => q = i /\ Asked(b, i+1) = i+1
      /\ i > Len(b) => q = Len(b) + 1 /\ Asked(b, i+1) = q
  <2>1. i + 1 \in Nat
    OBVIOUS
  <2>2. p \in 0 .. Len(a) + 1 /\ p =< i + 1
    BY <1>0, <2>1, AskedType
  <2>3. /\ q \in 0 .. Len(b) + 1
        /\ i =< Len(b) => q = i /\ Asked(b, i+1) = i+1
        /\ i > Len(b) => q = Len(b) + 1 /\ Asked(b, i+1) = Len(b) + 1
    BY <1>0, AskedType
  <2> HIDE DEF p, q
  <2> QED BY <2>2, <2>3
<1>2. s = Walking(a, b, Down(a, p), Down(b, q), i, seen, << >>)
  OBVIOUS
<1> HIDE DEF p, q, seen, s
<1>3. CASE i > Len(b)
  <2>1. q > Len(b) /\ Asked(b, i+1) = q
    BY <1>0, <1>1, <1>3
  <2>2. walk(s, "b") = s
    BY <1>1, <1>2, <2>1, WalkB
  <2> QED BY <1>2, <2>1, <2>2 DEF seen, q, p, s
<1>4. CASE ~ (i > Len(b))
  <2>1. q = i /\ i \in 0 .. Len(b) /\ Asked(b, i+1) = i+1
    BY <1>0, <1>1, <1>4
  <2>2. At(b, Len(b) - i) \notin Tops(b, i)
    BY <2>1, TopsGrow
  <2>3. At(b, Len(b) - i) \notin Tops(a, p)
    BY <1>0, <1>1, <2>1, SeenIsCommon DEF Meets
  <2>4. At(b, Len(b) - i) \notin DOMAIN seen
    BY <2>1, <2>2, <2>3 DEF seen, SeenBy
  <2>5. Noted(seen, At(b, Len(b) - i), i) = SeenBy(a, b, p, i+1)
    BY <2>1, <2>4, SeenGrows DEF seen
  <2>6. walk(s, "b")
          = Walking(a, b, Down(a, p), Down(b, i+1), i, Noted(seen, At(b, Len(b) - i), i), << >>)
    BY <1>1, <1>2, <2>1, <2>4, WalkB
  <2> QED BY <2>1, <2>5, <2>6 DEF p, q, seen, s
<1> QED BY <1>3, <1>4

LEMMA Walks ==
  ASSUME Tree(states, Header), NEW a \in states, NEW b \in states, NEW h, Meets(a, b, h),
         NEW i \in Nat, i < Deeper(a, b, h)
  PROVE  iteration(StateAfter(a, b, i)) = StateAfter(a, b, i+1)
<1> DEFINE half == Walking(a, b, Down(a, Asked(a, i+1)), Down(b, Asked(b, i)), i,
                        SeenBy(a, b, Asked(a, i+1), Asked(b, i)), << >>)
           end == Walking(a, b, Down(a, Asked(a, i+1)), Down(b, Asked(b, i+1)), i,
                       SeenBy(a, b, Asked(a, i+1), Asked(b, i+1)), << >>)
<1>0. Len(a) \in Nat /\ Len(b) \in Nat /\ h \in Nat
  BY DEF Tree, Meets
<1>1. walk(StateAfter(a, b, i), "a") = half
  <2>1. ~ (i >= Len(a) - h /\ i > Len(b) - h)
    BY <1>0 DEF Deeper
  <2> QED BY <2>1, FirstHalf
<1>2. walk(half, "b") = end
  <2>1. ~ (i >= Len(b) - h /\ i + 1 > Len(a) - h)
    BY <1>0 DEF Deeper
  <2> QED BY <2>1, SecondHalf
<1>3. StateAfter(a, b, i).result = << >> /\ half.result = << >> /\ end.depth = i
  BY RecordFacts DEF StateAfter
<1>4. [end EXCEPT !.depth = i + 1] = StateAfter(a, b, i+1)
  BY RecordFacts DEF StateAfter
<1> HIDE DEF half, end
<1> QED BY <1>1, <1>2, <1>3, <1>4 DEF iteration

LEMMA MeetsBlock ==
  ASSUME Tree(states, Header), NEW a \in states, NEW b \in states, NEW h, Meets(a, b, h)
  PROVE  iteration(StateAfter(a, b, Deeper(a, b, h))).result = Pair(Side(a, h), Side(b, h))
<1> DEFINE m == Deeper(a, b, h)
           p == Asked(a, m)
           q == Asked(b, m)
           seen == SeenBy(a, b, p, q)
           s == StateAfter(a, b, m)
           c == At(a, h)
<1>0. /\ Len(a) \in Nat /\ Len(b) \in Nat /\ h \in 0 .. Len(a) /\ h \in 0 .. Len(b)
      /\ a \in Seq(Header) /\ b \in Seq(Header)
  BY DEF Tree, Meets
<1>1. m \in Nat /\ m >= Len(a) - h /\ m >= Len(b) - h
  BY <1>0 DEF Deeper
<1>2. /\ p \in 0 .. Len(a) + 1 /\ q \in 0 .. Len(b) + 1
      /\ m =< Len(a) => p = m /\ Asked(a, m+1) = m+1
      /\ m > Len(a) => p = Len(a) + 1 /\ Asked(a, m+1) = Len(a) + 1
      /\ m =< Len(b) => q = m
      /\ m > Len(b) => q = Len(b) + 1
      /\ Asked(a, m+1) \in 0 .. Len(a) + 1
  <2> HIDE DEF m
  <2>1. m + 1 \in Nat
    BY <1>1
  <2>2. Asked(a, m+1) \in 0 .. Len(a) + 1
    BY <1>0, <2>1, AskedType
  <2> QED BY <1>0, <1>1, <2>2, AskedType
<1>3. s = Walking(a, b, Down(a, p), Down(b, q), m, seen, << >>) /\ s.result = << >>
  BY RecordFacts DEF StateAfter
<1>4. /\ c \in Seq(Header) /\ Len(c) = h /\ c = At(b, h)
      /\ Below(c, a) /\ Below(c, b)
  <2>1. c \in Seq(Header) /\ Len(c) = h /\ c = At(b, h)
    BY <1>0, AtProperties DEF Meets
  <2> QED BY <1>0, <2>1 DEF Below
<1>5. CASE Len(a) =< Len(b)
  <2> DEFINE p1 == Asked(a, m+1)
             seen1 == SeenBy(a, b, p1, q)
             half == Walking(a, b, Down(a, p1), Down(b, q), m, seen1, << >>)
  <2>1. m = Len(b) - h /\ q = m /\ Len(b) - m = h
    <3>1. m = Len(b) - h
      BY <1>5 DEF Deeper
    <3> HIDE DEF m, q
    <3> QED BY <1>0, <1>2, <3>1
  <2>2. walk(s, "a") = half
    <3>1. ~ (m >= Len(a) - h /\ m > Len(b) - h)
      BY <1>0, <2>1
    <3> HIDE DEF m
    <3> QED BY <1>1, <3>1, FirstHalf
  <2>3. half.result = << >>
    BY RecordFacts
  <2>4. c \in Tops(a, p1) /\ c \notin Tops(b, q) /\ p1 > Len(a) - h
    <3> HIDE DEF c, m, p, q, p1
    <3>0. /\ p1 \in Int /\ q \in Int /\ m \in Int /\ h \in Nat
          /\ m =< Len(a) => p1 = m + 1
          /\ m > Len(a) => p1 = Len(a) + 1
      BY <1>0, <1>1, <1>2 DEF p1
    <3>1. p1 > Len(a) - h
      BY <1>0, <1>1, <3>0
    <3>2. h + p1 > Len(a) /\ ~ (h + q > Len(b))
      BY <1>0, <2>1, <3>0, <3>1
    <3> QED BY <1>4, <3>0, <3>1, <3>2, TopsAre
  <2>5. c \in DOMAIN seen1 /\ seen1[c] = Len(a) - h
    <3> HIDE DEF c, p1, q
    <3> QED BY <1>4, <2>4 DEF SeenBy
  <2>6. walk(half, "b").result
          = Pair(suffix_upto(Down(a, p1), Len(a) - h), suffix_upto(Down(b, m+1), m))
    <3>1. At(b, Len(b) - q) \in DOMAIN seen1 /\ seen1[At(b, Len(b) - q)] = Len(a) - h
      BY <1>4, <2>1, <2>5
    <3>2. q \in 0 .. Len(b) + 1 /\ q =< Len(b)
      BY <1>0, <2>1
    <3> HIDE DEF m, p1, q, seen1
    <3>3. walk(half, "b") = Walking(a, b, Down(a, p1), Down(b, q+1), m, seen1,
                 Pair(suffix_upto(Down(a, p1), Len(a) - h), suffix_upto(Down(b, q+1), m)))
      BY <3>1, <3>2, WalkB
    <3> QED BY <2>1, <3>3, RecordFacts
  <2>7. suffix_upto(Down(a, p1), Len(a) - h) = Side(a, h)
    BY <1>0, <1>2, <2>4, SuffixUpto
  <2>8. suffix_upto(Down(b, m+1), m) = Side(b, h)
    <3>1. m+1 \in 0 .. Len(b) + 1 /\ m+1 > Len(b) - h
      BY <1>0, <2>1
    <3> HIDE DEF m
    <3> QED BY <1>0, <2>1, <3>1, SuffixUpto
  <2>9. iteration(s) = [walk(half, "b") EXCEPT !.depth = @ + 1]
    <3> HIDE DEF half, s
    <3> QED BY <1>3, <2>2, <2>3 DEF iteration
  <2>10. [walk(half, "b") EXCEPT !.depth = @ + 1].result = walk(half, "b").result
    OBVIOUS
  <2> HIDE DEF half, s, m, p1
  <2> QED BY <2>6, <2>7, <2>8, <2>9, <2>10 DEF s, m
<1>6. CASE ~ (Len(a) =< Len(b))
  <2>1. m = Len(a) - h /\ p = m /\ Len(a) - m = h
    <3>1. m = Len(a) - h
      BY <1>6 DEF Deeper
    <3> HIDE DEF m, p
    <3> QED BY <1>0, <1>2, <3>1
  <2>2. c \in Tops(b, q) /\ c \notin Tops(a, p) /\ q > Len(b) - h
    <3> HIDE DEF c, m, p, q
    <3>0. /\ p \in Int /\ q \in Int /\ m \in Int /\ h \in Nat
          /\ m =< Len(b) => q = m
          /\ m > Len(b) => q = Len(b) + 1
      BY <1>0, <1>1, <1>2
    <3>1. q > Len(b) - h
      BY <1>0, <1>6, <2>1, <3>0
    <3>2. h + q > Len(b) /\ ~ (h + p > Len(a))
      BY <1>0, <2>1, <3>0, <3>1
    <3> QED BY <1>4, <3>0, <3>1, <3>2, TopsAre
  <2>3. c \in DOMAIN seen /\ seen[c] = Len(b) - h
    <3> HIDE DEF c, p, q
    <3> QED BY <1>4, <2>2 DEF SeenBy
  <2>4. walk(s, "a").result
          = Pair(suffix_upto(Down(a, m+1), m), suffix_upto(Down(b, q), Len(b) - h))
    <3>1. At(a, Len(a) - p) \in DOMAIN seen /\ seen[At(a, Len(a) - p)] = Len(b) - h
      BY <2>1, <2>3
    <3>2. p \in 0 .. Len(a) + 1 /\ p =< Len(a)
      BY <1>0, <2>1
    <3> HIDE DEF m, p, q, seen, s
    <3>3. walk(s, "a") = Walking(a, b, Down(a, p+1), Down(b, q), m, seen,
                 Pair(suffix_upto(Down(a, p+1), m), suffix_upto(Down(b, q), Len(b) - h)))
      BY <1>3, <3>1, <3>2, WalkA
    <3> QED BY <2>1, <3>3, RecordFacts
  <2>5. suffix_upto(Down(b, q), Len(b) - h) = Side(b, h)
    BY <1>0, <1>2, <2>2, SuffixUpto
  <2>6. suffix_upto(Down(a, m+1), m) = Side(a, h)
    <3>1. m+1 \in 0 .. Len(a) + 1 /\ m+1 > Len(a) - h
      BY <1>0, <2>1
    <3> HIDE DEF m
    <3> QED BY <1>0, <2>1, <3>1, SuffixUpto
  <2>7. Pair(Side(a, h), Side(b, h)) # << >>
    BY DEF Pair
  <2> HIDE DEF s, m, q
  <2> QED BY <1>3, <2>4, <2>5, <2>6, <2>7 DEF iteration, s, m
<1> QED BY <1>5, <1>6

LEMMA LoopReturns ==
  ASSUME Tree(states, Header), NEW a \in states, NEW b \in states, NEW h, Meets(a, b, h),
         NEW n \in Nat, n > Deeper(a, b, h)
  PROVE  loop(a, b, n) = Pair(Side(a, h), Side(b, h))
<1> DEFINE m == Deeper(a, b, h)
           last == iteration(StateAfter(a, b, m))
           run == [i \in 0 .. n |-> IF i =< m THEN StateAfter(a, b, i) ELSE last]
           IsRun(f) == f = [i \in 0 .. n |-> IF i = 0 THEN entry(a, b) ELSE iteration(f[i-1])]
           after == CHOOSE f : IsRun(f)
<1>0. m \in Nat /\ m < n
  BY DEF Deeper, Tree, Meets
<1>1. last.result = Pair(Side(a, h), Side(b, h)) /\ last.result # << >>
  <2>1. last.result = Pair(Side(a, h), Side(b, h))
    BY MeetsBlock
  <2>2. Pair(Side(a, h), Side(b, h)) # << >>
    BY DEF Pair
  <2> QED BY <2>1, <2>2
<1>2. iteration(last) = last
  <2> HIDE DEF last
  <2> QED BY <1>1 DEF iteration
<1>3. StateAfter(a, b, 0) = entry(a, b)
  <2>1. Asked(a, 0) = 0 /\ Asked(b, 0) = 0
    BY DEF Asked, Tree
  <2>2. Down(a, 0) = << >> /\ Down(b, 0) = << >>
    BY DEF Down
  <2>3. SeenBy(a, b, 0, 0) = << >>
    <3>1. Tops(a, 0) = {} /\ Tops(b, 0) = {}
      <4>1. \A t \in states : \A x \in Tops(t, 0) : FALSE
        <5> SUFFICES ASSUME NEW t \in states, NEW x \in Tops(t, 0) PROVE FALSE
          OBVIOUS
        <5>1. x \in Seq(Header) /\ Below(x, t) /\ Len(x) + 0 > Len(t)
          BY TopsAre
        <5> QED BY <5>1 DEF Below, Tree
      <4> QED BY <4>1
    <3> QED BY <3>1 DEF SeenBy
  <2> QED BY <2>1, <2>2, <2>3 DEF StateAfter, Walking, entry
<1>4. \A i \in 0 .. m - 1 : iteration(StateAfter(a, b, i)) = StateAfter(a, b, i+1)
  BY <1>0, Walks
<1> HIDE DEF last
<1>5. \A i \in 1 .. n : run[i] = iteration(run[i-1])
  <2> SUFFICES ASSUME NEW i \in 1 .. n PROVE run[i] = iteration(run[i-1])
    OBVIOUS
  <2> HIDE DEF m
  <2>1. CASE i =< m
    <3>1. i-1 \in 0 .. m - 1 /\ (i-1) + 1 = i
      BY <1>0, <2>1
    <3> QED BY <1>0, <1>4, <2>1, <3>1
  <2>2. CASE i = m + 1
    BY <1>0, <2>2 DEF last
  <2>3. CASE i > m + 1
    BY <1>0, <1>2, <2>3
  <2> QED BY <1>0, <2>1, <2>2, <2>3
<1>6. run[0] = entry(a, b) /\ run[n] = last /\ run = [i \in 0 .. n |-> run[i]]
  <2> HIDE DEF m
  <2> QED BY <1>0, <1>3
<1> HIDE DEF run, m
<1>7. IsRun(run)
  <2>1. ASSUME NEW i \in 0 .. n
        PROVE  run[i] = IF i = 0 THEN entry(a, b) ELSE iteration(run[i-1])
    <3>1. i = 0 \/ i \in 1 .. n
      OBVIOUS
    <3> QED BY <1>5, <1>6, <3>1
  <2> QED BY <1>6, <2>1
<1>8. IsRun(after)
  <2> HIDE DEF IsRun
  <2> QED BY <1>7
<1>9. loop(a, b, n) = after[n].result
  BY DEF loop
<1> HIDE DEF after
<1>10. after[n] = run[n]
  <2> DEFINE I == { i \in 0 .. n : after[i] = run[i] }
  <2>1. 0 \in I
    BY <1>6, <1>8
  <2>2. ASSUME NEW i \in 0 .. n - 1, i \in I PROVE i+1 \in I
    <3>1. i+1 \in 1 .. n /\ (i+1) - 1 = i
      OBVIOUS
    <3>2. run[i+1] = iteration(run[i])
      BY <1>5, <3>1
    <3>3. after[i+1] = iteration(after[i])
      BY <1>8, <3>1
    <3> QED BY <2>2, <3>1, <3>2, <3>3
  <2> HIDE DEF I
  <2>3. 0 .. n \subseteq I
    BY <2>1, <2>2, BoundedInduction
  <2> QED BY <2>3 DEF I
<1> QED BY <1>1, <1>6, <1>9, <1>10

LEMMA ForkMeets ==
  ASSUME Tree(states, Header), NEW a \in states, NEW b \in states
  PROVE  LET c == fork_point(a, b, states) IN
         Meets(a, b, Len(c)) /\ c = At(a, Len(c)) /\ c \in states
<1> DEFINE c == fork_point(a, b, states)
<1>1. /\ c \in states /\ Len(c) \in Nat /\ Below(c, a) /\ Below(c, b)
      /\ \A d \in Seq(Header) : Below(d, a) /\ Below(d, b) => Len(d) =< Len(c)
  BY ForkPointProperties
<1> HIDE DEF c
<1> QED BY <1>1 DEF Meets, Below, c

\* What a side holds is the chain from the block in common to the tip, upwards.
LEMMA SideIsChain ==
  ASSUME Tree(states, Header), NEW t \in states, NEW c \in states, Below(c, t)
  PROVE  LET s == Side(t, Len(c)).suffix IN
         ToSet(s) = suffix_from(c, t, states) /\ upward(s) /\ Head(s) = c
<1> DEFINE h == Len(c)
           n == Len(t) - h + 1
           s == [j \in 1 .. n |-> At(t, h + j - 1)]
<1>0. /\ t \in Seq(Header) /\ c \in Seq(Header) /\ Len(t) \in Nat /\ h \in 0 .. Len(t)
      /\ n \in Nat \ {0} /\ c = At(t, h)
  BY DEF Tree, Below
<1>1. Side(t, Len(c)).suffix = s
  BY DEF Side
<1>2. s \in Seq(Seq(Header)) /\ Len(s) = n
  <2>1. \A j \in 1 .. n : At(t, h + j - 1) \in Seq(Header)
    <3> SUFFICES ASSUME NEW j \in 1 .. n PROVE At(t, h + j - 1) \in Seq(Header)
      OBVIOUS
    <3>1. h + j - 1 \in 0 .. Len(t)
      BY <1>0
    <3> QED BY <1>0, <3>1, AtProperties
  <2> HIDE DEF n, h
  <2> QED BY <1>0, <2>1
<1>3. Head(s) = c
  <2>1. 1 \in 1 .. n /\ h + 1 - 1 = h
    BY <1>0
  <2>2. s[1] = At(t, h)
    <3> HIDE DEF n, h
    <3> QED BY <2>1
  <2> HIDE DEF s, n, h
  <2>3. Head(s) = s[1]
    BY <1>0, <1>2
  <2> QED BY <1>0, <2>2, <2>3
<1>4. upward(s)
  <2> SUFFICES ASSUME NEW i \in 1 .. n - 1 PROVE s[i] = parent(s[i+1])
    BY <1>2 DEF upward
  <2>1. h + i \in 0 .. Len(t) /\ h + i - 1 \in 0 .. h + i /\ i \in 1 .. n /\ i+1 \in 1 .. n
    BY <1>0
  <2>2. s[i] = At(t, h + i - 1) /\ s[i+1] = At(t, h + i)
    <3>1. h + (i+1) - 1 = h + i
      BY <1>0
    <3> HIDE DEF h, n
    <3> QED BY <2>1, <3>1
  <2>3. Len(At(t, h + i)) = h + i
    BY <1>0, <2>1, AtProperties
  <2>4. At(At(t, h + i), h + i - 1) = At(t, h + i - 1)
    BY <1>0, <2>1, AtAt
  <2> DEFINE u == At(t, h + i)
  <2>5. parent(u) = At(u, h + i - 1)
    <3>1. Len(u) = h + i
      BY <2>3
    <3> HIDE DEF u
    <3>2. Len(u) - 1 = h + i - 1
      BY <3>1
    <3> QED BY <3>2 DEF parent
  <2> HIDE DEF s, h, n, At
  <2> QED BY <2>2, <2>4, <2>5
<1>5. ToSet(s) = suffix_from(c, t, states)
  <2>1. \A x : x \in ToSet(s) <=> \E j \in 1 .. n : x = At(t, h + j - 1)
    <3>1. ToSet(s) = { s[j] : j \in 1 .. n }
      <4> HIDE DEF s, n
      <4> QED BY <1>2 DEF ToSet
    <3> QED BY <3>1
  <2>2. \A x : x \in suffix_from(c, t, states) <=> \E i \in 0 .. Len(t) : x = At(t, i) /\ h =< i
    <3>1. iter_chain(t, states) = { At(t, i) : i \in 0 .. Len(t) }
      BY ChainOf
    <3>2. \A i \in 0 .. Len(t) : Len(At(t, i)) = i
      BY <1>0, AtProperties
    <3> HIDE DEF h
    <3> QED BY <3>1, <3>2 DEF suffix_from, h
  <2>3. \A j \in 1 .. n : h + j - 1 \in 0 .. Len(t) /\ h =< h + j - 1
    BY <1>0
  <2>4. \A i \in 0 .. Len(t) : h =< i => i - h + 1 \in 1 .. n /\ h + (i - h + 1) - 1 = i
    BY <1>0
  <2> HIDE DEF s, h, n
  <2>5. \A x : x \in ToSet(s) <=> x \in suffix_from(c, t, states)
    BY <2>1, <2>2, <2>3, <2>4
  <2> QED BY <2>5
<1> HIDE DEF s
<1> QED BY <1>1, <1>3, <1>4, <1>5

LEMMA LoopIsOperator ==
  ASSUME Tree(states, Header), \A x \in {local_chain} \cup ToSet(forks) : x \in states
  PROVE  FindsForkPoint
<1> SUFFICES ASSUME NEW a \in states, NEW b \in states
             PROVE  LET r == loop(a, b, 1 + (IF Len(a) < Len(b) THEN Len(b) ELSE Len(a)))
                        p == common_prefix_depth(a, b, states)
                    IN  /\ r # << >>
                        /\ r["a"].depth = p.a_depth /\ ToSet(r["a"].suffix) = p.a_suffix
                        /\ r["b"].depth = p.b_depth /\ ToSet(r["b"].suffix) = p.b_suffix
                        /\ \A w \in {"a", "b"} : upward(r[w].suffix) /\ Head(r[w].suffix) = p.fork
  BY DEF FindsForkPoint
<1> DEFINE n == 1 + (IF Len(a) < Len(b) THEN Len(b) ELSE Len(a))
           c == fork_point(a, b, states)
           r == loop(a, b, n)
           p == common_prefix_depth(a, b, states)
<1>1. Meets(a, b, Len(c)) /\ c = At(a, Len(c)) /\ c \in states
  BY ForkMeets
<1>2. Len(a) \in Nat /\ Len(b) \in Nat /\ Len(c) \in Nat
  BY <1>1 DEF Tree, Meets
<1> HIDE DEF c
<1>3. n \in Nat /\ n > Deeper(a, b, Len(c))
  BY <1>1, <1>2 DEF Deeper
<1>4. r = Pair(Side(a, Len(c)), Side(b, Len(c)))
  <2> HIDE DEF n
  <2> QED BY <1>1, <1>3, LoopReturns
<1>5. /\ p.a_depth = Len(a) - Len(c) /\ p.a_suffix = suffix_from(c, a, states)
      /\ p.b_depth = Len(b) - Len(c) /\ p.b_suffix = suffix_from(c, b, states)
      /\ p.fork = c
  BY DEF common_prefix_depth, c
<1>6. Below(c, a) /\ Below(c, b)
  BY <1>1, <1>2 DEF Meets, Below
<1>7. \A t \in {a, b} : LET s == Side(t, Len(c)).suffix IN
         ToSet(s) = suffix_from(c, t, states) /\ upward(s) /\ Head(s) = c
  BY <1>1, <1>6, SideIsChain
<1>8. r # << >> /\ r["a"] = Side(a, Len(c)) /\ r["b"] = Side(b, Len(c))
  <2> HIDE DEF r
  <2> QED BY <1>4 DEF Pair
<1>9. \A t : Side(t, Len(c)).depth = Len(t) - Len(c)
  BY DEF Side
<1> HIDE DEF r, p, n
<1>10. /\ r # << >>
       /\ r["a"].depth = p.a_depth /\ ToSet(r["a"].suffix) = p.a_suffix
       /\ r["b"].depth = p.b_depth /\ ToSet(r["b"].suffix) = p.b_suffix
       /\ \A w \in {"a", "b"} : upward(r[w].suffix) /\ Head(r[w].suffix) = p.fork
  BY <1>5, <1>7, <1>8, <1>9
<1> QED BY <1>10 DEF r, p, n

(***************************************************************************)
(* Between any two tips of a node's tree the loop of common_prefix_depth   *)
(* returns the depths, the suffixes and the block in common that the fork  *)
(* choice rules take from it.                                              *)
(***************************************************************************)
THEOREM FindsForkPointAlways == RestartSpec => []FindsForkPoint
<1>1. TreeInv => FindsForkPoint
  <2> SUFFICES ASSUME TreeInv PROVE FindsForkPoint
    OBVIOUS
  <2>1. Tree(states, Header)
    BY DEF TreeInv, Consistent
  <2>2. \A x \in {local_chain} \cup ToSet(forks) : x \in states
    <3>1. local_chain \in states /\ forks \in Seq(states)
      BY DEF TreeInv, Consistent
    <3>2. \A i \in DOMAIN forks : forks[i] \in states
      BY <3>1
    <3> QED BY <3>1, <3>2 DEF ToSet
  <2> QED BY <2>1, <2>2, LoopIsOperator
<1> QED BY <1>1, TreeAlways, PTL

==========================================================================
