-------------------------- MODULE SkipLinksProofs --------------------------
(***************************************************************************)
(* The skip list that putNewLinkForBlock builds is exact, for chains of    *)
(* every height: position l of a link holds the 2^(l-1)-th ancestor.  The  *)
(* loop of putNewLinkForBlock reads, at every jump, the link of the block  *)
(* it has reached, so the proof needs the whole list of every earlier      *)
(* block, the length of each list against its block's height, and          *)
(* induction over the positions.                                           *)
(***************************************************************************)
EXTENDS ChainsProofs, NaturalNumbers

-----------------------------------------------------------------------------
(* Powers of two and the length of a link                                  *)

\* The recursive definition of pow2 is sound, and its values are positive and
\* exceed their exponents.
LEMMA Pow2Facts ==
    /\ pow2[0] = 1
    /\ \A k \in Nat : /\ pow2[k] \in Nat
                      /\ pow2[k + 1] = 2 * pow2[k]
                      /\ pow2[k] > k
  <1> DEFINE Eq(f) == f = [k \in Nat |-> IF k = 0 THEN 1 ELSE 2 * f[k - 1]]
             double == [v \in Nat |-> 2 * v]
  <1>1. PICK f : Iterated(f, Nat, 1, double)
    <2>1. double \in [Nat -> Nat] /\ 1 \in Nat
      OBVIOUS
    <2> HIDE DEF double
    <2> QED
      BY <2>1, Iteration
  <1>2. f \in [Nat -> Nat] /\ f[0] = 1 /\ \A k \in Nat : f[k + 1] = 2 * f[k]
    BY <1>1 DEF Iterated
  <1>3. Eq(f)
    <2>1. \A k \in Nat : f[k] = IF k = 0 THEN 1 ELSE 2 * f[k - 1]
      <3> SUFFICES ASSUME NEW k \in Nat, k # 0
                   PROVE  f[k] = 2 * f[k - 1]
        BY <1>2
      <3>1. k - 1 \in Nat /\ (k - 1) + 1 = k
        OBVIOUS
      <3> QED
        BY <1>2, <3>1
    <2>2. f = [k \in Nat |-> f[k]]
      BY <1>2
    <2> QED
      BY <2>1, <2>2
  <1>4. Eq(pow2)
    <2>1. pow2 = CHOOSE g : Eq(g)
      BY DEF pow2
    <2> QED
      BY <1>3, <2>1
  <1>5. pow2[0] = 1
    BY <1>4
  <1>6. \A k \in Nat : pow2[k + 1] = 2 * pow2[k]
    <2> SUFFICES ASSUME NEW k \in Nat
                 PROVE  pow2[k + 1] = 2 * pow2[k]
      OBVIOUS
    <2>1. k + 1 \in Nat /\ k + 1 # 0 /\ (k + 1) - 1 = k
      OBVIOUS
    <2> QED
      BY <1>4, <2>1
  <1> DEFINE T == {k \in Nat : pow2[k] \in Nat /\ pow2[k] > k}
  <1>7. \A k \in Nat : k \in T
    <2>1. 0 \in T
      BY <1>5
    <2>2. \A k \in Nat : k \in T => k + 1 \in T
      BY <1>6
    <2> HIDE DEF T
    <2> QED
      BY <2>1, <2>2, Induction
  <1> QED
    BY <1>5, <1>6, <1>7

\* A larger power has a larger exponent.
LEMMA Pow2Order ==
    ASSUME NEW i \in Nat, NEW j \in Nat, pow2[i] < pow2[j]
    PROVE  i < j
  <1> DEFINE T == {k \in Nat : pow2[j] <= pow2[j + k]}
  <1>1. 0 \in T
    BY Pow2Facts
  <1>2. ASSUME NEW k \in Nat, k \in T
        PROVE  k + 1 \in T
    <2>1. j + k \in Nat /\ j + (k + 1) = (j + k) + 1
      OBVIOUS
    <2>2. pow2[j + (k + 1)] = 2 * pow2[j + k] /\ pow2[j + k] \in Nat /\ pow2[j] \in Nat
      BY <2>1, Pow2Facts
    <2> QED
      BY <1>2, <2>2
  <1>3. \A k \in Nat : k \in T
    <2> HIDE DEF T
    <2> QED
      BY <1>1, <1>2, Induction
  <1>4. ASSUME j <= i
        PROVE  FALSE
    <2>1. i - j \in Nat /\ j + (i - j) = i
      BY <1>4
    <2>2. pow2[j] <= pow2[i] /\ pow2[i] \in Nat /\ pow2[j] \in Nat
      BY <1>3, <2>1, Pow2Facts
    <2> QED
      BY <2>2
  <1> QED
    BY <1>4

\* The number of positions of a link is the least exponent that reaches the
\* height, the rounded logarithm of putNewLinkForBlock.
LEMMA MaxParents ==
    ASSUME NEW h \in Nat
    PROVE  /\ maxParents(h) \in Nat
           /\ h <= pow2[maxParents(h)]
           /\ \A j \in Nat : j < maxParents(h) => pow2[j] < h
  <1> DEFINE T == {k \in Nat : pow2[k] >= h}
             Fits(k) == /\ pow2[k] >= h
                        /\ \A j \in 0..(k - 1) : pow2[j] < h
  <1>1. h \in T
    BY Pow2Facts
  <1>2. PICK k \in T : \A y \in T : k <= y
    <2>1. T \in SUBSET Nat /\ T # {}
      BY <1>1
    <2> HIDE DEF T
    <2> QED
      BY <2>1, LeastNatural
  <1>3. k \in 0..h
    BY <1>1, <1>2
  <1>4. ASSUME NEW j \in 0..(k - 1)
        PROVE  pow2[j] < h
    <2>1. j \in Nat /\ j < k /\ pow2[j] \in Nat
      BY <1>3, Pow2Facts
    <2> QED
      BY <1>2, <2>1
  <1>5. Fits(k)
    BY <1>2, <1>4
  <1>6. maxParents(h) = CHOOSE m \in 0..h : Fits(m)
    BY DEF maxParents
  <1>7. maxParents(h) \in 0..h /\ Fits(maxParents(h))
    <2> HIDE DEF Fits
    <2> QED
      BY <1>3, <1>5, <1>6
  <1> QED
    BY <1>7

-----------------------------------------------------------------------------
(* Ancestors                                                               *)

\* Every block but the first has a block one level below it.
LEMMA BelowFacts ==
    ASSUME StoreInv
    PROVE  /\ below \in [Numbers -> Numbers] /\ Closed(Numbers, below)
           /\ \A n \in Numbers : /\ blocks[n].height \in Nat
                                 /\ n = 1 => blocks[n].height = 1
                                 /\ n # 1 => blocks[n].height = blocks[below[n]].height + 1
  <1>1. /\ numOf \in [DOMAIN numOf -> Numbers]
        /\ \A n \in Numbers : blocks[n].height \in Nat
    BY DEF StoreInv, TypeOK
  <1>2. \A n \in Numbers : n # 1 => /\ blocks[n].parent \in DOMAIN numOf
                                    /\ blocks[n].height =
                                          blocks[numOf[blocks[n].parent]].height + 1
    BY DEF StoreInv, ChainsGrowByOne
  <1>3. \A n \in Numbers : n = 1 => blocks[n].height = 1
    BY DEF StoreInv, ChainsGrowByOne
  <1>4. DOMAIN below = Numbers /\ below = [n \in Numbers |-> below[n]]
    BY DEF below
  <1>5. \A n \in Numbers : below[n] = IF n = 1 THEN 1 ELSE numOf[blocks[n].parent]
    BY DEF below
  <1>6. \A n \in Numbers : below[n] \in Numbers
    BY <1>1, <1>2, <1>5
  <1> QED
    BY <1>1, <1>2, <1>3, <1>4, <1>5, <1>6 DEF Closed

\* Every step to an ancestor loses one level, down to the first block.
LEMMA HeightDrops ==
    ASSUME StoreInv, NEW n \in Numbers, NEW k \in Nat, k < blocks[n].height
    PROVE  blocks[Iter(below, n, k)].height = blocks[n].height - k
  <1> DEFINE T == {j \in Nat : j < blocks[n].height =>
                        blocks[Iter(below, n, j)].height = blocks[n].height - j}
  <1>1. /\ below \in [Numbers -> Numbers] /\ Closed(Numbers, below)
        /\ \A m \in Numbers : /\ blocks[m].height \in Nat
                              /\ m = 1 => blocks[m].height = 1
                              /\ m # 1 => blocks[m].height = blocks[below[m]].height + 1
    BY BelowFacts
  <1>2. /\ Iter(below, n, 0) = n
        /\ \A j \in Nat : Iter(below, n, j) \in Numbers
        /\ \A j \in Nat : Iter(below, n, j + 1) = below[Iter(below, n, j)]
    BY <1>1, IterSteps
  <1>3. 0 \in T
    BY <1>1, <1>2
  <1>4. ASSUME NEW j \in Nat, j \in T
        PROVE  j + 1 \in T
    <2> DEFINE m == Iter(below, n, j)
    <2> SUFFICES ASSUME j + 1 < blocks[n].height
                 PROVE  blocks[Iter(below, n, j + 1)].height = blocks[n].height - (j + 1)
      OBVIOUS
    <2>1. m \in Numbers /\ Iter(below, n, j + 1) = below[m] /\ below[m] \in Numbers
      BY <1>1, <1>2
    <2>2. blocks[m].height = blocks[n].height - j /\ blocks[n].height \in Nat
      BY <1>1, <1>4
    <2>3. blocks[m].height \in Nat /\ blocks[below[m]].height \in Nat
          /\ (m = 1 => blocks[m].height = 1)
          /\ (m # 1 => blocks[m].height = blocks[below[m]].height + 1)
      BY <1>1, <2>1
    <2> HIDE DEF m
    <2> QED
      BY <2>1, <2>2, <2>3
  <1>5. k \in T
    <2> HIDE DEF T
    <2> QED
      BY <1>3, <1>4, Induction
  <1> QED
    BY <1>5

-----------------------------------------------------------------------------
(* The inductive invariant: a link is a list of block numbers, and exact.  *)

Positions == \A n \in Numbers : links[n].parents \in Seq(Numbers)

Exact(ps, n, h, b) ==
    /\ \A l \in 1..Len(ps) : ps[l] = Iter(b, n, pow2[l - 1])
    /\ h <= pow2[Len(ps)]
    /\ Len(ps) > 0 => pow2[Len(ps) - 1] < h

SkipInv == /\ Positions
           /\ \A n \in Numbers : Exact(links[n].parents, n, blocks[n].height, below)

\* The invariant says what SkipLinksExact says.
LEMMA SkipInvExact == SkipInv => SkipLinksExact
  BY DEF SkipInv, Exact, SkipLinksExact, NthAncestor

\* The body of the loop of putNewLinkForBlock: the jump from block p at position l.
Jump(l, p) == IF Len(links[p].parents) >= l THEN links[p].parents[l] ELSE p

\* The loop of putNewLinkForBlock for a block on top of block pn, with one link
\* for every power of two below its height h.
LEMMA LoopFacts ==
    ASSUME Positions, NEW pn \in Numbers, NEW h \in Nat
    PROVE  \E jump \in [Nat -> Numbers] :
              /\ jump[1] = pn
              /\ \A l \in Nat \ {0} : jump[l + 1] = Jump(l, jump[l])
              /\ linkParents(pn, h) = [l \in 1..maxParents(h) |-> jump[l]]
  <1> DEFINE Eq(f) == f = [l \in Nat |->
                              IF l <= 1 THEN pn
                              ELSE LET p == f[l - 1] IN
                                   IF Len(links[p].parents) >= l - 1
                                   THEN links[p].parents[l - 1] ELSE p]
             nx == [s \in Nat \X Numbers |-> Jump(s[1] + 1, s[2])]
  <1>1. \A l \in Nat \ {0}, p \in Numbers : Jump(l, p) \in Numbers
    <2> SUFFICES ASSUME NEW l \in Nat \ {0}, NEW p \in Numbers
                 PROVE  Jump(l, p) \in Numbers
      OBVIOUS
    <2>1. links[p].parents \in Seq(Numbers)
      BY DEF Positions
    <2>2. Len(links[p].parents) >= l => links[p].parents[l] \in Numbers
      BY <2>1
    <2> QED
      BY <2>2 DEF Jump
  <1>2. PICK f : Counted(f, Numbers, pn, nx)
    <2>1. nx \in [Nat \X Numbers -> Numbers]
      BY <1>1
    <2> HIDE DEF nx
    <2> QED
      BY <2>1, Recursion
  <1>3. /\ f \in [Nat -> Numbers]
        /\ f[0] = pn
        /\ \A k \in Nat : f[k + 1] = Jump(k + 1, f[k])
    BY <1>2 DEF Counted
  <1> DEFINE g == [l \in Nat |-> IF l <= 1 THEN pn ELSE f[l - 1]]
  <1>4. g \in [Nat -> Numbers] /\ \A l \in Nat \ {0} : g[l] = f[l - 1]
    <2>1. \A l \in Nat \ {0} : l - 1 \in Nat /\ (l <= 1 => l - 1 = 0)
      OBVIOUS
    <2>2. \A l \in Nat \ {0} : g[l] = f[l - 1]
      BY <1>3, <2>1
    <2> QED
      BY <1>3, <2>2
  <1>5. \A l \in Nat : g[l] = IF l <= 1 THEN pn ELSE Jump(l - 1, g[l - 1])
    <2> SUFFICES ASSUME NEW l \in Nat, ~(l <= 1)
                 PROVE  g[l] = Jump(l - 1, g[l - 1])
      OBVIOUS
    <2>1. /\ l - 2 \in Nat /\ l - 1 \in Nat \ {0} /\ l \in Nat \ {0}
          /\ (l - 2) + 1 = l - 1 /\ (l - 1) - 1 = l - 2
      OBVIOUS
    <2>2. g[l] = f[l - 1] /\ g[l - 1] = f[l - 2]
      BY <1>4, <2>1
    <2>3. f[l - 1] = Jump(l - 1, f[l - 2])
      BY <1>3, <2>1
    <2> QED
      BY <2>2, <2>3
  <1>6. Eq(g)
    <2>1. g = [l \in Nat |-> g[l]]
      BY <1>4
    <2> HIDE DEF g
    <2> QED
      BY <1>5, <2>1 DEF Jump
  <1> DEFINE jump == CHOOSE j : Eq(j)
  <1>7. Eq(jump)
    <2> HIDE DEF g
    <2> QED
      BY <1>6
  <1>8. linkParents(pn, h) = [l \in 1..maxParents(h) |-> IF l = 1 THEN pn ELSE jump[l]]
    BY DEF linkParents
  <1> HIDE DEF jump
  <1>9. jump[1] = pn /\ jump[0] = pn /\ DOMAIN jump = Nat /\ jump = [l \in Nat |-> jump[l]]
    BY <1>7
  <1>10. ASSUME NEW l \in Nat \ {0}
         PROVE  jump[l + 1] = Jump(l, jump[l])
    <2>1. l + 1 \in Nat /\ ~(l + 1 <= 1) /\ (l + 1) - 1 = l
      OBVIOUS
    <2> QED
      BY <1>7, <2>1 DEF Jump
  <1> DEFINE T == {k \in Nat : jump[k] \in Numbers}
  <1>11. \A k \in Nat : k \in T
    <2>1. 0 \in T
      BY <1>9
    <2>2. \A k \in Nat : k \in T => k + 1 \in T
      <3> SUFFICES ASSUME NEW k \in Nat, jump[k] \in Numbers
                   PROVE  jump[k + 1] \in Numbers
        OBVIOUS
      <3>1. CASE k = 0
        BY <1>9, <3>1
      <3>2. CASE k # 0
        BY <1>1, <1>10, <3>2
      <3> QED
        BY <3>1, <3>2
    <2> HIDE DEF T
    <2> QED
      BY <2>1, <2>2, Induction
  <1>12. jump \in [Nat -> Numbers]
    BY <1>9, <1>11
  <1>13. linkParents(pn, h) = [l \in 1..maxParents(h) |-> jump[l]]
    BY <1>8, <1>9
  <1> QED
    BY <1>9, <1>10, <1>12, <1>13

\* The l-th jump of the loop lands 2^(l-1) levels below the new block, that is
\* 2^(l-1) - 1 below its parent: the jump before it landed on a block high
\* enough for its own link to have a position l - 1.
LEMMA JumpsExact ==
    ASSUME StoreInv, SkipInv, NEW pn \in Numbers, NEW h \in Nat,
           h = blocks[pn].height + 1, NEW jump, jump[1] = pn,
           \A l \in Nat \ {0} : jump[l + 1] = Jump(l, jump[l])
    PROVE  \A l \in 1..maxParents(h) : jump[l] = Iter(below, pn, pow2[l - 1] - 1)
  <1> DEFINE M == maxParents(h)
             T == {k \in Nat : k + 1 <= M => jump[k + 1] = Iter(below, pn, pow2[k] - 1)}
  <1>1. Closed(Numbers, below) /\ \A n \in Numbers : blocks[n].height \in Nat
    BY BelowFacts
  <1>2. Iter(below, pn, 0) = pn /\ \A k \in Nat : Iter(below, pn, k) \in Numbers
    BY <1>1, IterSteps
  <1>3. M \in Nat /\ \A j \in Nat : j < M => pow2[j] < h
    BY MaxParents
  <1>4. 0 \in T
    <2>1. pow2[0] - 1 = 0 /\ 0 + 1 = 1
      BY Pow2Facts
    <2> QED
      BY <1>2, <2>1
  <1>5. ASSUME NEW k \in Nat, k \in T
        PROVE  k + 1 \in T
    <2> SUFFICES ASSUME (k + 1) + 1 <= M
                 PROVE  jump[(k + 1) + 1] = Iter(below, pn, pow2[k + 1] - 1)
      OBVIOUS
    <2> DEFINE d == pow2[k]
               p == jump[k + 1]
               ps == links[p].parents
    <2>1. d \in Nat /\ d > 0 /\ pow2[k + 1] = d + d /\ d + d < h
      <3>1. k + 1 < M /\ k + 1 \in Nat
        BY <1>3
      <3>2. pow2[k + 1] < h
        BY <1>3, <3>1
      <3> QED
        BY <3>2, Pow2Facts
    <2>2. p = Iter(below, pn, d - 1) /\ p \in Numbers /\ d - 1 \in Nat
      <3>1. k + 1 <= M /\ d - 1 \in Nat
        BY <1>3, <2>1
      <3>2. p = Iter(below, pn, d - 1)
        BY <1>5, <3>1
      <3> QED
        BY <1>2, <3>1, <3>2
    <2>3. blocks[p].height = h - d
      <3>1. d - 1 < blocks[pn].height /\ blocks[pn].height \in Nat
        BY <1>1, <2>1
      <3>2. blocks[p].height = blocks[pn].height - (d - 1)
        BY <2>2, <3>1, HeightDrops
      <3> QED
        BY <2>1, <3>1, <3>2
    <2>4. /\ ps \in Seq(Numbers) /\ Len(ps) \in Nat
          /\ blocks[p].height <= pow2[Len(ps)]
          /\ \A l \in 1..Len(ps) : ps[l] = Iter(below, p, pow2[l - 1])
      BY <2>2 DEF SkipInv, Positions, Exact
    <2>5. k + 1 <= Len(ps)
      <3>1. pow2[Len(ps)] \in Nat
        BY <2>4, Pow2Facts
      <3>2. pow2[k] < pow2[Len(ps)]
        <4> DEFINE e == pow2[Len(ps)]
        <4>1. h - d <= e
          BY <2>3, <2>4
        <4> HIDE DEF e
        <4>2. e \in Nat
          BY <3>1 DEF e
        <4>3. d < e
          BY <2>1, <4>1, <4>2
        <4> QED
          BY <4>3 DEF e
      <3>3. k < Len(ps)
        BY <2>4, <3>2, Pow2Order
      <3> QED
        BY <2>4, <3>3
    <2>6. jump[(k + 1) + 1] = ps[k + 1]
      <3>1. k + 1 \in Nat \ {0}
        OBVIOUS
      <3>2. jump[(k + 1) + 1] = Jump(k + 1, p)
        BY <3>1
      <3> QED
        BY <2>4, <2>5, <3>2 DEF Jump
    <2>7. ps[k + 1] = Iter(below, p, d)
      <3>1. k + 1 \in 1..Len(ps) /\ (k + 1) - 1 = k
        BY <2>4, <2>5
      <3> QED
        BY <2>4, <3>1
    <2>8. Iter(below, pn, (d - 1) + d) = Iter(below, p, d)
      <3> HIDE DEF d, p
      <3> QED
        BY <1>1, <2>1, <2>2, IterSum
    <2>9. (d - 1) + d = pow2[k + 1] - 1
      BY <2>1
    <2> QED
      BY <2>6, <2>7, <2>8, <2>9
  <1>6. \A k \in Nat : k \in T
    <2> HIDE DEF T
    <2> QED
      BY <1>4, <1>5, Induction
  <1>7. ASSUME NEW l \in 1..M
        PROVE  jump[l] = Iter(below, pn, pow2[l - 1] - 1)
    <2>1. l - 1 \in Nat /\ (l - 1) + 1 = l /\ l <= M
      BY <1>3
    <2>2. l - 1 \in T
      BY <1>6, <2>1
    <2> QED
      BY <2>1, <2>2
  <1> QED
    BY <1>7

\* An insertion builds an exact link for the new block and alters no other.
LEMMA InsertedSkip ==
    ASSUME StoreInv, StoreInv', SkipInv, NEW r, NEW on, Insertable(r, on), Inserted(r, on)
    PROVE  SkipInv'
  <1> DEFINE N == blocksCnt + 1
             pn == numOf[r.parent]
             h == r.height
             M == maxParents(h)
             ps == linkParents(pn, h)
  <1>t. Tables(r)
    BY InsertedTables DEF StoreInv
  <1>1. Closed(Numbers, below) /\ pn \in Numbers /\ N \in Nat /\ N # 1
    <2>1. pn \in Numbers /\ blocksCnt \in Nat
      BY DEF StoreInv, TypeOK, Insertable
    <2>2. N \in Nat /\ N # 1
      BY <2>1 DEF Numbers
    <2> QED
      BY <2>1, <2>2, BelowFacts
  <1>2. Closed(Numbers', below')
    <2>2. \A n \in Numbers' : below'[n] = IF n = 1 THEN 1 ELSE numOf'[blocks'[n].parent]
      BY DEF below
    <2>3. numOf' \in [DOMAIN numOf' -> Numbers']
      BY DEF StoreInv, TypeOK
    <2>4. \A n \in Numbers' : n # 1 => blocks'[n].parent \in DOMAIN numOf'
      BY DEF StoreInv, ChainsGrowByOne
    <2>5. \A n \in Numbers' : below'[n] \in Numbers'
      BY <2>2, <2>3, <2>4
    <2> QED
      BY <2>5 DEF Closed
  <1>3. \A n \in Numbers : below'[n] = below[n]
    <2>1. \A n \in Numbers : n \in Numbers' /\ blocks'[n] = blocks[n]
      BY <1>t DEF Tables
    <2>2. \A n \in Numbers : n # 1 => numOf'[blocks[n].parent] = numOf[blocks[n].parent]
      BY <1>t DEF Tables, StoreInv, ChainsGrowByOne
    <2> QED
      BY <2>1, <2>2 DEF below
  <1>4. N \in Numbers' /\ below'[N] = pn
    <2>1. N \in Numbers' /\ blocks'[N] = r /\ numOf'[r.parent] = pn
      BY <1>t DEF Tables, Insertable
    <2> QED
      BY <1>1, <2>1 DEF below
  <1>5. \A n \in Numbers, k \in Nat : Iter(below', n, k) = Iter(below, n, k)
    BY <1>1, <1>3, IterAgree
  <1>6. \A k \in Nat : Iter(below', N, k + 1) = Iter(below, pn, k)
    <2> SUFFICES ASSUME NEW k \in Nat
                 PROVE  Iter(below', N, k + 1) = Iter(below, pn, k)
      OBVIOUS
    <2>1. Iter(below', N, 0) = N /\ Iter(below', N, 0 + 1) = below'[Iter(below', N, 0)]
      BY <1>2, <1>4, IterSteps
    <2>2. Iter(below', N, 1) = pn
      BY <1>4, <2>1
    <2>3. Iter(below', N, 1 + k) = Iter(below', Iter(below', N, 1), k)
      BY <1>2, <1>4, IterSum
    <2>4. 1 + k = k + 1
      OBVIOUS
    <2> HIDE DEF N, pn
    <2> QED
      BY <1>1, <1>5, <2>2, <2>3, <2>4
  <1>7. h \in Nat /\ h = blocks[pn].height + 1 /\ blocks[pn].height \in Nat
    BY <1>1, BelowFacts DEF Insertable, Record
  <1>8. M \in Nat /\ h <= pow2[M] /\ \A j \in Nat : j < M => pow2[j] < h
    BY <1>7, MaxParents
  <1>9. PICK jump \in [Nat -> Numbers] :
            /\ jump[1] = pn
            /\ \A l \in Nat \ {0} : jump[l + 1] = Jump(l, jump[l])
            /\ ps = [l \in 1..M |-> jump[l]]
    BY <1>1, <1>7, LoopFacts DEF SkipInv
  <1>10. \A l \in 1..M : jump[l] = Iter(below, pn, pow2[l - 1] - 1)
    BY <1>1, <1>7, <1>9, JumpsExact
  <1>11. ps \in Seq(Numbers) /\ Len(ps) = M
    <2>1. \A l \in 1..M : jump[l] \in Numbers
      BY <1>8, <1>9
    <2> DEFINE s == [l \in 1..M |-> jump[l]]
    <2>2. s \in Seq(Numbers) /\ Len(s) = M
      <3> HIDE DEF M
      <3> QED
        BY <1>8, <2>1
    <2> HIDE DEF ps, s
    <2>3. ps = s
      BY <1>9 DEF s
    <2> QED
      BY <2>2, <2>3
  <1>12. links'[N].parents = ps /\ blocks'[N].height = h
    BY <1>t DEF Tables, Inserted, putNewLinkForBlock, Put
  <1>13. Exact(ps, N, h, below')
    <2>1. ASSUME NEW l \in 1..M
          PROVE  ps[l] = Iter(below', N, pow2[l - 1])
      <3>1. l - 1 \in Nat /\ pow2[l - 1] \in Nat /\ pow2[l - 1] > 0
        <4>1. l - 1 \in Nat
          BY <1>8
        <4> QED
          BY <4>1, Pow2Facts
      <3>2. pow2[l - 1] - 1 \in Nat /\ (pow2[l - 1] - 1) + 1 = pow2[l - 1]
        BY <3>1
      <3>3. Iter(below', N, pow2[l - 1]) = Iter(below, pn, pow2[l - 1] - 1)
        BY <1>6, <3>2
      <3>4. ps[l] = jump[l]
        BY <1>9
      <3> QED
        BY <1>10, <3>3, <3>4
    <2>2. M > 0 => pow2[M - 1] < h
      BY <1>8
    <2> HIDE DEF ps, M, h, N
    <2> QED
      BY <1>8, <1>11, <2>1, <2>2 DEF Exact
  <1>14. Positions'
    <2> SUFFICES ASSUME NEW n \in Numbers'
                 PROVE  links'[n].parents \in Seq(Numbers')
      BY DEF Positions
    <2>1. Numbers \subseteq Numbers' /\ Seq(Numbers) \subseteq Seq(Numbers')
      BY <1>t DEF Tables
    <2>2. CASE n = N
      BY <1>11, <1>12, <2>1, <2>2
    <2>3. CASE n \in Numbers
      BY <1>t, <2>1, <2>3 DEF Tables, SkipInv, Positions
    <2> QED
      BY <1>t, <2>2, <2>3 DEF Tables
  <1>15. ASSUME NEW n \in Numbers'
         PROVE  Exact(links'[n].parents, n, blocks'[n].height, below')
    <2>1. CASE n = N
      BY <1>12, <1>13, <2>1
    <2>2. CASE n \in Numbers
      <3>1. links'[n] = links[n] /\ blocks'[n] = blocks[n]
        BY <1>t, <2>2 DEF Tables
      <3> DEFINE qs == links[n].parents
      <3>2. Exact(qs, n, blocks[n].height, below) /\ Len(qs) \in Nat
        BY <2>2 DEF SkipInv, Positions
      <3>3. \A l \in 1..Len(qs) : pow2[l - 1] \in Nat
        <4>1. \A l \in 1..Len(qs) : l - 1 \in Nat
          BY <3>2
        <4> QED
          BY <4>1, Pow2Facts
      <3>4. \A l \in 1..Len(qs) : Iter(below', n, pow2[l - 1]) = Iter(below, n, pow2[l - 1])
        BY <1>5, <2>2, <3>3
      <3>5. Exact(qs, n, blocks[n].height, below')
        <4> HIDE DEF qs
        <4> QED
          BY <3>2, <3>4 DEF Exact
      <3> QED
        BY <3>1, <3>5
    <2> QED
      BY <1>t, <2>1, <2>2 DEF Tables
  <1> QED
    BY <1>14, <1>15 DEF SkipInv

\* The link of the genesis block has no positions.
LEMMA InitializeSkip ==
    ASSUME IInv, blocksCnt = 0, initialize
    PROVE  SkipInv'
  <1>1. DOMAIN links = {} /\ DOMAIN blocks = {}
    BY DEF IInv, StoreInv, TypeOK, Numbers
  <1>2. Numbers' = {1} /\ links'[1].parents = <<>> /\ blocks'[1].height = 1
    BY <1>1 DEF initialize, Numbers, Put
  <1>3. Exact(<<>>, 1, 1, below')
    BY Pow2Facts DEF Exact
  <1>4. <<>> \in Seq(Numbers')
    OBVIOUS
  <1>5. Positions'
    BY <1>2, <1>4 DEF Positions
  <1> QED
    BY <1>2, <1>3, <1>5 DEF SkipInv

\* Every step keeps the lists exact.
LEMMA NextSkip == IInv /\ SkipInv /\ [Next]_vars => SkipInv'
  <1> SUFFICES ASSUME IInv, SkipInv, [Next]_vars PROVE SkipInv'
    OBVIOUS
  <1>1. StoreInv /\ StoreInv'
    BY NextInv DEF IInv
  <1>2. ASSUME NEW r, NEW on, Insertable(r, on), Inserted(r, on)
        PROVE  SkipInv'
    BY <1>1, <1>2, InsertedSkip
  <1>3. CASE UNCHANGED database
    BY <1>3 DEF database, store, SkipInv, Positions, Numbers, below
  <1>4. CASE blocksCnt = 0 /\ initialize
    BY <1>4, InitializeSkip
  <1> QED
    BY <1>2, <1>3, <1>4, StepKinds

\* The lists are exact in every reachable state.
THEOREM SkipInvariance == Spec => []SkipInv
  <1>1. Init => SkipInv
    BY DEF Init, Numbers, SkipInv, Positions
  <1>2. IInv /\ SkipInv /\ [Next]_vars => SkipInv'
    BY NextSkip
  <1> QED
    BY <1>1, <1>2, Invariance, PTL DEF Spec

\* After any sequence of calls, failures, crashes and restarts, position l of
\* every link that putNewLinkForBlock wrote holds the 2^(l-1)-th ancestor of its
\* block, for every power of two below the block's height and no other.
THEOREM SkipListsExact == Spec => []SkipLinksExact
  BY SkipInvExact, SkipInvariance, PTL
=============================================================================
