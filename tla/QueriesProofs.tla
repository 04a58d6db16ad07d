---------------------------- MODULE QueriesProofs ----------------------------
(***************************************************************************)
(* The queries of ChainQueries compute what their reference definitions    *)
(* say, in every reachable state, for chains of every height and for every *)
(* set of peers.  All rest on the exactness of the skip lists.             *)
(***************************************************************************)
EXTENDS ChainQueries, SkipLinksProofs, SequenceTheorems, FiniteSetTheorems

\* What the queries need of the tables.
QInv == StoreInv /\ SkipInv /\ LeashStored

Height(n) == blocks[n].height

Anc(n, k) == Iter(below, n, k)

-----------------------------------------------------------------------------
(* Chains: a block has one ancestor at every height                        *)

\* The ancestors of a block are stored, below one another.
LEMMA AncFacts ==
    ASSUME StoreInv, NEW n \in Numbers
    PROVE  /\ Height(n) \in Nat /\ Height(n) >= 1
           /\ Height(n) = 1 <=> n = 1
           /\ Anc(n, 0) = n
           /\ \A k \in Nat : Anc(n, k) \in Numbers
           /\ \A k \in Nat : Anc(n, k + 1) = below[Anc(n, k)]
           /\ \A k \in Nat : k < Height(n) => Height(Anc(n, k)) = Height(n) - k
           /\ \A i, j \in Nat : Anc(n, i + j) = Anc(Anc(n, i), j)
  <1>1. /\ below \in [Numbers -> Numbers] /\ Closed(Numbers, below)
        /\ \A m \in Numbers : /\ blocks[m].height \in Nat
                              /\ m = 1 => blocks[m].height = 1
                              /\ m # 1 => blocks[m].height = blocks[below[m]].height + 1
    BY BelowFacts
  <1>3. Height(n) \in Nat /\ Height(n) >= 1 /\ (Height(n) = 1 <=> n = 1)
    <2>1. blocks[below[n]].height \in Nat /\ below[n] \in Numbers
      BY <1>1
    <2>2. CASE n = 1
      BY <1>1, <2>2 DEF Height
    <2>3. CASE n # 1
      <3>1. below[n] = 1 => blocks[below[n]].height = 1
        BY <1>1
      <3>2. blocks[below[n]].height # 0
        <4>1. below[n] # 1 => blocks[below[n]].height = blocks[below[below[n]]].height + 1
              /\ blocks[below[below[n]]].height \in Nat
          BY <1>1
        <4> QED
          BY <3>1, <4>1
      <3> QED
        BY <1>1, <2>1, <2>3, <3>2 DEF Height
    <2> QED
      BY <2>2, <2>3
  <1>4. /\ Anc(n, 0) = n
        /\ \A k \in Nat : Anc(n, k) \in Numbers
        /\ \A k \in Nat : Anc(n, k + 1) = below[Anc(n, k)]
    BY <1>1, IterSteps DEF Anc
  <1>5. \A k \in Nat : k < Height(n) => Height(Anc(n, k)) = Height(n) - k
    BY HeightDrops DEF Anc, Height
  <1>6. \A i, j \in Nat : Anc(n, i + j) = Anc(Anc(n, i), j)
    <2> SUFFICES ASSUME NEW i \in Nat, NEW j \in Nat
                 PROVE  Anc(n, i + j) = Anc(Anc(n, i), j)
      OBVIOUS
    <2>1. Iter(below, n, i + j) = Iter(below, Iter(below, n, i), j)
      BY <1>1, IterSum
    <2> QED
      BY <2>1 DEF Anc
  <1> QED
    BY <1>3, <1>4, <1>5, <1>6

\* Every chain ends in block 1, which is below itself.
LEMMA AncBottom ==
    ASSUME StoreInv, NEW n \in Numbers, NEW k \in Nat, k >= Height(n) - 1
    PROVE  Anc(n, k) = 1
  <1> DEFINE d == Height(n) - 1
             T == {j \in Nat : Anc(n, d + j) = 1}
  <1>0. /\ Height(n) \in Nat /\ Height(n) >= 1
        /\ \A i \in Nat : Anc(n, i) \in Numbers /\ Anc(n, i + 1) = below[Anc(n, i)]
    BY AncFacts
  <1>1. d \in Nat /\ d < Height(n)
    BY <1>0
  <1>2. 0 \in T
    <2>1. Anc(n, d) \in Numbers /\ Height(Anc(n, d)) = Height(n) - d /\ Height(n) \in Nat
      BY <1>1, AncFacts
    <2>2. Height(Anc(n, d)) = 1
      BY <2>1
    <2>3. Anc(n, d) = 1
      BY <2>1, <2>2, AncFacts
    <2>4. d + 0 = d
      BY <1>1
    <2> HIDE DEF d
    <2> QED
      BY <2>3, <2>4
  <1>3. ASSUME NEW j \in Nat, j \in T
        PROVE  j + 1 \in T
    <2>1. d + j \in Nat /\ d + (j + 1) = (d + j) + 1
      BY <1>1
    <2>2. Anc(n, d + (j + 1)) = below[Anc(n, d + j)]
      BY <1>0, <2>1
    <2>3. Anc(n, d + j) = 1 /\ 1 \in Numbers
      BY <1>0, <1>3, <2>1
    <2>4. below[1] = 1
      BY <2>3 DEF below
    <2> HIDE DEF d
    <2> QED
      BY <2>2, <2>3, <2>4
  <1>4. \A j \in Nat : j \in T
    <2> HIDE DEF T
    <2> QED
      BY <1>2, <1>3, Induction
  <1>5. k - d \in Nat /\ d + (k - d) = k
    BY <1>1
  <1> QED
    BY <1>4, <1>5

\* Block m is block n or an ancestor of it.
Under(m, n) == Height(m) <= Height(n) /\ m = Anc(n, Height(n) - Height(m))

\* The order of ancestors, and its only block at every height of a chain.
LEMMA UnderFacts ==
    ASSUME StoreInv, NEW n \in Numbers, NEW m \in Numbers, NEW l \in Numbers, Under(m, n)
    PROVE  /\ Under(l, m) => Under(l, n)
           /\ Under(l, n) /\ Height(l) = Height(m) => l = m
           /\ Under(l, n) /\ Height(l) <= Height(m) => Under(l, m)
  <1>1. Height(n) \in Nat /\ Height(m) \in Nat /\ Height(l) \in Nat
    BY AncFacts
  <1>2. \A i, j \in Nat : Anc(n, i + j) = Anc(Anc(n, i), j)
    BY AncFacts
  <1>3. ASSUME Height(l) <= Height(m)
        PROVE  Anc(n, Height(n) - Height(l)) = Anc(m, Height(m) - Height(l))
    <2> DEFINE i == Height(n) - Height(m)
               j == Height(m) - Height(l)
    <2>1. i \in Nat /\ j \in Nat /\ i + j = Height(n) - Height(l)
      BY <1>1, <1>3 DEF Under
    <2>2. Anc(n, i + j) = Anc(Anc(n, i), j)
      <3> HIDE DEF i, j
      <3> QED
        BY <1>2, <2>1
    <2> QED
      BY <2>1, <2>2 DEF Under
  <1> QED
    BY <1>1, <1>3 DEF Under

\* The k-th ancestor of a block is under it.
LEMMA AncUnder ==
    ASSUME StoreInv, NEW n \in Numbers, NEW k \in Nat, k < Height(n)
    PROVE  Anc(n, k) \in Numbers /\ Height(Anc(n, k)) = Height(n) - k /\ Under(Anc(n, k), n)
  <1>1. Anc(n, k) \in Numbers /\ Height(Anc(n, k)) = Height(n) - k /\ Height(n) \in Nat
    BY AncFacts
  <1>2. Height(n) - (Height(n) - k) = k /\ Height(n) - k <= Height(n)
    BY <1>1
  <1> QED
    BY <1>1, <1>2 DEF Under

\* Block 1 is under every block.
LEMMA BottomUnder ==
    ASSUME StoreInv, NEW n \in Numbers
    PROVE  1 \in Numbers /\ Height(1) = 1 /\ Under(1, n)
  <1>1. Height(n) \in Nat /\ Height(n) >= 1
    BY AncFacts
  <1>2. Height(n) - 1 \in Nat /\ Height(n) - 1 < Height(n) /\ Height(n) - (Height(n) - 1) = 1
    BY <1>1
  <1>3. Anc(n, Height(n) - 1) = 1
    BY <1>2, AncBottom
  <1> QED
    BY <1>2, <1>3, AncUnder

\* The blocks on a chain are the ancestors of its last block, one at every height.
LEMMA OnChain ==
    ASSUME StoreInv, NEW x \in Stored
    PROVE  \A w : w \in onChain(x) <=> w \in Stored /\ Under(numOf[w], numOf[x])
  <1> DEFINE n == numOf[x]
             H == Height(n)
  <1>1. n \in Numbers /\ H \in Nat /\ H >= 1 /\ block(x).height = H
    <2>1. n \in Numbers
      BY DEF StoreInv, TypeOK, Stored
    <2> QED
      BY <2>1, AncFacts DEF block, Height
  <1>2. /\ \A m \in Numbers : blocks[m].id \in Stored /\ numOf[blocks[m].id] = m
        /\ \A w \in Stored : numOf[w] \in Numbers /\ blocks[numOf[w]].id = w
    BY DEF StoreInv, TypeOK, IndexConsistent, Stored
  <1>3. \A k \in 0..(H - 1) : Anc(n, k) \in Numbers /\ Height(Anc(n, k)) = H - k
    BY <1>1, AncFacts
  <1>4. onChain(x) = {blocks[Anc(n, k)].id : k \in 0..(H - 1)}
    BY <1>1 DEF onChain, NthAncestor, Anc
  <1> HIDE DEF H, n
  <1>5. ASSUME NEW w, w \in onChain(x)
        PROVE  w \in Stored /\ Height(numOf[w]) <= H /\ numOf[w] = Anc(n, H - Height(numOf[w]))
    <2>1. PICK k \in 0..(H - 1) : w = blocks[Anc(n, k)].id
      BY <1>4, <1>5
    <2>2. w \in Stored /\ numOf[w] = Anc(n, k) /\ Height(numOf[w]) = H - k
      BY <1>2, <1>3, <2>1
    <2>3. H - (H - k) = k /\ H - k <= H
      BY <1>1
    <2> QED
      BY <2>2, <2>3
  <1>6. ASSUME NEW w \in Stored, Height(numOf[w]) <= H, numOf[w] = Anc(n, H - Height(numOf[w]))
        PROVE  w \in onChain(x)
    <2>1. numOf[w] \in Numbers /\ blocks[numOf[w]].id = w
      BY <1>2
    <2>2. Height(numOf[w]) \in Nat /\ Height(numOf[w]) >= 1
      BY <2>1, AncFacts
    <2>3. H - Height(numOf[w]) \in 0..(H - 1)
      BY <1>1, <1>6, <2>2
    <2> QED
      BY <1>4, <1>6, <2>1, <2>3
  <1> QED
    BY <1>5, <1>6 DEF H, n, Under

-----------------------------------------------------------------------------
(* Links                                                                   *)

\* A link has the positions of the powers of two below the height of its block.
LEMMA LinkFacts ==
    ASSUME QInv, NEW n \in Numbers
    PROVE  LET ps == links[n].parents
           IN  /\ ps \in Seq(Numbers) /\ Len(ps) \in Nat
               /\ links[n].height = Height(n) /\ links[n].id = blocks[n].id
               /\ Height(n) <= pow2[Len(ps)]
               /\ \A i \in Nat : i + 1 <= Len(ps) <=> pow2[i] < Height(n)
               /\ \A i \in Nat : i + 1 <= Len(ps) => ps[i + 1] = Anc(n, pow2[i])
  <1> DEFINE ps == links[n].parents
  <1>1. ps \in Seq(Numbers) /\ Len(ps) \in Nat /\ Exact(ps, n, Height(n), below)
    BY DEF QInv, SkipInv, Positions, Height
  <1>2. links[n].height = Height(n) /\ links[n].id = blocks[n].id /\ Height(n) \in Nat
    BY AncFacts DEF QInv, StoreInv, IndexConsistent, Height
  <1>3. /\ Height(n) <= pow2[Len(ps)]
        /\ Len(ps) > 0 => pow2[Len(ps) - 1] < Height(n)
        /\ \A l \in 1..Len(ps) : ps[l] = Iter(below, n, pow2[l - 1])
    BY <1>1 DEF Exact
  <1> HIDE DEF ps
  <1>4. ASSUME NEW i \in Nat, i + 1 <= Len(ps)
        PROVE  pow2[i] < Height(n) /\ ps[i + 1] = Anc(n, pow2[i])
    <2>1. i + 1 \in 1..Len(ps) /\ (i + 1) - 1 = i /\ Len(ps) > 0 /\ Len(ps) - 1 \in Nat
      BY <1>1, <1>4
    <2>2. ps[i + 1] = Anc(n, pow2[i])
      BY <1>3, <2>1 DEF Anc
    <2>3. pow2[i] \in Nat /\ pow2[Len(ps) - 1] \in Nat
      BY <2>1, Pow2Facts
    <2>4. ~(pow2[Len(ps) - 1] < pow2[i])
      <3>1. pow2[Len(ps) - 1] < pow2[i] => Len(ps) - 1 < i
        BY <2>1, Pow2Order
      <3> QED
        BY <1>1, <1>4, <3>1
    <2> QED
      BY <1>2, <1>3, <2>1, <2>2, <2>3, <2>4
  <1>5. ASSUME NEW i \in Nat, pow2[i] < Height(n)
        PROVE  i + 1 <= Len(ps)
    <2>1. pow2[i] \in Nat /\ pow2[Len(ps)] \in Nat
      BY <1>1, Pow2Facts
    <2>2. pow2[i] < pow2[Len(ps)]
      BY <1>2, <1>3, <1>5, <2>1
    <2>3. i < Len(ps)
      BY <1>1, <2>2, Pow2Order
    <2> QED
      BY <1>1, <2>3
  <1> QED
    BY <1>1, <1>2, <1>3, <1>4, <1>5 DEF ps

-----------------------------------------------------------------------------
(* The first loop of lca: fastBackwardFarthest                             *)

\* The states of the loop that descends from block f to the height h: the block
\* it has reached is an ancestor of f, at most 2^i levels too high, and has i
\* positions.
Backward(f, h) ==
    {s \in Numbers \X Nat :
        /\ s[2] <= Len(links[s[1]].parents)
        /\ Height(s[1]) >= h
        /\ Height(s[1]) - h < pow2[s[2]]
        /\ Under(s[1], f)}

\* A turn of the loop keeps such a state and takes the position down.
LEMMA BackwardTurn ==
    ASSUME QInv, NEW f \in Numbers, NEW h \in Nat, h >= 1, NEW s \in Backward(f, h)
    PROVE  /\ backwardTurn(h)[s] \in Backward(f, h)
           /\ s[2] = 0 => backwardTurn(h)[s] = s
           /\ s[2] > 0 => backwardTurn(h)[s][2] < s[2]
  <1> DEFINE m == s[1]
             i == s[2]
             ps == links[m].parents
             q == pow2[i - 1]
             t == backwardTurn(h)[s]
  <1>1. /\ m \in Numbers /\ i \in Nat /\ s = <<m, i>> /\ s \in Numbers \X Nat
        /\ i <= Len(ps) /\ Height(m) >= h /\ Height(m) - h < pow2[i]
        /\ Height(m) <= Height(f) /\ m = Anc(f, Height(f) - Height(m))
    BY DEF Backward, Under
  <1>2. /\ ps \in Seq(Numbers) /\ Len(ps) \in Nat /\ links[m].height = Height(m)
        /\ \A k \in Nat : k + 1 <= Len(ps) => pow2[k] < Height(m)
        /\ \A k \in Nat : k + 1 <= Len(ps) => ps[k + 1] = Anc(m, pow2[k])
    BY <1>1, LinkFacts
  <1>3. t = IF i = 0 THEN s
            ELSE IF links[m].height - q >= h
            THEN <<ps[i], IF i > Len(links[ps[i]].parents)
                          THEN Len(links[ps[i]].parents) ELSE i - 1>>
            ELSE <<m, i - 1>>
    BY <1>1 DEF backwardTurn
  <1>4. /\ Height(m) \in Nat /\ Height(f) \in Nat
        /\ \A j \in Nat : j < Height(m) => Height(Anc(m, j)) = Height(m) - j
        /\ \A j \in Nat : Anc(m, j) \in Numbers
    BY <1>1, AncFacts DEF QInv
  <1> SUFFICES t \in Backward(f, h) /\ (i = 0 => t = s) /\ (i > 0 => t[2] < i)
    OBVIOUS
  <1> HIDE DEF t
  <1>5. CASE i = 0
    BY <1>3, <1>5
  <1>6. CASE i # 0
    <2>1. /\ i - 1 \in Nat /\ (i - 1) + 1 = i
          /\ q \in Nat /\ q > 0 /\ pow2[i] = 2 * q /\ q < Height(m)
          /\ ps[i] = Anc(m, q)
      <3>1. i - 1 \in Nat /\ (i - 1) + 1 = i
        BY <1>1, <1>6
      <3>2. q \in Nat /\ q > 0 /\ pow2[i] = 2 * q
        BY <3>1, Pow2Facts
      <3>3. q < Height(m) /\ ps[i] = Anc(m, q)
        BY <1>1, <1>2, <3>1
      <3> QED
        BY <3>1, <3>2, <3>3
    <2>2. CASE Height(m) - q >= h
      <3> DEFINE g == ps[i]
                 top == Len(links[g].parents)
                 j == IF i > top THEN top ELSE i - 1
      <3>1. t = <<g, j>>
        BY <1>2, <1>3, <1>6, <2>2
      <3>2. g \in Numbers /\ Height(g) = Height(m) - q
        BY <1>4, <2>1
      <3>3. top \in Nat /\ Height(g) <= pow2[top]
        BY <3>2, LinkFacts
      <3>4. j \in Nat /\ j <= top /\ j < i
        BY <1>1, <2>1, <3>3
      <3>5. Height(g) - h < pow2[j]
        <4>1. CASE i > top
          <5>1. j = top /\ pow2[top] \in Nat
            BY <3>3, <4>1, Pow2Facts
          <5> HIDE DEF j, top, g, m
          <5> QED
            BY <1>4, <2>1, <3>2, <3>3, <5>1
        <4>2. CASE ~(i > top)
          <5>1. j = i - 1 /\ pow2[j] = q
            BY <4>2
          <5>2. Height(m) - h < 2 * q
            BY <1>1, <2>1
          <5> HIDE DEF j, top, g, m, q, i
          <5> QED
            BY <1>4, <2>1, <3>2, <5>1, <5>2
        <4> QED
          BY <4>1, <4>2
      <3>6. Height(g) <= Height(f) /\ g = Anc(f, Height(f) - Height(g)) /\ Height(g) >= h
        <4>1. Height(f) - Height(m) \in Nat
          BY <1>1, <1>4
        <4>0. \A a, b \in Nat : Anc(f, a + b) = Anc(Anc(f, a), b)
          BY AncFacts DEF QInv
        <4>2. Anc(f, (Height(f) - Height(m)) + q) = Anc(Anc(f, Height(f) - Height(m)), q)
          BY <2>1, <4>0, <4>1
        <4>3. (Height(f) - Height(m)) + q = Height(f) - Height(g)
          BY <1>4, <2>1, <3>2
        <4>4. g = Anc(f, Height(f) - Height(g))
          BY <1>1, <2>1, <4>2, <4>3
        <4>5. Height(g) <= Height(f) /\ Height(g) >= h
          BY <1>1, <1>4, <2>1, <2>2, <3>2
        <4> QED
          BY <4>4, <4>5
      <3>7. <<g, j>> \in Backward(f, h)
        <4> HIDE DEF j, g
        <4> QED
          BY <3>2, <3>4, <3>5, <3>6 DEF Backward, Under, top
      <3> HIDE DEF j, g
      <3> QED
        BY <1>6, <3>1, <3>4, <3>7
    <2>3. CASE ~(Height(m) - q >= h)
      <3>1. t = <<m, i - 1>>
        BY <1>2, <1>3, <1>6, <2>3
      <3>2. Height(m) - h < pow2[i - 1] /\ i - 1 <= Len(ps)
        BY <1>1, <1>2, <1>4, <2>1, <2>3
      <3>3. <<m, i - 1>> \in Backward(f, h)
        <4> HIDE DEF m, i, ps
        <4> QED
          BY <1>1, <2>1, <3>2 DEF Backward, Under, ps
      <3> QED
        BY <1>1, <1>6, <2>1, <3>1, <3>3
    <2> QED
      BY <2>2, <2>3
  <1> QED
    BY <1>5, <1>6

\* fastBackwardFarthest returns the ancestor at the height of the other block.
LEMMA BackwardExact ==
    ASSUME QInv, NEW f \in Numbers, NEW h \in Nat, h >= 1, h <= Height(f)
    PROVE  fastBackwardFarthest(f, h) = Anc(f, Height(f) - h)
  <1> DEFINE top == Len(links[f].parents)
             S == Backward(f, h)
             body == backwardTurn(h)
             s0 == <<f, top>>
             it(k) == Iter(body, s0, k)
             T == {k \in Nat : k <= top => it(k)[2] <= top - k}
  <1>1. top \in Nat /\ Height(f) <= pow2[top] /\ pow2[top] \in Nat
    BY LinkFacts, Pow2Facts
  <1>2. Height(f) \in Nat /\ Anc(f, 0) = f
    BY AncFacts DEF QInv
  <1>3. s0 \in S
    <2>1. Height(f) - Height(f) = 0 /\ Height(f) - h < pow2[top]
      BY <1>1, <1>2
    <2> QED
      BY <1>1, <1>2, <2>1 DEF Backward, Under
  <1>4. /\ Closed(S, body)
        /\ \A s \in S : /\ s[2] \in Nat
                        /\ s[2] = 0 => body[s] = s
                        /\ s[2] > 0 => body[s][2] < s[2]
    <2>1. \A s \in S : s[2] \in Nat
      BY DEF Backward, Under
    <2>2. \A s \in S : /\ body[s] \in S
                       /\ s[2] = 0 => body[s] = s
                       /\ s[2] > 0 => body[s][2] < s[2]
      BY BackwardTurn
    <2> HIDE DEF S, body
    <2> QED
      BY <2>1, <2>2 DEF Closed
  <1>5. /\ it(0) = s0
        /\ \A k \in Nat : it(k) \in S
        /\ \A k \in Nat : it(k + 1) = body[it(k)]
    <2> HIDE DEF S, body, s0
    <2> QED
      BY <1>3, <1>4, IterSteps
  <1>6. it(top) \in S /\ it(top)[2] = 0
    <2> HIDE DEF S, body, it, top
    <2>1. 0 \in T
      BY <1>1, <1>5
    <2>2. ASSUME NEW k \in Nat, k \in T
          PROVE  k + 1 \in T
      <3> SUFFICES ASSUME k + 1 <= top
                   PROVE  it(k + 1)[2] <= top - (k + 1)
        OBVIOUS
      <3>1. it(k) \in S /\ it(k + 1) \in S /\ it(k + 1) = body[it(k)]
        BY <1>5
      <3>2. it(k)[2] <= top - k
        BY <1>1, <2>2
      <3>3. it(k)[2] \in Nat /\ it(k + 1)[2] \in Nat
        BY <1>4, <3>1
      <3>4. CASE it(k)[2] = 0
        <4>1. it(k + 1)[2] = 0
          BY <1>4, <3>1, <3>4
        <4> QED
          BY <1>1, <4>1
      <3>5. CASE it(k)[2] > 0
        <4>1. it(k + 1)[2] < it(k)[2]
          BY <1>4, <3>1, <3>5
        <4> QED
          BY <1>1, <3>2, <3>3, <4>1
      <3> QED
        BY <3>3, <3>4, <3>5
    <2>3. top \in T
      <3> HIDE DEF T
      <3> QED
        BY <1>1, <2>1, <2>2, Induction
    <2>4. it(top) \in S /\ it(top)[2] \in Nat
      BY <1>1, <1>4, <1>5
    <2> QED
      BY <1>1, <2>3, <2>4
  <1>7. it(top)[1] = Anc(f, Height(f) - h)
    <2> DEFINE m == it(top)[1]
    <2>1. /\ m \in Numbers /\ Height(m) >= h /\ Height(m) - h < pow2[0]
          /\ m = Anc(f, Height(f) - Height(m))
      <3> HIDE DEF it
      <3> QED
        BY <1>6 DEF Backward, Under
    <2>2. Height(m) \in Nat
      BY <2>1, AncFacts DEF QInv
    <2>3. Height(m) = h
      <3> HIDE DEF m
      <3> QED
        BY <2>1, <2>2, Pow2Facts
    <2> HIDE DEF m
    <2> QED
      BY <2>1, <2>3 DEF m
  <1> QED
    BY <1>7 DEF fastBackwardFarthest

-----------------------------------------------------------------------------
(* The second loop of lca                                                  *)

\* The states of the loop that descends from two different blocks f and o of the
\* same height: two different ancestors of the same height, whose own ancestors
\* 2^i levels below are the same.
Apart(f, o) ==
    {s \in Numbers \X Numbers \X Nat :
        /\ s[1] # s[2]
        /\ Height(s[1]) = Height(s[2])
        /\ Under(s[1], f) /\ Under(s[2], o)
        /\ Anc(s[1], pow2[s[3]]) = Anc(s[2], pow2[s[3]])}

\* A turn of the loop keeps such a state.
LEMMA DescendTurn ==
    ASSUME QInv, NEW f \in Numbers, NEW o \in Numbers, Height(f) = Height(o),
           NEW s \in Apart(f, o)
    PROVE  descendTurn[s] \in Apart(f, o)
  <1> DEFINE m == s[1]
             n == s[2]
             i == s[3]
             fs == links[m].parents
             os == links[n].parents
             q == pow2[i - 1]
  <1>1. /\ m \in Numbers /\ n \in Numbers /\ i \in Nat
        /\ s = <<m, n, i>> /\ s \in Numbers \X Numbers \X Nat
        /\ m # n /\ Height(m) = Height(n) /\ Height(m) <= Height(f)
        /\ m = Anc(f, Height(f) - Height(m)) /\ n = Anc(o, Height(o) - Height(n))
        /\ Anc(m, pow2[i]) = Anc(n, pow2[i])
    BY DEF Apart, Under
  <1>2. descendTurn[s] = IF i = 0 \/ Len(fs) < i \/ Len(os) < i THEN s
                         ELSE IF fs[i] # os[i] THEN <<fs[i], os[i], i - 1>>
                         ELSE <<m, n, i - 1>>
    BY <1>1 DEF descendTurn
  <1>3. CASE i = 0 \/ Len(fs) < i \/ Len(os) < i
    BY <1>2, <1>3
  <1>4. CASE ~(i = 0 \/ Len(fs) < i \/ Len(os) < i)
    <2>1. i - 1 \in Nat /\ (i - 1) + 1 = i
      BY <1>1, <1>4
    <2>2. q \in Nat /\ q > 0 /\ pow2[i] = q + q
      BY <2>1, Pow2Facts
    <2>3. i <= Len(fs) /\ i <= Len(os)
      <3>1. Len(fs) \in Nat /\ Len(os) \in Nat
        BY <1>1, LinkFacts
      <3> QED
        BY <1>1, <1>4, <3>1
    <2>4. fs[i] = Anc(m, q) /\ q < Height(m)
      BY <1>1, <2>1, <2>3, LinkFacts
    <2>5. os[i] = Anc(n, q) /\ q < Height(n)
      BY <1>1, <2>1, <2>3, LinkFacts
    <2>6. CASE fs[i] = os[i]
      <3>1. descendTurn[s] = <<m, n, i - 1>>
        BY <1>2, <1>4, <2>6
      <3>2. Anc(m, pow2[i - 1]) = Anc(n, pow2[i - 1])
        BY <2>4, <2>5, <2>6
      <3>3. <<m, n, i - 1>> \in Apart(f, o)
        <4> HIDE DEF m, n, i
        <4> QED
          BY <1>1, <2>1, <3>2 DEF Apart, Under
      <3> QED
        BY <3>1, <3>3
    <2>7. CASE fs[i] # os[i]
      <3> DEFINE a == fs[i]
                 b == os[i]
      <3>1. descendTurn[s] = <<a, b, i - 1>>
        BY <1>2, <1>4, <2>7
      <3>2. /\ \A j, k \in Nat : Anc(f, j + k) = Anc(Anc(f, j), k)
            /\ \A j, k \in Nat : Anc(o, j + k) = Anc(Anc(o, j), k)
            /\ \A j, k \in Nat : Anc(m, j + k) = Anc(Anc(m, j), k)
            /\ \A j, k \in Nat : Anc(n, j + k) = Anc(Anc(n, j), k)
        BY <1>1, AncFacts DEF QInv
      <3>0. \A x \in Numbers : /\ Height(x) \in Nat
                               /\ \A k \in Nat : Anc(x, k) \in Numbers
                               /\ \A k \in Nat : k < Height(x) =>
                                                  Height(Anc(x, k)) = Height(x) - k
        BY AncFacts DEF QInv
      <3>3. /\ Height(m) \in Nat /\ Height(f) \in Nat
            /\ a \in Numbers /\ Height(a) = Height(m) - q
        BY <1>1, <2>2, <2>4, <3>0
      <3>4. b \in Numbers /\ Height(b) = Height(n) - q
        BY <1>1, <2>2, <2>5, <3>0
      <3>5. /\ Height(f) - Height(m) \in Nat
            /\ (Height(f) - Height(m)) + q = Height(f) - Height(a)
            /\ (Height(o) - Height(n)) + q = Height(o) - Height(b)
            /\ Height(o) - Height(n) \in Nat
            /\ Height(a) = Height(b) /\ Height(a) <= Height(f)
        <4> HIDE DEF a, b, q, m, n
        <4> QED
          BY <1>1, <2>2, <3>3, <3>4
      <3>6. a = Anc(f, Height(f) - Height(a))
        <4>1. Anc(f, (Height(f) - Height(m)) + q) = Anc(Anc(f, Height(f) - Height(m)), q)
          BY <2>2, <3>2, <3>5
        <4> QED
          BY <1>1, <2>4, <3>5, <4>1
      <3>7. b = Anc(o, Height(o) - Height(b))
        <4>1. Anc(o, (Height(o) - Height(n)) + q) = Anc(Anc(o, Height(o) - Height(n)), q)
          BY <2>2, <3>2, <3>5
        <4> QED
          BY <1>1, <2>5, <3>5, <4>1
      <3>8. Anc(a, q) = Anc(b, q)
        BY <1>1, <2>2, <2>4, <2>5, <3>2
      <3>9. <<a, b, i - 1>> \in Apart(f, o)
        <4> HIDE DEF a, b, i
        <4> QED
          BY <2>1, <2>7, <3>3, <3>4, <3>5, <3>6, <3>7, <3>8 DEF Apart, Under, a, b
      <3> QED
        BY <3>1, <3>9
    <2> QED
      BY <2>6, <2>7
  <1> QED
    BY <1>3, <1>4

-----------------------------------------------------------------------------
(* The last common block                                                   *)

\* The numbers and the IDs of stored blocks.
LEMMA StoredFacts ==
    ASSUME StoreInv
    PROVE  /\ \A m \in Numbers : blocks[m].id \in Stored /\ numOf[blocks[m].id] = m
           /\ \A w \in Stored : /\ numOf[w] \in Numbers /\ blocks[numOf[w]].id = w
                                /\ block(w).height = Height(numOf[w]) /\ w \in ID
  BY DEF StoreInv, TypeOK, IndexConsistent, Stored, block, Height

\* Two chains have a last common block: at least the first block is common.
LEMMA LastCommon ==
    ASSUME StoreInv, NEW x \in Stored, NEW y \in Stored
    PROVE  /\ lastCommon(x, y) \in onChain(x) \cap onChain(y)
           /\ \A w \in onChain(x) \cap onChain(y) :
                 Height(numOf[w]) <= Height(numOf[lastCommon(x, y)])
  <1> DEFINE common == onChain(x) \cap onChain(y)
             H == Height(numOf[x])
             D == {H - Height(numOf[w]) : w \in common}
             Last(z) == \A w \in common : block(w).height <= block(z).height
  <1>1. /\ \A m \in Numbers : blocks[m].id \in Stored /\ numOf[blocks[m].id] = m
        /\ \A w \in Stored : numOf[w] \in Numbers /\ block(w).height = Height(numOf[w])
    BY StoredFacts
  <1>2. \A w \in common : /\ w \in Stored /\ numOf[w] \in Numbers
                          /\ Height(numOf[w]) \in Nat /\ Height(numOf[w]) <= H
    <2>1. \A w \in common : w \in Stored /\ Height(numOf[w]) <= H
      BY OnChain DEF Under
    <2> QED
      BY <1>1, <2>1, AncFacts
  <1>3. H \in Nat
    BY <1>1, AncFacts
  <1>4. D \in SUBSET Nat
    BY <1>2, <1>3
  <1>5. D # {}
    <2>1. numOf[x] \in Numbers /\ numOf[y] \in Numbers
      BY <1>1
    <2>2. 1 \in Numbers /\ Under(1, numOf[x]) /\ Under(1, numOf[y])
      BY <2>1, BottomUnder
    <2>3. blocks[1].id \in Stored /\ numOf[blocks[1].id] = 1
      BY <1>1, <2>2
    <2>4. blocks[1].id \in common
      BY <2>2, <2>3, OnChain
    <2> QED
      BY <2>4
  <1> HIDE DEF D
  <1>6. PICK d \in D : \A e \in D : d <= e
    BY <1>4, <1>5, LeastNatural
  <1>7. PICK z \in common : d = H - Height(numOf[z])
    BY <1>6 DEF D
  <1>8. Last(z)
    <2> SUFFICES ASSUME NEW w \in common
                 PROVE  block(w).height <= block(z).height
      OBVIOUS
    <2>1. H - Height(numOf[z]) <= H - Height(numOf[w])
      BY <1>6, <1>7 DEF D
    <2> QED
      BY <1>1, <1>2, <1>3, <2>1
  <1>9. lastCommon(x, y) = CHOOSE c \in common : Last(c)
    BY DEF lastCommon
  <1>10. lastCommon(x, y) \in common /\ Last(lastCommon(x, y))
    <2> HIDE DEF Last, common
    <2> QED
      BY <1>7, <1>8, <1>9
  <1> QED
    BY <1>1, <1>2, <1>10

\* It is the only common block that is as high as all of them.
LEMMA LastCommonIs ==
    ASSUME StoreInv, NEW x \in Stored, NEW y \in Stored, NEW z \in Numbers,
           Under(z, numOf[x]), Under(z, numOf[y]),
           \A w \in Numbers : Under(w, numOf[x]) /\ Under(w, numOf[y]) =>
                                 Height(w) <= Height(z)
    PROVE  lastCommon(x, y) = blocks[z].id
  <1> DEFINE c == lastCommon(x, y)
             id == blocks[z].id
  <1>1. /\ id \in Stored /\ numOf[id] = z
        /\ \A w \in Stored : numOf[w] \in Numbers /\ blocks[numOf[w]].id = w
    BY StoredFacts
  <1>2. id \in onChain(x) \cap onChain(y)
    BY <1>1, OnChain
  <1>3. c \in onChain(x) \cap onChain(y) /\ Height(z) <= Height(numOf[c])
    BY <1>1, <1>2, LastCommon
  <1>4. c \in Stored /\ Under(numOf[c], numOf[x]) /\ Under(numOf[c], numOf[y])
    BY <1>3, OnChain
  <1>5. /\ numOf[c] \in Numbers /\ numOf[x] \in Numbers
        /\ Height(numOf[c]) \in Nat /\ Height(z) \in Nat
    BY <1>1, <1>4, AncFacts
  <1>6. Height(numOf[c]) = Height(z)
    BY <1>3, <1>4, <1>5
  <1>7. numOf[c] = z
    BY <1>4, <1>5, <1>6, UnderFacts
  <1> QED
    BY <1>1, <1>4, <1>7

-----------------------------------------------------------------------------
(* lca                                                                     *)

\* The second loop starts, and so ends, with two blocks apart.
LEMMA DescendApart ==
    ASSUME QInv, NEW f \in Numbers, NEW o \in Numbers, f # o, Height(f) = Height(o)
    PROVE  LET top == Len(links[f].parents)
           IN  /\ <<f, o, top>> \in Apart(f, o)
               /\ Iter(descendTurn, <<f, o, top>>, top) \in Apart(f, o)
  <1> DEFINE top == Len(links[f].parents)
             s0 == <<f, o, top>>
             S == Apart(f, o)
  <1>1. top \in Nat /\ Height(f) <= pow2[top] /\ pow2[top] \in Nat
    BY LinkFacts, Pow2Facts
  <1>2. Height(f) \in Nat /\ Anc(f, 0) = f /\ Anc(o, 0) = o
    BY AncFacts DEF QInv
  <1>3. Anc(f, pow2[top]) = 1
    BY <1>1, <1>2, AncBottom DEF QInv
  <1>4. Anc(o, pow2[top]) = 1
    BY <1>1, <1>2, AncBottom DEF QInv
  <1>5. s0 \in S
    <2>1. Under(f, f) /\ Under(o, o)
      BY <1>2 DEF Under
    <2> QED
      BY <1>1, <1>3, <1>4, <2>1 DEF Apart
  <1>6. Closed(S, descendTurn)
    <2>1. \A s \in S : descendTurn[s] \in S
      BY DescendTurn
    <2> HIDE DEF S
    <2> QED
      BY <2>1 DEF Closed
  <1>7. \A k \in Nat : Iter(descendTurn, s0, k) \in S
    <2> HIDE DEF S, s0
    <2> QED
      BY <1>5, <1>6, IterSteps
  <1> QED
    BY <1>1, <1>5, <1>7

\* Two different blocks of one height with the same block below them: that one is
\* the last common block of every two chains through them.
LEMMA ForkPoint ==
    ASSUME StoreInv, NEW x \in Stored, NEW y \in Stored, NEW m \in Numbers, NEW n \in Numbers,
           m # n, Height(m) = Height(n), Height(m) > 1, Anc(m, 1) = Anc(n, 1),
           Under(m, numOf[x]), Under(n, numOf[y])
    PROVE  lastCommon(x, y) = blocks[Anc(m, 1)].id
  <1> DEFINE z == Anc(m, 1)
  <1>1. numOf[x] \in Numbers /\ numOf[y] \in Numbers
    BY StoredFacts
  <1>2. Height(m) \in Nat /\ z \in Numbers /\ Height(z) = Height(m) - 1 /\ Under(z, m)
    BY AncFacts, AncUnder
  <1>3. Under(z, n)
    BY AncUnder
  <1>4. Under(z, numOf[x]) /\ Under(z, numOf[y])
    BY <1>1, <1>2, <1>3, UnderFacts
  <1>5. ASSUME NEW w \in Numbers, Under(w, numOf[x]), Under(w, numOf[y])
        PROVE  Height(w) <= Height(z)
    <2> SUFFICES ASSUME Height(m) <= Height(w)
                 PROVE  FALSE
      <3>1. Height(w) \in Nat
        BY AncFacts
      <3> HIDE DEF z
      <3> QED
        BY <1>2, <3>1
    <2>1. Under(m, w)
      BY <1>1, <1>5, UnderFacts
    <2>2. Under(n, w)
      BY <1>1, <1>5, UnderFacts
    <2> QED
      BY <2>1, <2>2, UnderFacts
  <1> HIDE DEF z
  <1>6. lastCommon(x, y) = blocks[z].id
    BY <1>1, <1>2, <1>4, <1>5, LastCommonIs
  <1> QED
    BY <1>6 DEF z

\* The second loop and the return of lca.
LEMMA DescendReturns ==
    ASSUME QInv, NEW x \in Stored, NEW y \in Stored, NEW f \in Numbers, NEW o \in Numbers,
           f # o, Height(f) = Height(o), descend(f, o) # Panic,
           \/ Under(f, numOf[x]) /\ Under(o, numOf[y])
           \/ Under(f, numOf[y]) /\ Under(o, numOf[x])
    PROVE  descend(f, o) = lastCommon(x, y)
  <1> DEFINE top == Len(links[f].parents)
             s == Iter(descendTurn, <<f, o, top>>, top)
             m == s[1]
             n == s[2]
             ps == links[m].parents
  <1>1. s \in Apart(f, o)
    BY DescendApart
  <1>2. descend(f, o) = IF s[3] > 0 \/ ps = <<>> THEN Panic ELSE links[ps[1]].id
    BY DEF descend
  <1> HIDE DEF s
  <1>3. /\ m \in Numbers /\ n \in Numbers /\ s[3] \in Nat /\ m # n /\ Height(m) = Height(n)
        /\ Under(m, f) /\ Under(n, o) /\ Anc(m, pow2[s[3]]) = Anc(n, pow2[s[3]])
    BY <1>1 DEF Apart
  <1>4. s[3] = 0 /\ ps # <<>> /\ descend(f, o) = links[ps[1]].id
    <2>1. ~(s[3] > 0 \/ ps = <<>>)
      BY <1>2
    <2> QED
      BY <1>2, <1>3, <2>1
  <1>5. Anc(m, 1) = Anc(n, 1)
    BY <1>3, <1>4, Pow2Facts
  <1>6. ps[1] = Anc(m, 1) /\ Height(m) > 1
    <2>1. /\ ps \in Seq(Numbers) /\ Len(ps) \in Nat
          /\ \A i \in Nat : i + 1 <= Len(ps) => pow2[i] < Height(m)
          /\ \A i \in Nat : i + 1 <= Len(ps) => ps[i + 1] = Anc(m, pow2[i])
      BY <1>3, LinkFacts
    <2>2. 0 + 1 <= Len(ps)
      BY <1>4, <2>1
    <2>3. pow2[0] < Height(m) /\ ps[0 + 1] = Anc(m, pow2[0])
      BY <2>1, <2>2
    <2> QED
      BY <2>3, Pow2Facts
  <1>7. Anc(m, 1) \in Numbers /\ links[Anc(m, 1)].id = blocks[Anc(m, 1)].id
    <2>1. Anc(m, 1) \in Numbers
      BY <1>3, AncFacts DEF QInv
    <2> QED
      BY <2>1, LinkFacts
  <1>8. numOf[x] \in Numbers /\ numOf[y] \in Numbers
    BY StoredFacts DEF QInv
  <1>9. lastCommon(x, y) = blocks[Anc(m, 1)].id
    <2> HIDE DEF m, n
    <2>1. CASE Under(f, numOf[x]) /\ Under(o, numOf[y])
      <3>1. Under(m, numOf[x]) /\ Under(n, numOf[y])
        BY <1>3, <1>8, <2>1, UnderFacts DEF QInv
      <3> QED
        BY <1>3, <1>5, <1>6, <3>1, ForkPoint DEF QInv
    <2>2. CASE Under(f, numOf[y]) /\ Under(o, numOf[x])
      <3>1. Under(m, numOf[y]) /\ Under(n, numOf[x])
        BY <1>3, <1>8, <2>2, UnderFacts DEF QInv
      <3>2. Height(n) > 1
        BY <1>3, <1>6
      <3>3. lastCommon(x, y) = blocks[Anc(n, 1)].id
        BY <1>3, <1>5, <3>1, <3>2, ForkPoint DEF QInv
      <3> QED
        BY <1>5, <3>3
    <2> QED
      BY <2>1, <2>2
  <1> QED
    BY <1>4, <1>6, <1>7, <1>9

\* The first half of lca brings the two chains to the height of the lower one.
LEMMA LcaLevels ==
    ASSUME QInv, NEW x \in Stored, NEW y \in Stored
    PROVE  \E f, o \in Numbers :
              /\ Height(f) = least(block(x).height, block(y).height)
              /\ Height(o) = Height(f)
              /\ \/ Under(f, numOf[x]) /\ Under(o, numOf[y])
                 \/ Under(f, numOf[y]) /\ Under(o, numOf[x])
              /\ lca(x, y) = IF f = o THEN blocks[f].id ELSE descend(f, o)
  <1> DEFINE n1 == numOf[x]
             n2 == numOf[y]
             swap == links[n1].height < links[n2].height
             o == IF swap THEN n1 ELSE n2
             far == IF swap THEN n2 ELSE n1
             f == fastBackwardFarthest(far, links[o].height)
  <1>1. /\ n1 \in Numbers /\ n2 \in Numbers
        /\ block(x).height = Height(n1) /\ block(y).height = Height(n2)
    BY StoredFacts DEF QInv
  <1>2. links[n1].height = Height(n1) /\ links[n2].height = Height(n2)
    BY <1>1, LinkFacts
  <1>3. Height(n1) \in Nat /\ Height(n2) \in Nat /\ Height(n1) >= 1 /\ Height(n2) >= 1
    BY <1>1, AncFacts DEF QInv
  <1>4. /\ o \in Numbers /\ far \in Numbers /\ links[o].height = Height(o)
        /\ Height(o) \in Nat /\ Height(o) >= 1 /\ Height(far) \in Nat
        /\ Height(o) <= Height(far) /\ Height(o) = least(Height(n1), Height(n2))
    BY <1>1, <1>2, <1>3 DEF least
  <1>5. lca(x, y) = IF links[f].id = links[o].id THEN links[f].id ELSE descend(f, o)
    BY DEF lca
  <1> HIDE DEF o, far
  <1>6. f = Anc(far, Height(far) - Height(o))
    BY <1>4, BackwardExact
  <1>7. f \in Numbers /\ Height(f) = Height(o) /\ Under(f, far)
    <2> DEFINE k == Height(far) - Height(o)
    <2>1. k \in Nat /\ k < Height(far) /\ Height(far) - k = Height(o)
      BY <1>4
    <2> HIDE DEF k
    <2>2. Anc(far, k) \in Numbers /\ Height(Anc(far, k)) = Height(far) - k /\ Under(Anc(far, k), far)
      BY <1>4, <2>1, AncUnder DEF QInv
    <2>3. f = Anc(far, k)
      BY <1>6 DEF k
    <2> QED
      BY <2>1, <2>2, <2>3
  <1> HIDE DEF f
  <1>8. Under(o, o)
    <2>1. Anc(o, 0) = o
      BY <1>4, AncFacts DEF QInv
    <2>2. Height(o) - Height(o) = 0 /\ Height(o) <= Height(o)
      BY <1>4
    <2> QED
      BY <2>1, <2>2 DEF Under
  <1>9. links[f].id = blocks[f].id /\ links[o].id = blocks[o].id
    BY <1>4, <1>7, LinkFacts
  <1>10. blocks[f].id = blocks[o].id <=> f = o
    <2>1. numOf[blocks[f].id] = f /\ numOf[blocks[o].id] = o
      BY <1>4, <1>7, StoredFacts DEF QInv
    <2> QED
      BY <2>1
  <1>11. lca(x, y) = IF f = o THEN blocks[f].id ELSE descend(f, o)
    BY <1>5, <1>9, <1>10
  <1>12. \/ Under(f, numOf[x]) /\ Under(o, numOf[y])
         \/ Under(f, numOf[y]) /\ Under(o, numOf[x])
    BY <1>7, <1>8 DEF o, far
  <1> QED
    BY <1>1, <1>4, <1>7, <1>11, <1>12

\* Whenever lca returns, it returns the last common block.
LEMMA LcaExact ==
    ASSUME QInv, NEW x \in Stored, NEW y \in Stored
    PROVE  lca(x, y) \in {Panic, lastCommon(x, y)}
  <1>1. PICK f, o \in Numbers :
              /\ Height(f) = least(block(x).height, block(y).height)
              /\ Height(o) = Height(f)
              /\ \/ Under(f, numOf[x]) /\ Under(o, numOf[y])
                 \/ Under(f, numOf[y]) /\ Under(o, numOf[x])
              /\ lca(x, y) = IF f = o THEN blocks[f].id ELSE descend(f, o)
    BY LcaLevels
  <1>2. CASE f # o
    BY <1>1, <1>2, DescendReturns
  <1>3. CASE f = o
    <2>1. Under(f, numOf[x]) /\ Under(f, numOf[y])
      BY <1>1, <1>3
    <2>2. /\ numOf[x] \in Numbers /\ numOf[y] \in Numbers
          /\ block(x).height = Height(numOf[x]) /\ block(y).height = Height(numOf[y])
      BY StoredFacts DEF QInv
    <2>3. \A w \in Numbers : Under(w, numOf[x]) /\ Under(w, numOf[y]) =>
                                Height(w) <= Height(f)
      BY <1>1, <2>2 DEF Under, least
    <2>4. lastCommon(x, y) = blocks[f].id
      BY <2>1, <2>3, LastCommonIs DEF QInv
    <2> QED
      BY <1>1, <1>3, <2>4
  <1> QED
    BY <1>2, <1>3

\* The states of the second loop while the fork is short: the position exists.
Short(f, o, c) ==
    {s \in Apart(f, o) :
        /\ s[3] <= Len(links[s[1]].parents)
        /\ Height(s[1]) < 3 * (Height(c) + 1)}

\* Two blocks of one chain each, at or below the height of a common block c of
\* the chains, are one block.
LEMMA CommonBelow ==
    ASSUME StoreInv, NEW f \in Numbers, NEW o \in Numbers, NEW c \in Numbers,
           NEW a \in Numbers, NEW b \in Numbers,
           Under(c, f), Under(c, o), Under(a, f), Under(b, o), Height(a) = Height(b), a # b
    PROVE  Height(a) > Height(c)
  <1>1. Height(a) \in Nat /\ Height(c) \in Nat
    BY AncFacts
  <1> SUFFICES ASSUME Height(a) <= Height(c)
               PROVE  FALSE
    BY <1>1
  <1>2. Under(a, c)
    BY UnderFacts
  <1>3. Under(b, c)
    BY UnderFacts
  <1> QED
    BY <1>2, <1>3, UnderFacts

\* As long as the fork is short, a turn of the loop keeps the position on the
\* lists of both blocks and takes it down.
LEMMA ShortTurn ==
    ASSUME QInv, NEW f \in Numbers, NEW o \in Numbers, Height(f) = Height(o),
           NEW c \in Numbers, Under(c, f), Under(c, o), NEW s \in Short(f, o, c)
    PROVE  /\ descendTurn[s] \in Short(f, o, c)
           /\ descendTurn[s][3] = IF s[3] = 0 THEN 0 ELSE s[3] - 1
  <1> DEFINE m == s[1]
             n == s[2]
             i == s[3]
             fs == links[m].parents
             os == links[n].parents
             t == descendTurn[s]
  <1>1. /\ m \in Numbers /\ n \in Numbers /\ i \in Nat
        /\ s = <<m, n, i>> /\ s \in Numbers \X Numbers \X Nat /\ s \in Apart(f, o)
        /\ Height(m) = Height(n) /\ i <= Len(fs) /\ Height(m) < 3 * (Height(c) + 1)
    BY DEF Short, Apart
  <1>2. /\ Len(fs) \in Nat
        /\ \A k \in Nat : k + 1 <= Len(fs) => /\ pow2[k] < Height(m)
                                              /\ fs[k + 1] = Anc(m, pow2[k])
    BY <1>1, LinkFacts
  <1>3. /\ Len(os) \in Nat
        /\ \A k \in Nat : pow2[k] < Height(n) => k + 1 <= Len(os)
    BY <1>1, LinkFacts
  <1>4. t = IF i = 0 \/ Len(fs) < i \/ Len(os) < i THEN s
            ELSE IF fs[i] # os[i] THEN <<fs[i], os[i], i - 1>>
            ELSE <<m, n, i - 1>>
    BY <1>1 DEF descendTurn
  <1>5. t \in Apart(f, o)
    BY <1>1, DescendTurn
  <1> SUFFICES t \in Short(f, o, c) /\ t[3] = IF i = 0 THEN 0 ELSE i - 1
    OBVIOUS
  <1>6. CASE i = 0
    <2>1. t = s
      BY <1>4, <1>6
    <2> QED
      BY <1>6, <2>1
  <1>7. CASE i # 0
    <2>1. i - 1 \in Nat /\ (i - 1) + 1 = i
      BY <1>1, <1>7
    <2>2. pow2[i - 1] < Height(m) /\ fs[i] = Anc(m, pow2[i - 1])
      BY <1>1, <1>2, <2>1
    <2>3. i <= Len(os)
      BY <1>1, <1>3, <2>1, <2>2
    <2>4. ~(i = 0 \/ Len(fs) < i \/ Len(os) < i)
      BY <1>1, <1>2, <1>3, <1>7, <2>3
    <2>5. CASE fs[i] = os[i]
      <3>1. t = <<m, n, i - 1>>
        BY <1>4, <2>4, <2>5
      <3> HIDE DEF t, m, n, i
      <3>2. t[1] = m /\ t[3] = i - 1
        BY <3>1
      <3>3. i - 1 <= Len(fs)
        BY <1>1, <1>2, <2>1
      <3> QED
        BY <1>1, <1>5, <1>7, <3>2, <3>3 DEF Short, fs
    <2>6. CASE fs[i] # os[i]
      <3> DEFINE a == fs[i]
                 b == os[i]
                 q == pow2[i - 1]
      <3>1. t = <<a, b, i - 1>>
        BY <1>4, <2>4, <2>6
      <3> HIDE DEF t, a, b
      <3>2. t[1] = a /\ t[2] = b /\ t[3] = i - 1
        BY <3>1
      <3>3. /\ a \in Numbers /\ b \in Numbers /\ a # b /\ Height(a) = Height(b)
            /\ Under(a, f) /\ Under(b, o)
        BY <1>5, <3>2 DEF Apart
      <3>4. Height(a) > Height(c)
        BY <3>3, CommonBelow DEF QInv
      <3>5. q \in Nat /\ Height(a) = Height(m) - q
        <4>1. q \in Nat
          BY <2>1, Pow2Facts
        <4>2. a = Anc(m, q)
          BY <2>2 DEF a
        <4> QED
          BY <1>1, <2>2, <4>1, <4>2, AncFacts DEF QInv
      <3>6. Height(a) \in Nat /\ Height(m) \in Nat /\ Height(c) \in Nat
        BY <1>1, <3>3, AncFacts DEF QInv
      <3>7. i - 1 <= Len(links[a].parents)
        <4>0. Len(links[a].parents) \in Nat
          BY <3>3, LinkFacts
        <4>1. CASE i = 1
          BY <4>0, <4>1
        <4>2. CASE i # 1
          <5> DEFINE p == pow2[i - 2]
          <5>1. i - 2 \in Nat /\ (i - 2) + 1 = i - 1
            BY <1>1, <1>7, <4>2
          <5>2. p \in Nat /\ q = 2 * p
            BY <5>1, Pow2Facts
          <5>3. p < Height(a)
            <6> HIDE DEF p, q, m, a
            <6> QED
              BY <1>1, <3>4, <3>5, <3>6, <5>2
          <5>4. (i - 2) + 1 <= Len(links[a].parents)
            BY <3>3, <5>1, <5>3, LinkFacts
          <5> QED
            BY <5>1, <5>4
        <4> QED
          BY <4>1, <4>2
      <3>8. Height(a) < 3 * (Height(c) + 1)
        <4> HIDE DEF q, m
        <4> QED
          BY <1>1, <3>5, <3>6
      <3> QED
        BY <1>5, <1>7, <3>2, <3>7, <3>8 DEF Short
    <2> QED
      BY <2>5, <2>6
  <1> QED
    BY <1>6, <1>7

\* On a short fork the loop reaches position 0 and a link with a parent.
LEMMA ShortReturns ==
    ASSUME QInv, NEW f \in Numbers, NEW o \in Numbers, f # o, Height(f) = Height(o),
           NEW c \in Numbers, Under(c, f), Under(c, o), Height(f) < 3 * (Height(c) + 1)
    PROVE  descend(f, o) # Panic
  <1> DEFINE top == Len(links[f].parents)
             s0 == <<f, o, top>>
             S == Short(f, o, c)
             it(k) == Iter(descendTurn, s0, k)
             T == {k \in Nat : k <= top => it(k)[3] = top - k}
  <1>1. top \in Nat
    BY LinkFacts
  <1>2. s0 \in S
    <2>1. s0 \in Apart(f, o)
      BY DescendApart
    <2> QED
      BY <1>1, <2>1 DEF Short
  <1>3. /\ Closed(S, descendTurn)
        /\ \A s \in S : descendTurn[s][3] = IF s[3] = 0 THEN 0 ELSE s[3] - 1
    <2>1. \A s \in S : /\ descendTurn[s] \in S
                       /\ descendTurn[s][3] = IF s[3] = 0 THEN 0 ELSE s[3] - 1
      BY ShortTurn
    <2> HIDE DEF S
    <2> QED
      BY <2>1 DEF Closed
  <1>4. /\ it(0) = s0
        /\ \A k \in Nat : it(k) \in S
        /\ \A k \in Nat : it(k + 1) = descendTurn[it(k)]
    <2> HIDE DEF S, s0
    <2> QED
      BY <1>2, <1>3, IterSteps
  <1>5. it(top) \in S /\ it(top)[3] = 0
    <2>0. it(0)[3] = top
      <3> HIDE DEF it, top
      <3> QED
        BY <1>4
    <2> HIDE DEF S, it, top
    <2>1. 0 \in T
      BY <1>1, <2>0
    <2>2. ASSUME NEW k \in Nat, k \in T
          PROVE  k + 1 \in T
      <3> SUFFICES ASSUME k + 1 <= top
                   PROVE  it(k + 1)[3] = top - (k + 1)
        OBVIOUS
      <3>1. it(k)[3] = top - k /\ top - k # 0
        BY <1>1, <2>2
      <3>2. it(k + 1)[3] = it(k)[3] - 1
        BY <1>3, <1>4, <3>1
      <3> QED
        BY <1>1, <3>1, <3>2
    <2>3. top \in T
      <3> HIDE DEF T
      <3> QED
        BY <1>1, <2>1, <2>2, Induction
    <2> QED
      BY <1>1, <1>4, <2>3
  <1> DEFINE s == it(top)
             m == s[1]
             ps == links[m].parents
  <1>6. descend(f, o) = IF s[3] > 0 \/ ps = <<>> THEN Panic ELSE links[ps[1]].id
    BY DEF descend
  <1> HIDE DEF s
  <1>7. s \in Short(f, o, c) /\ s[3] = 0
    BY <1>5 DEF s
  <1>8. /\ m \in Numbers /\ s[2] \in Numbers /\ m # s[2] /\ Height(m) = Height(s[2])
        /\ Under(m, f) /\ Under(s[2], o)
    BY <1>7 DEF Short, Apart
  <1>9. Height(m) > Height(c) /\ Height(c) >= 1 /\ Height(c) \in Nat /\ Height(m) \in Nat
    BY <1>8, CommonBelow, AncFacts DEF QInv
  <1>10. /\ ps \in Seq(Numbers) /\ Len(ps) \in Nat
         /\ \A k \in Nat : pow2[k] < Height(m) => k + 1 <= Len(ps)
         /\ \A k \in Nat : k + 1 <= Len(ps) => ps[k + 1] = Anc(m, pow2[k])
    BY <1>8, LinkFacts
  <1> HIDE DEF m, ps
  <1>11. 0 + 1 <= Len(ps)
    <2>1. pow2[0] < Height(m)
      BY <1>9, Pow2Facts
    <2> QED
      BY <1>10, <2>1
  <1>12. ps # <<>> /\ ps[1] \in Numbers
    BY <1>10, <1>11
  <1>13. descend(f, o) = links[ps[1]].id
    BY <1>6, <1>7, <1>12
  <1>14. links[ps[1]].id \in ID
    <2>1. links[ps[1]].id = blocks[ps[1]].id
      BY <1>12, LinkFacts
    <2>2. blocks[ps[1]].id \in Stored
      BY <1>12, StoredFacts DEF QInv
    <2> QED
      BY <2>1, <2>2, StoredFacts DEF QInv
  <1> QED
    BY <1>13, <1>14, PanicAssumption

\* lca panics only on a fork that is long against the height it starts from.
LEMMA LcaPanics ==
    ASSUME QInv, NEW x \in Stored, NEW y \in Stored, lca(x, y) = Panic
    PROVE  least(block(x).height, block(y).height) >= 3 * (block(lastCommon(x, y)).height + 1)
  <1> DEFINE id == lastCommon(x, y)
             c == numOf[id]
             h == least(block(x).height, block(y).height)
  <1>1. PICK f, o \in Numbers :
              /\ Height(f) = h
              /\ Height(o) = Height(f)
              /\ \/ Under(f, numOf[x]) /\ Under(o, numOf[y])
                 \/ Under(f, numOf[y]) /\ Under(o, numOf[x])
              /\ lca(x, y) = IF f = o THEN blocks[f].id ELSE descend(f, o)
    BY LcaLevels
  <1>2. f # o
    <2>1. blocks[f].id \in ID
      BY StoredFacts DEF QInv
    <2> QED
      BY <1>1, <2>1, PanicAssumption
  <1>3. id \in Stored /\ Under(c, numOf[x]) /\ Under(c, numOf[y])
    BY LastCommon, OnChain DEF QInv
  <1>4. /\ c \in Numbers /\ numOf[x] \in Numbers /\ numOf[y] \in Numbers
        /\ block(id).height = Height(c)
        /\ block(x).height = Height(numOf[x]) /\ block(y).height = Height(numOf[y])
    BY <1>3, StoredFacts DEF QInv
  <1>5. Height(c) \in Nat /\ Height(f) \in Nat
    BY <1>4, AncFacts DEF QInv
  <1>6. Height(c) <= Height(f) /\ Height(c) <= Height(o)
    BY <1>1, <1>3, <1>4 DEF Under, least
  <1>7. Under(c, f) /\ Under(c, o)
    BY <1>1, <1>3, <1>4, <1>6, UnderFacts DEF QInv
  <1>8. ~(Height(f) < 3 * (Height(c) + 1))
    BY <1>1, <1>2, <1>4, <1>7, ShortReturns
  <1> HIDE DEF h, c, id
  <1>9. h >= 3 * (block(id).height + 1)
    BY <1>1, <1>4, <1>5, <1>8
  <1> QED
    BY <1>9 DEF h, id

-----------------------------------------------------------------------------
(* Walks                                                                   *)

\* The block a walk over the chain of block n sees next, 0 after the last one.
NextOf(n, k) == IF k < Height(n) THEN Anc(n, k) ELSE 0

\* The first position of a link is the block below it; only block 1 has none.
LEMMA FirstParent ==
    ASSUME QInv, NEW n \in Numbers, NEW k \in Nat, k < Height(n)
    PROVE  LET m == Anc(n, k)
           IN  /\ m \in Numbers /\ m # 0
               /\ links[m].parents = <<>> => NextOf(n, k + 1) = 0
               /\ links[m].parents # <<>> => NextOf(n, k + 1) = links[m].parents[1]
               /\ blocks[m].parent = NoID <=> links[m].parents = <<>>
  <1> DEFINE m == Anc(n, k)
             ps == links[m].parents
  <1>1. /\ m \in Numbers /\ Height(m) = Height(n) - k
        /\ Anc(n, k + 1) = below[m] /\ Height(n) \in Nat
    BY AncFacts DEF QInv
  <1>2. /\ ps \in Seq(Numbers) /\ Len(ps) \in Nat
        /\ \A i \in Nat : i + 1 <= Len(ps) <=> pow2[i] < Height(m)
        /\ \A i \in Nat : i + 1 <= Len(ps) => ps[i + 1] = Anc(m, pow2[i])
    BY <1>1, LinkFacts
  <1>3. Anc(m, 0) = m /\ Anc(m, 0 + 1) = below[Anc(m, 0)] /\ (Height(m) = 1 <=> m = 1)
        /\ Height(m) \in Nat /\ Height(m) >= 1
    BY <1>1, AncFacts DEF QInv
  <1>4. blocks[m].parent = NoID <=> m = 1
    <2>1. m # 1 => blocks[m].parent \in DOMAIN numOf /\ DOMAIN numOf \subseteq ID
      BY <1>1 DEF QInv, StoreInv, ChainsGrowByOne, TypeOK
    <2>2. m = 1 => blocks[m].parent = NoID
      BY <1>1 DEF QInv, StoreInv, ChainsGrowByOne
    <2> QED
      BY <2>1, <2>2, IDAssumption
  <1>5. m # 0
    BY <1>1 DEF Numbers, QInv, StoreInv, TypeOK
  <1> HIDE DEF m, ps
  <1>6. ps = <<>> <=> Height(m) = 1
    <2>1. 0 + 1 <= Len(ps) <=> 1 < Height(m)
      BY <1>2, Pow2Facts
    <2>2. ps = <<>> <=> Len(ps) = 0
      BY <1>2
    <2>3. Len(ps) = 0 <=> Height(m) = 1
      <3>1. Len(ps) \in Nat
        BY <1>2
      <3>2. Height(m) \in Nat /\ Height(m) >= 1
        BY <1>3
      <3> QED
        BY <2>1, <3>1, <3>2
    <2> QED
      BY <2>2, <2>3, Zenon
  <1>7. CASE Height(m) = 1
    <2>1. ~(k + 1 < Height(n))
      BY <1>1, <1>7
    <2> QED
      BY <1>1, <1>3, <1>4, <1>5, <1>6, <1>7, <2>1 DEF NextOf, m, ps
  <1>8. CASE Height(m) # 1
    <2>0. k + 1 < Height(n) /\ pow2[0] < Height(m)
      BY <1>1, <1>3, <1>8, Pow2Facts
    <2>1. k + 1 < Height(n) /\ 0 + 1 <= Len(ps)
      BY <1>2, <2>0
    <2>2. ps[0 + 1] = Anc(m, pow2[0])
      BY <1>2, <2>1
    <2>3. ps[1] = below[m]
      BY <1>3, <2>2, Pow2Facts
    <2> QED
      BY <1>1, <1>3, <1>4, <1>5, <1>6, <1>8, <2>1, <2>3 DEF NextOf, m, ps
  <1> QED
    BY <1>7, <1>8

\* One more value at the end of a sequence.
LEMMA OneMore ==
    ASSUME NEW V, NEW k \in Nat, NEW g, \A i \in 1..(k + 1) : g[i] \in V
    PROVE  [i \in 1..(k + 1) |-> g[i]] = Append([i \in 1..k |-> g[i]], g[k + 1])
  <1> DEFINE p == [i \in 1..k |-> g[i]]
             q == [i \in 1..(k + 1) |-> g[i]]
  <1>1. p \in Seq(V) /\ Len(p) = k /\ \A i \in 1..k : p[i] = g[i]
    OBVIOUS
  <1>2. q \in Seq(V) /\ Len(q) = k + 1 /\ \A i \in 1..(k + 1) : q[i] = g[i]
    OBVIOUS
  <1>3. g[k + 1] \in V
    OBVIOUS
  <1> HIDE DEF p, q
  <1>4. /\ Append(p, g[k + 1]) \in Seq(V) /\ Len(Append(p, g[k + 1])) = k + 1
        /\ \A i \in 1..k : Append(p, g[k + 1])[i] = p[i]
        /\ Append(p, g[k + 1])[k + 1] = g[k + 1]
    BY <1>1, <1>3, AppendProperties
  <1>5. \A i \in 1..(k + 1) : q[i] = Append(p, g[k + 1])[i]
    BY <1>1, <1>2, <1>4
  <1>6. q = Append(p, g[k + 1])
    BY <1>2, <1>4, <1>5, SeqEqual
  <1> QED
    BY <1>6 DEF p, q

\* The states of a walk that collects the values V of blocks, and its turn.
Walks(V) == [n : Numbers \cup {0}, r : Seq(V)]

WalkTurn(turn, V, val) ==
    \A s \in Walks(V) : turn[s] =
        IF s.n = 0 THEN s
        ELSE [n |-> IF links[s.n].parents = <<>> THEN 0 ELSE links[s.n].parents[1],
              r |-> Append(s.r, val[s.n])]

\* A walk of `count' turns sees the first `count' blocks of the chain.
LEMMA WalkExact ==
    ASSUME QInv, NEW n \in Numbers, NEW count \in Nat,
           NEW V, NEW val \in [Numbers -> V], NEW turn, WalkTurn(turn, V, val)
    PROVE  Iter(turn, [n |-> n, r |-> <<>>], count).r =
              [i \in 1..least(count, Height(n)) |-> val[Anc(n, i - 1)]]
  <1> DEFINE H == Height(n)
             seen(k) == [i \in 1..least(k, H) |-> val[Anc(n, i - 1)]]
             st(k) == [n |-> NextOf(n, k), r |-> seen(k)]
             s0 == [n |-> n, r |-> <<>>]
             S == Walks(V)
             it(k) == Iter(turn, s0, k)
             T == {k \in Nat : it(k) = st(k)}
  <1>1. H \in Nat /\ H >= 1 /\ Anc(n, 0) = n /\ \A i \in Nat : Anc(n, i) \in Numbers
    BY AncFacts DEF QInv
  <1>2. \A m \in Numbers : links[m].parents \in Seq(Numbers)
    BY LinkFacts
  <1>3. Closed(S, turn)
    <2> SUFFICES ASSUME NEW s \in S, s.n # 0
                 PROVE  turn[s] \in S
      BY DEF Closed, WalkTurn
    <2> DEFINE ps == links[s.n].parents
    <2>1. s.n \in Numbers /\ s.r \in Seq(V)
      BY DEF Walks
    <2>2. val[s.n] \in V /\ ps \in Seq(Numbers)
      BY <1>2, <2>1
    <2>3. Append(s.r, val[s.n]) \in Seq(V)
      BY <2>1, <2>2
    <2>4. ps # <<>> => ps[1] \in Numbers
      BY <2>2
    <2>5. turn[s] = [n |-> IF ps = <<>> THEN 0 ELSE ps[1], r |-> Append(s.r, val[s.n])]
      BY DEF WalkTurn
    <2> HIDE DEF ps
    <2> QED
      BY <2>3, <2>4, <2>5 DEF Walks
  <1>4. /\ it(0) = s0
        /\ \A k \in Nat : it(k) \in S
        /\ \A k \in Nat : it(k + 1) = turn[it(k)]
    <2>1. s0 \in S
      BY DEF Walks
    <2> HIDE DEF S, s0
    <2> QED
      BY <1>3, <2>1, IterSteps
  <1>5. 0 \in T
    <2>1. NextOf(n, 0) = n /\ least(0, H) = 0
      BY <1>1 DEF NextOf, least
    <2>2. seen(0) = <<>>
      BY <2>1
    <2> HIDE DEF it, seen
    <2> QED
      BY <1>4, <2>1, <2>2
  <1>6. ASSUME NEW k \in Nat, k \in T
        PROVE  k + 1 \in T
    <2>1. it(k) = st(k) /\ it(k) \in S /\ it(k + 1) = turn[st(k)]
      BY <1>4, <1>6
    <2>2. st(k).n = NextOf(n, k) /\ st(k).r = seen(k)
      OBVIOUS
    <2>3. CASE k < H
      <3> DEFINE m == Anc(n, k)
      <3>1. /\ m \in Numbers /\ m # 0 /\ NextOf(n, k) = m
            /\ links[m].parents = <<>> => NextOf(n, k + 1) = 0
            /\ links[m].parents # <<>> => NextOf(n, k + 1) = links[m].parents[1]
        BY <1>1, <2>3, FirstParent DEF NextOf
      <3>2. seen(k + 1) = Append(seen(k), val[m])
        <4>1. least(k, H) = k /\ least(k + 1, H) = k + 1
          BY <1>1, <2>3 DEF least
        <4>2. seen(k) = [i \in 1..k |-> val[Anc(n, i - 1)]]
          BY <4>1
        <4>3. seen(k + 1) = [i \in 1..(k + 1) |-> val[Anc(n, i - 1)]]
          BY <4>1
        <4> DEFINE g == [i \in 1..(k + 1) |-> val[Anc(n, i - 1)]]
        <4>4. \A i \in 1..(k + 1) : g[i] \in V
          BY <1>1
        <4>5. /\ seen(k) = [i \in 1..k |-> g[i]] /\ seen(k + 1) = [i \in 1..(k + 1) |-> g[i]]
              /\ g[k + 1] = val[m]
          <5>1. (k + 1) - 1 = k /\ k + 1 \in 1..(k + 1)
            OBVIOUS
          <5>2. g[k + 1] = val[m]
            BY <5>1
          <5>3. \A i \in 1..k : g[i] = val[Anc(n, i - 1)]
            OBVIOUS
          <5>4. seen(k) = [i \in 1..k |-> g[i]]
            BY <4>2, <5>3
          <5>5. seen(k + 1) = [i \in 1..(k + 1) |-> g[i]]
            BY <4>3
          <5> QED
            BY <5>2, <5>4, <5>5
        <4> HIDE DEF g
        <4>6. [i \in 1..(k + 1) |-> g[i]] = Append([i \in 1..k |-> g[i]], g[k + 1])
          BY <4>4, OneMore
        <4> QED
          BY <4>5, <4>6
      <3>3. turn[st(k)] = [n |-> NextOf(n, k + 1), r |-> Append(seen(k), val[m])]
        <4> HIDE DEF m, seen
        <4> QED
          BY <2>1, <2>2, <3>1 DEF WalkTurn
      <3> HIDE DEF it, seen, m
      <3> QED
        BY <2>1, <3>2, <3>3
    <2>4. CASE ~(k < H)
      <3>1. NextOf(n, k) = 0 /\ NextOf(n, k + 1) = 0
        BY <1>1, <2>4 DEF NextOf
      <3>2. seen(k + 1) = seen(k)
        <4>1. least(k, H) = H /\ least(k + 1, H) = H
          BY <1>1, <2>4 DEF least
        <4> QED
          BY <4>1
      <3>3. turn[st(k)] = st(k)
        BY <2>1, <2>2, <3>1 DEF WalkTurn
      <3> HIDE DEF it, seen
      <3> QED
        BY <2>1, <3>1, <3>2, <3>3
    <2> QED
      BY <2>3, <2>4
  <1>7. count \in T
    <2> HIDE DEF T
    <2> QED
      BY <1>5, <1>6, Induction
  <1> HIDE DEF it
  <1>8. it(count).r = seen(count)
    BY <1>7
  <1> QED
    BY <1>8 DEF it

\* A state of a walk has a natural number for the next block.
LEMMA WalkTyped ==
    ASSUME StoreInv, NEW V, NEW s \in Walks(V)
    PROVE  s \in [n : Nat, r : Seq(V)]
  <1>1. s = [n |-> s.n, r |-> s.r] /\ s.r \in Seq(V) /\ s.n \in Numbers \cup {0}
    BY DEF Walks
  <1>2. Numbers \subseteq Nat
    BY DEF StoreInv, TypeOK, Numbers
  <1>3. CASE s.n = 0
    BY <1>1, <1>3
  <1>4. CASE s.n \in Numbers
    <2>1. s.n \in Nat
      BY <1>2, <1>4, Zenon
    <2> QED
      BY <1>1, <2>1
  <1> QED
    BY <1>1, <1>3, <1>4

\* getAncestors returns the IDs of the first `count' blocks of the chain.
LEMMA AncestorsExact ==
    ASSUME QInv, NEW x \in Stored, NEW count \in Nat
    PROVE  getAncestors(x, count) =
              [i \in 1..least(count, Height(numOf[x])) |-> blocks[Anc(numOf[x], i - 1)].id]
  <1> DEFINE n == numOf[x]
             val == [m \in Numbers |-> blocks[m].id]
  <1>1. n \in Numbers /\ Height(n) \in Nat /\ \A i \in Nat : Anc(n, i) \in Numbers
    BY StoredFacts, AncFacts DEF QInv
  <1>2. val \in [Numbers -> ID]
    BY StoredFacts DEF QInv
  <1>3. WalkTurn(ancestorsTurn, ID, val)
    <2> SUFFICES ASSUME NEW s \in Walks(ID)
                 PROVE  ancestorsTurn[s] =
                          IF s.n = 0 THEN s
                          ELSE [n |-> IF links[s.n].parents = <<>> THEN 0
                                      ELSE links[s.n].parents[1],
                                r |-> Append(s.r, val[s.n])]
      BY Zenon DEF WalkTurn
    <2>1. s \in [n : Nat, r : Seq(ID)]
      BY WalkTyped DEF QInv
    <2>2. s.n = 0 \/ s.n \in Numbers
      BY DEF Walks
    <2>3. s.n \in Numbers => links[s.n].id = val[s.n]
      BY LinkFacts
    <2> HIDE DEF val
    <2> QED
      BY <2>1, <2>2, <2>3 DEF ancestorsTurn
  <1>4. getAncestors(x, count) = [i \in 1..least(count, Height(n)) |-> val[Anc(n, i - 1)]]
    <2> HIDE DEF val
    <2> QED
      BY <1>1, <1>2, <1>3, WalkExact DEF getAncestors
  <1>5. \A i \in 1..least(count, Height(n)) : val[Anc(n, i - 1)] = blocks[Anc(n, i - 1)].id
    <2>1. least(count, Height(n)) \in Nat
      BY <1>1 DEF least
    <2>2. \A i \in 1..least(count, Height(n)) : i - 1 \in Nat
      BY <2>1
    <2> QED
      BY <1>1, <2>2
  <1> HIDE DEF val
  <1> QED
    BY <1>4, <1>5

\* getBlocks returns the same blocks from the other table.
LEMMA BlocksExact ==
    ASSUME QInv, NEW x \in Stored, NEW count \in Nat
    PROVE  getBlocks(x, count) =
              [i \in 1..least(count, Height(numOf[x])) |-> blocks[Anc(numOf[x], i - 1)]]
  <1> DEFINE n == numOf[x]
  <1>1. n \in Numbers
    BY StoredFacts DEF QInv
  <1>2. blocks \in [Numbers -> Rows]
    BY DEF QInv, StoreInv, TypeOK, Rows
  <1>3. WalkTurn(blocksTurn, Rows, blocks)
    <2> SUFFICES ASSUME NEW s \in Walks(Rows)
                 PROVE  blocksTurn[s] =
                          IF s.n = 0 THEN s
                          ELSE [n |-> IF links[s.n].parents = <<>> THEN 0
                                      ELSE links[s.n].parents[1],
                                r |-> Append(s.r, blocks[s.n])]
      BY Zenon DEF WalkTurn
    <2>1. s \in [n : Nat, r : Seq(Rows)]
      BY WalkTyped DEF QInv
    <2>2. s.n = 0 \/ s.n \in Numbers
      BY DEF Walks
    <2>3. s.n \in Numbers => (blocks[s.n].parent = NoID <=> links[s.n].parents = <<>>)
      <3> SUFFICES ASSUME s.n \in Numbers
                   PROVE  blocks[s.n].parent = NoID <=> links[s.n].parents = <<>>
        OBVIOUS
      <3>1. Anc(s.n, 0) = s.n /\ 0 < Height(s.n)
        <4>1. Anc(s.n, 0) = s.n /\ Height(s.n) \in Nat /\ Height(s.n) >= 1
          BY AncFacts DEF QInv
        <4> QED
          BY <4>1
      <3> QED
        BY <3>1, FirstParent
    <2> QED
      BY <2>1, <2>2, <2>3 DEF blocksTurn
  <1> QED
    BY <1>1, <1>2, <1>3, WalkExact DEF getBlocks

\* The statistics of generators are about the blocks LastIDs names.
LEMMA WalksExact ==
    ASSUME QInv
    PROVE  WalksFollowChain
  <1> SUFFICES ASSUME NEW x \in Stored, NEW count \in Counts
               PROVE  LET last == SubSeq(chainOf(x), 1, least(count, block(x).height))
                      IN  /\ getAncestors(x, count) = last
                          /\ \A gen \in Generator :
                                LET made == {i \in DOMAIN last : block(last[i]).generator = gen}
                                    stats == ForkGenerators(x, count)
                                IN  IF made = {} THEN gen \notin DOMAIN stats
                                    ELSE gen \in DOMAIN stats /\ stats[gen] = Cardinality(made)
    BY DEF WalksFollowChain
  <1> DEFINE n == numOf[x]
             H == Height(n)
             L == least(count, H)
             chain == chainOf(x)
             last == SubSeq(chain, 1, L)
             bs == getBlocks(x, count)
  <1>1. /\ n \in Numbers /\ H \in Nat /\ H >= 1 /\ block(x).height = H
        /\ \A i \in Nat : Anc(n, i) \in Numbers
    BY StoredFacts, AncFacts DEF QInv
  <1>2. count \in Nat
    BY CountsAssumption
  <1>3. L \in Nat /\ L <= H
    BY <1>1, <1>2 DEF least
  <1>4. \A i \in 1..H : /\ Anc(n, i - 1) \in Numbers /\ blocks[Anc(n, i - 1)].id \in ID
                        /\ block(blocks[Anc(n, i - 1)].id) = blocks[Anc(n, i - 1)]
    <2>1. \A i \in 1..H : Anc(n, i - 1) \in Numbers
      BY <1>1
    <2>2. \A m \in Numbers : blocks[m].id \in ID /\ block(blocks[m].id) = blocks[m]
      BY StoredFacts DEF QInv, block
    <2> QED
      BY <2>1, <2>2
  <1>5. chain = [i \in 1..H |-> blocks[Anc(n, i - 1)].id]
    BY <1>1 DEF chainOf, NthAncestor, Anc
  <1>6. chain \in Seq(ID) /\ Len(chain) = H
    BY <1>1, <1>4, <1>5
  <1>7. getAncestors(x, count) = [i \in 1..L |-> blocks[Anc(n, i - 1)].id]
    BY <1>2, AncestorsExact
  <1>8. bs = [i \in 1..L |-> blocks[Anc(n, i - 1)]]
    BY <1>2, BlocksExact
  <1> HIDE DEF n, H, L
  <1>9. last = [i \in 1..L |-> blocks[Anc(n, i - 1)].id]
    <2>1. 1 \in Int /\ L \in Int /\ L <= Len(chain)
      BY <1>1, <1>3, <1>6
    <2>2. last = [i \in 1..L |-> chain[i]]
      <3> HIDE DEF chain
      <3> QED
        BY <1>6, <1>3, <2>1
    <2>3. \A i \in 1..L : i \in 1..H
      BY <1>1, <1>3
    <2> QED
      BY <1>5, <2>2, <2>3
  <1> HIDE DEF chain, last, bs
  <1>10. getAncestors(x, count) = last
    BY <1>7, <1>9
  <1>11. /\ DOMAIN last = DOMAIN bs
         /\ \A i \in DOMAIN last : block(last[i]) = bs[i]
    <2>1. \A i \in 1..L : i \in 1..H
      BY <1>1, <1>3
    <2> QED
      BY <1>4, <1>8, <1>9, <2>1
  <1>12. ASSUME NEW gen \in Generator
         PROVE  LET made == {i \in DOMAIN last : block(last[i]).generator = gen}
                    stats == ForkGenerators(x, count)
                IN  IF made = {} THEN gen \notin DOMAIN stats
                    ELSE gen \in DOMAIN stats /\ stats[gen] = Cardinality(made)
    <2> DEFINE made == {i \in DOMAIN last : block(last[i]).generator = gen}
               mine(y) == {i \in DOMAIN bs : bs[i].generator = y}
               gens == {bs[i].generator : i \in DOMAIN bs}
    <2>1. made = mine(gen)
      BY <1>11
    <2>2. ForkGenerators(x, count) = [y \in gens |-> Cardinality(mine(y))]
      BY DEF ForkGenerators, bs
    <2>3. gen \in gens <=> mine(gen) # {}
      OBVIOUS
    <2> HIDE DEF made, mine, gens
    <2>4. /\ DOMAIN ForkGenerators(x, count) = gens
          /\ gen \in gens => ForkGenerators(x, count)[gen] = Cardinality(made)
      BY <2>1, <2>2
    <2>5. made = {} <=> gen \notin gens
      BY <2>1, <2>3
    <2>6. IF made = {} THEN gen \notin DOMAIN ForkGenerators(x, count)
          ELSE /\ gen \in DOMAIN ForkGenerators(x, count)
               /\ ForkGenerators(x, count)[gen] = Cardinality(made)
      BY <2>4, <2>5
    <2> QED
      BY <2>6 DEF made
  <1>13. last = SubSeq(chainOf(x), 1, least(count, block(x).height))
    BY <1>1 DEF last, chain, L, H
  <1> QED
    BY <1>10, <1>12, <1>13

-----------------------------------------------------------------------------
(* Forks                                                                   *)

\* The last common block of a chain with itself is its last block.
LEMMA LcaSelf ==
    ASSUME QInv, NEW x \in Stored
    PROVE  lca(x, x) = x
  <1>1. PICK f, o \in Numbers :
              /\ Height(f) = least(block(x).height, block(x).height)
              /\ Height(o) = Height(f)
              /\ \/ Under(f, numOf[x]) /\ Under(o, numOf[x])
                 \/ Under(f, numOf[x]) /\ Under(o, numOf[x])
              /\ lca(x, x) = IF f = o THEN blocks[f].id ELSE descend(f, o)
    BY LcaLevels
  <1>2. numOf[x] \in Numbers /\ block(x).height = Height(numOf[x]) /\ blocks[numOf[x]].id = x
    BY StoredFacts DEF QInv
  <1>3. Height(f) = Height(numOf[x]) /\ Height(o) = Height(numOf[x])
    BY <1>1, <1>2 DEF least
  <1>4. Anc(numOf[x], 0) = numOf[x] /\ Height(numOf[x]) \in Nat
    BY <1>2, AncFacts DEF QInv
  <1>5. f = numOf[x] /\ o = numOf[x]
    <2>1. Height(numOf[x]) - Height(numOf[x]) = 0
      BY <1>4
    <2> QED
      BY <1>1, <1>3, <1>4, <2>1 DEF Under
  <1> QED
    BY <1>1, <1>2, <1>5

\* The chains of a selection end in stored blocks; an entry has the peers whose
\* leash is its head, and the main chain's own entry has length 0.
LEMMA EntryFacts ==
    ASSUME QInv, NEW sel, sel \subseteq DOMAIN leashes, NEW l \in leashed(sel)
    PROVE  /\ \A x \in leashed(sel) : x \in Stored
           /\ \A x \in leashed(sel), a \in sel :
                 a \in forkEntry(x, l, sel).peers <=> x = leashes[a]
           /\ \A x, y \in leashed(sel) : forkEntry(x, l, sel) = forkEntry(y, l, sel) <=> x = y
           /\ forkEntry(l, l, sel) = [longest |-> TRUE, head |-> l, peers |-> peersOn(l, sel),
                                      lcb |-> l, length |-> 0]
  <1>1. \A x \in leashed(sel) : x \in Stored
    BY DEF QInv, LeashStored, hasBlock, Stored, leashed
  <1>2. \A x \in leashed(sel) : /\ forkEntry(x, l, sel).head = x
                                /\ forkEntry(x, l, sel).peers = peersOn(x, sel)
    BY DEF forkEntry
  <1>3. \A x \in leashed(sel), a \in sel : a \in peersOn(x, sel) <=> x = leashes[a]
    BY DEF peersOn
  <1>4. forkEntry(l, l, sel) = [longest |-> TRUE, head |-> l, peers |-> peersOn(l, sel),
                                lcb |-> l, length |-> 0]
    <2>1. lca(l, l) = l
      BY <1>1, LcaSelf
    <2>2. block(l).height \in Nat
      <3>1. numOf[l] \in Numbers /\ block(l).height = Height(numOf[l])
        BY <1>1, StoredFacts DEF QInv
      <3> QED
        BY <3>1, AncFacts DEF QInv
    <2>3. block(l).height - block(l).height = 0
      BY <2>2
    <2> QED
      BY <2>1, <2>3 DEF forkEntry
  <1> QED
    BY <1>1, <1>2, <1>3, <1>4

\* The entries of the chains of a selection, compared to l.
Reply(l, sel) == {forkEntry(x, l, sel) : x \in leashed(sel)}

\* A reply of Forks that is not a panic has an entry for every chain.
LEMMA ForksReplies ==
    ASSUME NEW peers, selected(peers) # {}
    PROVE  LET sel == selected(peers)
               r(l) == IF \E x \in leashed(sel) : lca(l, x) = Panic THEN Panic
                       ELSE Reply(l, sel)
           IN  Forks(peers) = {r(l) : l \in longestOf(sel)}
  BY DEF Forks, Reply

\* Every selected peer is in exactly one entry.
LEMMA PeersOnce ==
    ASSUME QInv, NEW sel, sel \subseteq DOMAIN leashes, NEW l \in leashed(sel), NEW a \in sel
    PROVE  LET e == forkEntry(leashes[a], l, sel)
           IN  /\ leashes[a] \in leashed(sel) /\ e \in Reply(l, sel) /\ e.head = leashes[a]
               /\ a \in e.peers
               /\ \A f \in Reply(l, sel) : a \in f.peers <=> f = e
  <1>1. leashes[a] \in leashed(sel)
    BY DEF leashed
  <1>2. /\ \A x \in leashed(sel) : a \in forkEntry(x, l, sel).peers <=> x = leashes[a]
        /\ \A x, y \in leashed(sel) : forkEntry(x, l, sel) = forkEntry(y, l, sel) <=> x = y
    BY EntryFacts
  <1>3. forkEntry(leashes[a], l, sel).head = leashes[a]
    BY DEF forkEntry
  <1> QED
    BY <1>1, <1>2, <1>3 DEF Reply

\* A reply to a request for active forks is about the known peers.
LEMMA ActiveExact ==
    ASSUME QInv
    PROVE  ActiveForksSelect
  <1> SUFFICES ASSUME NEW listed \in SUBSET Addr, NEW connected \in SUBSET Addr,
                      NEW known,
                      known = {a \in connected \cap DOMAIN leashes : listed = {} \/ a \in listed},
                      known # {},
                      \A x, y \in leashed(known) : lca(x, y) # Panic,
                      NEW r \in activeForks(listed, connected)
               PROVE  UNION {f.peers : f \in r} = known
    BY DEF ActiveForksSelect
  <1> DEFINE P == {a \in connected : listed = {} \/ a \in listed}
  <1>1. P # {} /\ selected(P) = known /\ known \subseteq DOMAIN leashes
    BY DEF selected
  <1>2. r \in Forks(P)
    BY DEF activeForks
  <1> HIDE DEF P
  <1>3. PICK l \in longestOf(known) :
            r = IF \E x \in leashed(known) : lca(l, x) = Panic THEN Panic ELSE Reply(l, known)
    BY <1>1, <1>2, ForksReplies
  <1>4. l \in leashed(known)
    BY DEF longestOf
  <1>5. r = Reply(l, known)
    BY <1>3, <1>4
  <1>6. \A f \in r : f.peers \subseteq known
    BY <1>5 DEF Reply, forkEntry, peersOn
  <1>7. \A a \in known : \E f \in r : a \in f.peers
    BY <1>1, <1>4, <1>5, PeersOnce
  <1> QED
    BY <1>6, <1>7, Zenon

\* The blocks of a chain above its last common block with another one are the
\* blocks that are not on the other one, and their number is a difference of heights.
LEMMA ForkLength ==
    ASSUME QInv, NEW x \in Stored, NEW l \in Stored
    PROVE  Cardinality(onChain(x) \ onChain(l)) =
              block(x).height - block(lastCommon(l, x)).height
  <1> DEFINE n == numOf[x]
             id == lastCommon(l, x)
             c == numOf[id]
             own == onChain(x) \ onChain(l)
             d == Height(n) - Height(c)
             g == [k \in 1..d |-> blocks[Anc(n, k - 1)].id]
  <1>1. /\ n \in Numbers /\ numOf[l] \in Numbers
        /\ block(x).height = Height(n) /\ Height(n) \in Nat
    BY StoredFacts, AncFacts DEF QInv
  <1>2. /\ id \in Stored /\ Under(c, numOf[l]) /\ Under(c, n)
        /\ \A w \in onChain(l) \cap onChain(x) : Height(numOf[w]) <= Height(c)
    BY LastCommon, OnChain DEF QInv
  <1>3. c \in Numbers /\ block(id).height = Height(c) /\ Height(c) \in Nat /\ Height(c) >= 1
    BY <1>2, StoredFacts, AncFacts DEF QInv
  <1>4. d \in Nat /\ d < Height(n)
    BY <1>1, <1>2, <1>3 DEF Under
  <1> HIDE DEF c, id, n
  <1>5. ASSUME NEW k \in 1..d
        PROVE  g[k] \in own /\ Height(numOf[g[k]]) = Height(n) - (k - 1)
    <2> DEFINE m == Anc(n, k - 1)
    <2>1. k - 1 \in Nat /\ k - 1 < Height(n)
      BY <1>1, <1>4
    <2>2. m \in Numbers /\ Height(m) = Height(n) - (k - 1) /\ Under(m, n)
      BY <1>1, <2>1, AncUnder DEF QInv
    <2>3. g[k] = blocks[m].id
      OBVIOUS
    <2> HIDE DEF m, g
    <2>4. g[k] \in Stored /\ numOf[g[k]] = m
      BY <2>2, <2>3, StoredFacts DEF QInv
    <2>5. g[k] \in onChain(x)
      BY <2>2, <2>4, OnChain DEF QInv, n
    <2>6. Height(m) > Height(c)
      BY <1>1, <1>3, <2>2
    <2>7. g[k] \notin onChain(l)
      <3>1. g[k] \in onChain(l) => Height(m) <= Height(c)
        BY <1>2, <2>4, <2>5
      <3>2. Height(m) \in Nat
        BY <2>2, AncFacts DEF QInv
      <3> QED
        BY <1>3, <2>6, <3>1, <3>2
    <2> QED
      BY <2>2, <2>4, <2>5, <2>7
  <1>6. ASSUME NEW w \in own
        PROVE  \E k \in 1..d : g[k] = w
    <2> DEFINE m == numOf[w]
               k == Height(n) - Height(m) + 1
    <2>1. w \in Stored /\ Under(m, n) /\ ~Under(m, numOf[l])
      BY OnChain DEF QInv, n
    <2>2. m \in Numbers /\ blocks[m].id = w /\ Height(m) \in Nat
      BY <2>1, StoredFacts, AncFacts DEF QInv
    <2>3. Height(m) > Height(c)
      <3>1. Height(m) <= Height(c) => Under(m, c)
        BY <1>1, <1>2, <1>3, <2>1, <2>2, UnderFacts DEF QInv
      <3>2. Under(m, c) => Under(m, numOf[l])
        BY <1>1, <1>2, <1>3, <2>2, UnderFacts DEF QInv
      <3> QED
        BY <1>3, <2>1, <2>2, <3>1, <3>2
    <2>4. Height(m) <= Height(n) /\ m = Anc(n, Height(n) - Height(m))
      BY <2>1 DEF Under
    <2>5. k \in 1..d /\ k - 1 = Height(n) - Height(m)
      BY <1>1, <1>3, <2>2, <2>3, <2>4
    <2> HIDE DEF k, m
    <2>6. g[k] = w
      BY <2>2, <2>4, <2>5
    <2> QED
      BY <2>5, <2>6
  <1>7. g \in [1..d -> own]
    BY <1>5
  <1>8. ASSUME NEW i \in 1..d, NEW j \in 1..d, g[i] = g[j]
        PROVE  i = j
    <2>1. Height(n) - (i - 1) = Height(n) - (j - 1)
      BY <1>5, <1>8
    <2> QED
      BY <1>1, <1>4, <2>1
  <1> HIDE DEF g, own, d
  <1>9. g \in Bijection(1..d, own)
    BY <1>6, <1>7, <1>8 DEF Bijection, Injection, Surjection, IsInjective
  <1>10. IsFiniteSet(1..d) /\ Cardinality(1..d) = d
    BY <1>4, FS_Interval
  <1>11. Cardinality(own) = d
    BY <1>9, <1>10, FS_Bijection DEF ExistsBijection
  <1> QED
    BY <1>1, <1>3, <1>11 DEF own, d, id

\* A reply of Forks describes every chain against the main one.
LEMMA MainExact ==
    ASSUME QInv
    PROVE  ForksAgainstMain
  <1> DEFINE sel == DOMAIN leashes
             own(x, l) == Cardinality(onChain(x) \ onChain(l))
  <1> SUFFICES ASSUME NEW r \in Forks({}) \ {Panic}
               PROVE  \E main \in r :
                        /\ main.longest /\ main.length = 0 /\ main.lcb = main.head
                        /\ \A f \in r :
                              /\ f.longest => f = main
                              /\ block(f.head).score <= block(main.head).score
                              /\ f.length = own(f.head, main.head)
                        /\ \A a \in sel : \E f \in r :
                              f.head = leashes[a] /\ \A f2 \in r : a \in f2.peers <=> f2 = f
    BY DEF ForksAgainstMain
  <1>1. selected({}) = sel /\ sel # {} /\ sel \subseteq DOMAIN leashes
    <2>1. selected({}) = sel
      BY DEF selected
    <2> QED
      BY <2>1 DEF Forks
  <1>2. PICK l \in longestOf(sel) :
            /\ \A x \in leashed(sel) : lca(l, x) # Panic
            /\ r = Reply(l, sel)
    BY <1>1, ForksReplies
  <1>3. l \in leashed(sel) /\ \A y \in leashed(sel) : ~less(y, l, sel)
    BY DEF longestOf
  <1> DEFINE e(x) == forkEntry(x, l, sel)
             main == e(l)
  <1>4. r = {e(x) : x \in leashed(sel)}
    BY <1>2 DEF Reply
  <1>5. /\ \A x \in leashed(sel) : x \in Stored
        /\ \A x, y \in leashed(sel) : e(x) = e(y) <=> x = y
        /\ main = [longest |-> TRUE, head |-> l, peers |-> peersOn(l, sel),
                   lcb |-> l, length |-> 0]
    <2> HIDE DEF sel
    <2>1. \A x \in leashed(sel) : x \in Stored
      BY <1>1, <1>3, EntryFacts, Zenon
    <2>2. \A x, y \in leashed(sel) : forkEntry(x, l, sel) = forkEntry(y, l, sel) <=> x = y
      BY <1>1, <1>3, EntryFacts
    <2>3. forkEntry(l, l, sel) = [longest |-> TRUE, head |-> l, peers |-> peersOn(l, sel),
                                  lcb |-> l, length |-> 0]
      BY <1>1, <1>3, EntryFacts, Zenon
    <2> QED
      BY <2>1, <2>2, <2>3
  <1>6. ASSUME NEW x \in leashed(sel)
        PROVE  /\ e(x).head = x /\ (e(x).longest <=> x = l)
               /\ block(x).score <= block(l).score
               /\ e(x).length = own(x, l)
    <2>1. /\ e(x).head = x /\ (e(x).longest <=> x = l)
          /\ e(x).length = block(x).height - block(lca(l, x)).height
      BY DEF forkEntry
    <2>2. x \in Stored /\ l \in Stored
      BY <1>3, <1>5
    <2>3. lca(l, x) = lastCommon(l, x)
      BY <1>2, <2>2, LcaExact
    <2>4. own(x, l) = block(x).height - block(lastCommon(l, x)).height
      BY <2>2, ForkLength
    <2>5. block(x).score \in Nat /\ block(l).score \in Nat
      <3>1. numOf[x] \in Numbers /\ numOf[l] \in Numbers
        BY <2>2, StoredFacts DEF QInv
      <3> QED
        BY <3>1 DEF QInv, StoreInv, TypeOK, block
    <2>6. ~(block(x).score > block(l).score)
      BY <1>3 DEF less
    <2>7. block(x).score <= block(l).score
      BY <2>5, <2>6
    <2> HIDE DEF e, own
    <2> QED
      BY <2>1, <2>3, <2>4, <2>7
  <1>7. /\ main \in r /\ main.longest /\ main.length = 0 /\ main.lcb = main.head
        /\ main.head = l
    <2>1. main \in r
      BY <1>3, <1>4
    <2> HIDE DEF e
    <2> QED
      BY <1>5, <2>1
  <1>8. ASSUME NEW f \in r
        PROVE  /\ f.longest => f = main
               /\ block(f.head).score <= block(l).score
               /\ f.length = own(f.head, l)
    <2>1. PICK x \in leashed(sel) : f = e(x)
      BY <1>4
    <2> HIDE DEF e, own
    <2> QED
      BY <1>6, <2>1
  <1>9. ASSUME NEW a \in sel
         PROVE  \E f \in r : f.head = leashes[a] /\ \A f2 \in r : a \in f2.peers <=> f2 = f
    <2> HIDE DEF sel
    <2>1. LET f == forkEntry(leashes[a], l, sel)
          IN  /\ f \in r /\ f.head = leashes[a]
              /\ \A f2 \in r : a \in f2.peers <=> f2 = f
      BY <1>1, <1>2, <1>3, PeersOnce
    <2> QED
      BY <2>1
  <1> HIDE DEF e, own, sel
  <1>10. \A f \in r : /\ f.longest => f = main
                      /\ block(f.head).score <= block(main.head).score
                      /\ f.length = own(f.head, main.head)
    BY <1>7, <1>8
  <1> HIDE DEF main
  <1> QED
    BY <1>7, <1>9, <1>10

-----------------------------------------------------------------------------
(* The loops of LCB and Fork: a running maximum over the chains ends with  *)
(* one that no other precedes in the sort, and may end with any of them.   *)

\* The table of leashes has finitely many entries.
FiniteLeashes == IsFiniteSet(DOMAIN leashes)

Tips == leashed(DOMAIN leashes)

tips == Cardinality(Tips)

Peers(k) == Cardinality(peersOn(k, DOMAIN leashes))

\* What the loops compare are natural numbers, and every chain has a peer.
LEMMA TipFacts ==
    ASSUME QInv, FiniteLeashes
    PROVE  /\ IsFiniteSet(Tips) /\ tips \in Nat
           /\ \A k \in Tips : /\ k \in Stored /\ k \in ID /\ block(k).id = k
                              /\ block(k).score \in Nat /\ block(k).height \in Nat
                              /\ Peers(k) \in Nat /\ Peers(k) > 0
                              /\ peersOn(k, DOMAIN leashes) \subseteq Addr
  <1>1. IsFiniteSet(Tips)
    <2> DEFINE d == DOMAIN leashes
               h == [a \in d |-> leashes[a]]
    <2>1. h \in Surjection(d, Tips) /\ IsFiniteSet(d)
      BY DEF Surjection, Tips, leashed, FiniteLeashes
    <2> HIDE DEF h, d
    <2> QED
      BY <2>1, FS_Surjection
  <1>2. tips \in Nat
    BY <1>1, FS_CardinalityType DEF tips
  <1>3. ASSUME NEW k \in Tips
        PROVE  /\ k \in Stored /\ k \in ID /\ block(k).id = k
               /\ block(k).score \in Nat /\ block(k).height \in Nat
               /\ Peers(k) \in Nat /\ Peers(k) > 0
               /\ peersOn(k, DOMAIN leashes) \subseteq Addr
    <2>1. k \in Stored
      BY DEF QInv, LeashStored, hasBlock, Stored, Tips, leashed
    <2>2. numOf[k] \in Numbers /\ blocks[numOf[k]].id = k
      BY <2>1, StoredFacts DEF QInv
    <2>3. /\ block(k).id = k /\ k \in ID
          /\ block(k).score \in Nat /\ block(k).height \in Nat
      BY <2>2 DEF QInv, StoreInv, TypeOK, block
    <2> DEFINE P == peersOn(k, DOMAIN leashes)
    <2>4. P \subseteq DOMAIN leashes /\ P # {}
      BY DEF peersOn, Tips, leashed
    <2>5. DOMAIN leashes \subseteq Addr
      BY DEF QInv, StoreInv, TypeOK
    <2> HIDE DEF P
    <2>6. IsFiniteSet(P)
      BY <2>4, FS_Subset DEF FiniteLeashes
    <2>7. Cardinality(P) \in Nat /\ Cardinality(P) # 0
      BY <2>4, <2>6, FS_CardinalityType, FS_EmptySet
    <2>8. Peers(k) \in Nat /\ Peers(k) > 0
      BY <2>7 DEF Peers, P
    <2> QED
      BY <2>1, <2>3, <2>4, <2>5, <2>8 DEF P
  <1> QED
    BY <1>1, <1>2, <1>3

\* Any element of a finite set may come first.
LEMMA OrderFirst ==
    ASSUME NEW S, IsFiniteSet(S), NEW x \in S
    PROVE  \E order \in orders(S) : order[1] = x
  <1> DEFINE n == Cardinality(S)
  <1>1. n \in Nat /\ ExistsBijection(1..n, S)
    BY FS_CardinalityType
  <1> HIDE DEF n
  <1>2. PICK f \in Bijection(1..n, S) : TRUE
    BY <1>1 DEF ExistsBijection
  <1>3. /\ f \in [1..n -> S]
        /\ \A i, j \in 1..n : f[i] = f[j] => i = j
        /\ \A y \in S : \E i \in 1..n : f[i] = y
    BY DEF Bijection, Injection, Surjection, IsInjective
  <1>4. PICK q \in 1..n : f[q] = x
    BY <1>3
  <1>5. 1 \in 1..n
    BY <1>1
  <1> DEFINE o == [i \in 1..n |-> IF i = 1 THEN x ELSE IF i = q THEN f[1] ELSE f[i]]
  <1>6. o \in [1..n -> S]
    BY <1>3, <1>5
  <1>7. \A i, j \in 1..n : o[i] = o[j] => i = j
    BY <1>3, <1>4, <1>5
  <1>8. \A y \in S : \E i \in 1..n : o[i] = y
    <2> SUFFICES ASSUME NEW y \in S
                 PROVE  \E i \in 1..n : o[i] = y
      OBVIOUS
    <2>1. PICK i \in 1..n : f[i] = y
      BY <1>3
    <2>2. CASE i = q
      BY <1>4, <1>5, <2>1, <2>2
    <2>3. CASE i # q /\ i = 1
      BY <2>1, <2>3
    <2>4. CASE i # q /\ i # 1
      BY <2>1, <2>4
    <2> QED
      BY <2>2, <2>3, <2>4
  <1>9. o[1] = x
    BY <1>5
  <1> HIDE DEF o
  <1>10. o \in Bijection(1..n, S)
    BY <1>6, <1>7, <1>8 DEF Bijection, Injection, Surjection, IsInjective
  <1> QED
    BY <1>9, <1>10 DEF orders, n

\* After a number of turns: the chain held is one of those seen so far, and none
\* of them precedes it.
Scan(order, s) ==
    /\ s.i \in Nat /\ s.i <= tips
    /\ s.i = 0 => s.score = 0 /\ s.peers = 0
    /\ s.i # 0 => /\ s.longest \in Tips
                  /\ s.score = block(s.longest).score /\ s.peers = Peers(s.longest)
                  /\ \A j \in 1..s.i : ~less(order[j], s.longest, DOMAIN leashes)

\* A turn that looks at the chain k.
Takes(k, s, t) ==
    /\ t.i = s.i + 1
    /\ IF (s.score = block(k).score /\ Peers(k) > s.peers) \/ s.score < block(k).score
       THEN t.score = block(k).score /\ t.peers = Peers(k) /\ t.longest = k
       ELSE t.score = s.score /\ t.peers = s.peers /\ t.longest = s.longest

\* If the first chain is one the sort may put first, it is held from then on.
Holds(order, s) ==
    order[1] \in longestOf(DOMAIN leashes) /\ s.i # 0 => s.longest = order[1]

\* An order that visits every chain.
Visits(order) ==
    order \in [1..tips -> Tips] /\ \A y \in Tips : \E j \in 1..tips : order[j] = y

\* One turn.
LEMMA ScanStep ==
    ASSUME QInv, FiniteLeashes, NEW order, Visits(order), NEW s, NEW t,
           Scan(order, s), Holds(order, s), s.i < tips, Takes(order[s.i + 1], s, t)
    PROVE  Scan(order, t) /\ Holds(order, t)
  <1> DEFINE k == order[s.i + 1]
             i == s.i
  <1>1. /\ i \in Nat /\ tips \in Nat /\ i < tips /\ i + 1 \in 1..tips /\ k \in Tips
        /\ t.i = i + 1 /\ t.i # 0
    BY TipFacts DEF Scan, Takes, Visits
  <1>2. /\ block(k).score \in Nat /\ Peers(k) \in Nat /\ Peers(k) > 0
    BY <1>1, TipFacts
  <1>3. \A x, y \in Tips : less(x, y, DOMAIN leashes) <=>
            \/ block(x).score > block(y).score
            \/ block(x).score = block(y).score /\ Peers(x) > Peers(y)
    BY DEF less, Peers
  <1>4. \A y \in Tips : order[1] \in longestOf(DOMAIN leashes) =>
            ~less(y, order[1], DOMAIN leashes)
    BY DEF longestOf, Tips
  <1>5. CASE i = 0
    <2>1. s.score = 0 /\ s.peers = 0 /\ k = order[1]
      BY <1>5 DEF Scan
    <2>2. t.score = block(k).score /\ t.peers = Peers(k) /\ t.longest = k
      BY <1>2, <2>1 DEF Takes
    <2>3. ~less(k, k, DOMAIN leashes)
      BY <1>1, <1>2, <1>3
    <2>4. \A j \in 1..t.i : order[j] = k
      BY <1>1, <1>5, <2>1
    <2> HIDE DEF k, i
    <2> QED
      BY <1>1, <2>1, <2>2, <2>3, <2>4 DEF Scan, Holds
  <1>6. CASE i # 0
    <2> DEFINE l == s.longest
    <2>1. /\ l \in Tips /\ s.score = block(l).score /\ s.peers = Peers(l)
          /\ \A j \in 1..i : ~less(order[j], l, DOMAIN leashes)
      BY <1>6 DEF Scan
    <2>2. block(l).score \in Nat /\ Peers(l) \in Nat
      BY <2>1, TipFacts
    <2>3. \A j \in 1..i : order[j] \in Tips
      BY <1>1 DEF Visits
    <2>4. CASE less(k, l, DOMAIN leashes)
      <3>1. t.score = block(k).score /\ t.peers = Peers(k) /\ t.longest = k
        BY <1>1, <1>2, <1>3, <2>1, <2>2, <2>4 DEF Takes
      <3>2. \A j \in 1..i : ~less(order[j], k, DOMAIN leashes)
        <4> SUFFICES ASSUME NEW j \in 1..i
                     PROVE  ~less(order[j], k, DOMAIN leashes)
          OBVIOUS
        <4> DEFINE y == order[j]
        <4>1. y \in Tips /\ ~less(y, l, DOMAIN leashes)
          BY <2>1, <2>3
        <4>2. block(y).score \in Nat /\ Peers(y) \in Nat
          BY <4>1, TipFacts
        <4> HIDE DEF y, k, i, l
        <4> QED
          BY <1>1, <1>2, <1>3, <2>1, <2>2, <2>4, <4>1, <4>2 DEF y
      <3>3. ~less(k, k, DOMAIN leashes)
        BY <1>1, <1>2, <1>3
      <3>4. \A j \in 1..t.i : ~less(order[j], k, DOMAIN leashes)
        <4> SUFFICES ASSUME NEW j \in 1..t.i
                     PROVE  ~less(order[j], k, DOMAIN leashes)
          OBVIOUS
        <4>1. j \in 1..i \/ j = i + 1
          BY <1>1
        <4> QED
          BY <3>2, <3>3, <4>1
      <3>5. ~(order[1] \in longestOf(DOMAIN leashes) /\ l = order[1])
        BY <1>1, <1>4, <2>4
      <3> HIDE DEF k, i, l
      <3> QED
        BY <1>1, <1>6, <3>1, <3>4, <3>5 DEF Scan, Holds, l, i
    <2>5. CASE ~less(k, l, DOMAIN leashes)
      <3>1. t.score = s.score /\ t.peers = s.peers /\ t.longest = l
        BY <1>1, <1>2, <1>3, <2>1, <2>2, <2>5 DEF Takes
      <3>2. \A j \in 1..t.i : ~less(order[j], l, DOMAIN leashes)
        <4> SUFFICES ASSUME NEW j \in 1..t.i
                     PROVE  ~less(order[j], l, DOMAIN leashes)
          OBVIOUS
        <4>1. j \in 1..i \/ j = i + 1
          BY <1>1
        <4> QED
          BY <2>1, <2>5, <4>1
      <3> HIDE DEF k, i, l
      <3> QED
        BY <1>1, <1>6, <2>1, <3>1, <3>2 DEF Scan, Holds, l, i
    <2> QED
      BY <2>4, <2>5
  <1> QED
    BY <1>5, <1>6

\* A loop over the chains in an order, with the body `turn' on the variables in S.
Looks(order, S, zero, turn) ==
    /\ zero \in S /\ Closed(S, turn)
    /\ zero.i = 0 /\ zero.score = 0 /\ zero.peers = 0
    /\ \A s \in S : s.i \in Nat /\ s.i < tips => Takes(order[s.i + 1], s, turn[s])

\* The whole loop.
LEMMA ScanLoop ==
    ASSUME QInv, FiniteLeashes, Tips # {}, NEW order, Visits(order),
           NEW S, NEW zero, NEW turn, Looks(order, S, zero, turn)
    PROVE  LET end == Iter(turn, zero, tips)
           IN  /\ end.longest \in longestOf(DOMAIN leashes)
               /\ order[1] \in longestOf(DOMAIN leashes) => end.longest = order[1]
  <1> DEFINE it(k) == Iter(turn, zero, k)
             T == {k \in Nat : k <= tips => /\ Scan(order, it(k)) /\ it(k).i = k
                                            /\ Holds(order, it(k))}
  <1>0. tips \in Nat
    BY TipFacts
  <1>1. it(0) = zero /\ \A k \in Nat : it(k) \in S /\ it(k + 1) = turn[it(k)]
    BY IterSteps DEF Looks
  <1> HIDE DEF it
  <1>2. 0 \in T
    <2>1. zero.i = 0 /\ zero.score = 0 /\ zero.peers = 0
      BY DEF Looks
    <2> QED
      BY <1>0, <1>1, <2>1 DEF Scan, Holds
  <1>3. ASSUME NEW k \in Nat, k \in T
        PROVE  k + 1 \in T
    <2> SUFFICES ASSUME k + 1 <= tips
                 PROVE  /\ Scan(order, it(k + 1)) /\ it(k + 1).i = k + 1
                        /\ Holds(order, it(k + 1))
      OBVIOUS
    <2> DEFINE s == it(k)
               t == it(k + 1)
    <2>1. k <= tips /\ k < tips
      BY <1>0
    <2>2. Scan(order, s) /\ s.i = k /\ Holds(order, s)
      BY <1>3, <2>1
    <2>3. s \in S /\ t = turn[s]
      BY <1>1
    <2>4. Takes(order[s.i + 1], s, t)
      BY <2>1, <2>2, <2>3 DEF Looks
    <2>5. s.i < tips
      BY <2>1, <2>2
    <2> HIDE DEF s, t
    <2>6. Scan(order, t) /\ Holds(order, t)
      BY <2>2, <2>4, <2>5, ScanStep, Zenon
    <2>7. t.i = k + 1
      BY <2>2, <2>4 DEF Takes
    <2> QED
      BY <2>6, <2>7 DEF t
  <1>4. tips \in T
    <2> HIDE DEF T
    <2> QED
      BY <1>0, <1>2, <1>3, Induction
  <1> DEFINE end == it(tips)
  <1>5. Scan(order, end) /\ end.i = tips /\ Holds(order, end)
    BY <1>0, <1>4
  <1>6. tips # 0
    <2>1. PICK y \in Tips : TRUE
      OBVIOUS
    <2>2. PICK j \in 1..tips : TRUE
      BY <2>1 DEF Visits
    <2> QED
      BY <1>0, <2>2
  <1> HIDE DEF end
  <1>7. end.longest \in Tips /\ \A y \in Tips : ~less(y, end.longest, DOMAIN leashes)
    BY <1>5, <1>6 DEF Scan, Visits
  <1>8. /\ end.longest \in longestOf(DOMAIN leashes)
        /\ order[1] \in longestOf(DOMAIN leashes) => end.longest = order[1]
    BY <1>5, <1>6, <1>7 DEF longestOf, Tips, Holds
  <1> QED
    BY <1>8 DEF end, it

\* An order of the chains visits each of them.
LEMMA OrderFacts ==
    ASSUME NEW order \in orders(Tips)
    PROVE  Visits(order)
  BY DEF Visits, orders, tips, Bijection, Injection, Surjection, IsInjective

Entry(b, h, p, x, n) == [longest |-> b, head |-> h, peers |-> p, lcb |-> x, length |-> n]

OnLongest(e, b) == [e EXCEPT !.longest = b, !.length = 0]

Above(e, y, m) == [e EXCEPT !.lcb = y, !.length = @ - m]

\* Fork on the longest chain sets two fields of its entry,
LEMMA EntryOnLongest ==
    ASSUME NEW b, NEW c, NEW h, NEW p, NEW x, NEW n
    PROVE  OnLongest(Entry(b, h, p, x, n), c) = Entry(c, h, p, x, 0)
  <1> DEFINE e == Entry(b, h, p, x, n)
             e1 == Entry(c, h, p, x, n)
  <1>1. [e EXCEPT !.longest = c] = e1
    BY DEF Entry
  <1>2. [e1 EXCEPT !.length = 0] = Entry(c, h, p, x, 0)
    BY DEF Entry
  <1> HIDE DEF e, e1
  <1>3. OnLongest(e, c) = [[e EXCEPT !.longest = c] EXCEPT !.length = 0]
    BY DEF OnLongest
  <1> QED
    BY <1>1, <1>2, <1>3 DEF e

\* and on another chain two others.
LEMMA EntryAbove ==
    ASSUME NEW b, NEW h, NEW p, NEW x, NEW y, NEW n, NEW m
    PROVE  Above(Entry(b, h, p, x, n), y, m) = Entry(b, h, p, y, n - m)
  <1> DEFINE e == Entry(b, h, p, x, n)
             e1 == Entry(b, h, p, y, n)
  <1>1. [e EXCEPT !.lcb = y] = e1
    BY DEF Entry
  <1>2. [e1 EXCEPT !.length = @ - m] = Entry(b, h, p, y, n - m)
    BY DEF Entry
  <1> HIDE DEF e, e1
  <1>3. Above(e, y, m) = [[e EXCEPT !.lcb = y] EXCEPT !.length = @ - m]
    BY DEF Above
  <1> QED
    BY <1>1, <1>2, <1>3 DEF e

\* The chains that the loop of LCB may end with are those the sort may put first.
LEMMA LCBExact ==
    ASSUME QInv, FiniteLeashes, NEW a \in DOMAIN leashes
    PROVE  LCB(a) = {IF leashes[a] = l THEN leashes[a] ELSE lca(l, leashes[a]) :
                        l \in longestOf(DOMAIN leashes)}
  <1> DEFINE S == [i : Nat, score : Nat, peers : Nat, longest : ID \cup {NoID}]
             zero == [i |-> 0, score |-> 0, peers |-> 0, longest |-> NoID]
             end(order) == Iter(lcbTurn(order), zero, tips).longest
             L == longestOf(DOMAIN leashes)
             r(l) == IF leashes[a] = l THEN leashes[a] ELSE lca(l, leashes[a])
  <1>0. tips \in Nat /\ IsFiniteSet(Tips) /\ zero \in S /\ Tips # {}
    BY TipFacts DEF Tips, leashed
  <1>1. ASSUME NEW order \in orders(Tips)
        PROVE  end(order) \in L /\ (order[1] \in L => end(order) = order[1])
    <2>1. Visits(order)
      BY OrderFacts
    <2>2. ASSUME NEW s \in S, ~(s.i < tips)
          PROVE  lcbTurn(order)[s] = s
      <3>1. s.i >= tips
        BY <1>0, <2>2
      <3> QED
        BY <3>1 DEF lcbTurn, tips, Tips
    <2>3. ASSUME NEW s \in S, s.i < tips
          PROVE  /\ lcbTurn(order)[s] \in S
                 /\ Takes(order[s.i + 1], s, lcbTurn(order)[s])
      <3> DEFINE k == order[s.i + 1]
      <3>1. s.i \in Nat /\ s.i + 1 \in 1..tips /\ ~(s.i >= tips)
        BY <1>0, <2>3
      <3>2. k \in Tips
        BY <2>1, <3>1 DEF Visits
      <3>3. k \in ID /\ block(k).score \in Nat /\ Peers(k) \in Nat
        BY <3>2, TipFacts
      <3>4. lcbTurn(order)[s] =
              LET next == [s EXCEPT !.i = @ + 1]
              IN  IF s.score = block(k).score /\ Peers(k) > s.peers
                  THEN [next EXCEPT !.score = block(k).score, !.peers = Peers(k), !.longest = k]
                  ELSE IF s.score < block(k).score
                  THEN [next EXCEPT !.score = block(k).score, !.longest = k, !.peers = Peers(k)]
                  ELSE next
        BY <3>1 DEF lcbTurn, tips, Tips, Peers
      <3> DEFINE next == [s EXCEPT !.i = @ + 1]
      <3> HIDE DEF k
      <3>5. lcbTurn(order)[s] \in S
        <4>1. next \in S
          BY <3>1
        <4>2. lcbTurn(order)[s] \in
                {[next EXCEPT !.score = block(k).score, !.peers = Peers(k), !.longest = k], next}
          BY <3>4
        <4> HIDE DEF next
        <4> QED
          BY <3>3, <4>1, <4>2
      <3>6. Takes(k, s, lcbTurn(order)[s])
        BY <3>3, <3>4 DEF Takes
      <3> QED
        BY <3>5, <3>6 DEF k
    <2>4. Closed(S, lcbTurn(order))
      BY <2>2, <2>3 DEF Closed
    <2> DEFINE turn == lcbTurn(order)
    <2>5. Looks(order, S, zero, turn)
      BY <1>0, <2>3, <2>4 DEF Looks
    <2> HIDE DEF S, zero, turn
    <2>6. LET e == Iter(turn, zero, tips)
          IN  /\ e.longest \in longestOf(DOMAIN leashes)
              /\ order[1] \in longestOf(DOMAIN leashes) => e.longest = order[1]
      BY <1>0, <2>1, <2>5, ScanLoop, Zenon
    <2> QED
      BY <2>6 DEF turn
  <1>2. L \subseteq Tips
    BY DEF longestOf, Tips
  <1>3. \A l \in L : \E order \in orders(Tips) : order[1] = l
    BY <1>0, <1>2, OrderFirst
  <1>4. LCB(a) = {r(end(order)) : order \in orders(Tips)}
    BY DEF LCB, Tips, tips
  <1> HIDE DEF end, L, r
  <1>5. LCB(a) = {r(l) : l \in L}
    BY <1>1, <1>3, <1>4
  <1> QED
    BY <1>5 DEF L, r

\* So are those of Fork, and the entry that its loop builds is the one of the
\* chain the peer is on.
LEMMA ForkExact ==
    ASSUME QInv, FiniteLeashes, NEW a \in DOMAIN leashes
    PROVE  Fork(a) =
             {IF leashes[a] = l
              THEN [longest |-> TRUE, head |-> leashes[a],
                    peers |-> peersOn(leashes[a], DOMAIN leashes),
                    lcb |-> leashes[a], length |-> 0]
              ELSE IF lca(l, leashes[a]) = Panic THEN Panic
              ELSE forkEntry(leashes[a], l, DOMAIN leashes) : l \in longestOf(DOMAIN leashes)}
  <1> DEFINE x == leashes[a]
             S == [i : Nat, score : Nat, peers : Nat, longest : ID \cup {NoID},
                   fork : ForkRecord]
             noFork == [longest |-> FALSE, head |-> NoID, peers |-> {}, lcb |-> NoID,
                        length |-> 0]
             zero == [i |-> 0, score |-> 0, peers |-> 0, longest |-> NoID, fork |-> noFork]
             own == [longest |-> FALSE, head |-> x, peers |-> peersOn(x, DOMAIN leashes),
                     lcb |-> x, length |-> block(x).height]
             end(order) == Iter(forkTurn(order, a), zero, tips)
             L == longestOf(DOMAIN leashes)
             reply(s) ==
                IF s.fork.head = s.longest THEN [s.fork EXCEPT !.longest = TRUE, !.length = 0]
                ELSE LET c == lca(s.longest, s.fork.head)
                     IN  IF c = Panic THEN Panic
                         ELSE [s.fork EXCEPT !.lcb = c, !.length = @ - block(c).height]
             r(l) == IF x = l
                     THEN [longest |-> TRUE, head |-> x, peers |-> peersOn(x, DOMAIN leashes),
                           lcb |-> x, length |-> 0]
                     ELSE IF lca(l, x) = Panic THEN Panic
                     ELSE forkEntry(x, l, DOMAIN leashes)
  <1>0. /\ tips \in Nat /\ IsFiniteSet(Tips) /\ zero \in S /\ x \in Tips
        /\ zero.i = 0 /\ zero.score = 0 /\ zero.peers = 0
    BY TipFacts DEF Tips, leashed, ForkRecord
  <1>00. own \in ForkRecord
    BY <1>0, TipFacts DEF ForkRecord
  <1>1. ASSUME NEW order \in orders(Tips)
        PROVE  /\ end(order).longest \in L /\ (order[1] \in L => end(order).longest = order[1])
               /\ end(order).fork = own
    <2> DEFINE turn == forkTurn(order, a)
               e == Iter(turn, zero, tips)
    <2>1. Visits(order)
      BY OrderFacts
    <2>2. ASSUME NEW s \in S, ~(s.i < tips)
          PROVE  turn[s] = s
      <3>1. s.i >= tips
        BY <1>0, <2>2
      <3> QED
        BY <3>1 DEF forkTurn, tips, Tips
    <2>3. ASSUME NEW s \in S, s.i < tips
          PROVE  /\ turn[s] \in S
                 /\ Takes(order[s.i + 1], s, turn[s])
                 /\ turn[s].fork = IF order[s.i + 1] = x THEN own ELSE s.fork
      <3> DEFINE k == order[s.i + 1]
                 f == IF k = x THEN own ELSE s.fork
      <3>1. s.i \in Nat /\ s.i + 1 \in 1..tips /\ ~(s.i >= tips)
        BY <1>0, <2>3
      <3>2. k \in Tips
        BY <2>1, <3>1 DEF Visits
      <3>3. k \in ID /\ block(k).score \in Nat /\ Peers(k) \in Nat /\ block(k).id = k
        BY <3>2, TipFacts
      <3>4. a \in peersOn(k, DOMAIN leashes) <=> k = x
        BY DEF peersOn
      <3>5. (IF a \notin peersOn(k, DOMAIN leashes) THEN s.fork
             ELSE [longest |-> FALSE, head |-> block(k).id,
                   peers |-> peersOn(k, DOMAIN leashes), lcb |-> block(k).id,
                   length |-> block(k).height]) = f
        BY <3>3, <3>4
      <3>6. turn[s] =
              LET next == [s EXCEPT !.i = @ + 1,
                             !.fork = IF a \notin peersOn(k, DOMAIN leashes) THEN @
                                      ELSE [longest |-> FALSE, head |-> block(k).id,
                                            peers |-> peersOn(k, DOMAIN leashes),
                                            lcb |-> block(k).id, length |-> block(k).height]]
              IN  IF s.score = block(k).score /\ Peers(k) > s.peers
                  THEN [next EXCEPT !.score = block(k).score, !.peers = Peers(k), !.longest = k]
                  ELSE IF s.score < block(k).score
                  THEN [next EXCEPT !.score = block(k).score, !.longest = k, !.peers = Peers(k)]
                  ELSE next
        BY <3>1 DEF forkTurn, tips, Tips, Peers
      <3>7. turn[s] =
              LET next == [s EXCEPT !.i = @ + 1, !.fork = f]
              IN  IF s.score = block(k).score /\ Peers(k) > s.peers
                  THEN [next EXCEPT !.score = block(k).score, !.peers = Peers(k), !.longest = k]
                  ELSE IF s.score < block(k).score
                  THEN [next EXCEPT !.score = block(k).score, !.longest = k, !.peers = Peers(k)]
                  ELSE next
        <4> HIDE DEF f, k, turn
        <4> QED
          BY <3>5, <3>6
      <3>8. f \in ForkRecord
        BY <1>00
      <3> DEFINE next == [s EXCEPT !.i = @ + 1, !.fork = f]
      <3> HIDE DEF k, f, turn
      <3>9. turn[s] \in S
        <4> DEFINE later == [s EXCEPT !.i = @ + 1]
        <4>0. later \in S /\ next = [later EXCEPT !.fork = f]
          BY <3>1
        <4>1. next \in S
          <5> HIDE DEF later, next
          <5> QED
            BY <3>8, <4>0
        <4>2. turn[s] \in
                {[next EXCEPT !.score = block(k).score, !.peers = Peers(k), !.longest = k], next}
          BY <3>7
        <4> HIDE DEF next
        <4> QED
          BY <3>3, <4>1, <4>2
      <3>10. Takes(k, s, turn[s]) /\ turn[s].fork = f
        BY <3>3, <3>7 DEF Takes
      <3> QED
        BY <3>9, <3>10 DEF k, f
    <2>4. Closed(S, turn)
      BY <2>2, <2>3 DEF Closed
    <2>5. Looks(order, S, zero, turn)
      BY <1>0, <2>3, <2>4 DEF Looks
    <2>6. Tips # {}
      BY <1>0
    <2>7. /\ e.longest \in longestOf(DOMAIN leashes)
          /\ order[1] \in longestOf(DOMAIN leashes) => e.longest = order[1]
      <3> HIDE DEF S, zero, turn
      <3> QED
        BY <2>1, <2>5, <2>6, ScanLoop, Zenon
    <2>8. e.fork = own
      <3> DEFINE it(k) == Iter(turn, zero, k)
                 T == {k \in Nat : k <= tips =>
                          /\ it(k).i = k
                          /\ \A j \in 1..k : order[j] = x => it(k).fork = own}
      <3> HIDE DEF S, zero, turn, own, x
      <3>1. it(0) = zero /\ \A k \in Nat : it(k) \in S /\ it(k + 1) = turn[it(k)]
        BY <1>0, <2>4, IterSteps
      <3> HIDE DEF it
      <3>2. 0 \in T
        BY <1>0, <3>1
      <3>3. ASSUME NEW k \in Nat, k \in T
            PROVE  k + 1 \in T
        <4> SUFFICES ASSUME k + 1 <= tips
                     PROVE  /\ it(k + 1).i = k + 1
                            /\ \A j \in 1..(k + 1) : order[j] = x => it(k + 1).fork = own
          OBVIOUS
        <4>1. k < tips /\ k <= tips
          BY <1>0
        <4>2. it(k).i = k /\ \A j \in 1..k : order[j] = x => it(k).fork = own
          BY <3>3, <4>1
        <4>3. /\ it(k) \in S /\ Takes(order[k + 1], it(k), it(k + 1))
              /\ it(k + 1).fork = IF order[k + 1] = x THEN own ELSE it(k).fork
          BY <2>3, <3>1, <4>1, <4>2
        <4>4. it(k + 1).i = k + 1
          BY <4>2, <4>3 DEF Takes
        <4>5. ASSUME NEW j \in 1..(k + 1), order[j] = x
              PROVE  it(k + 1).fork = own
          <5>1. j \in 1..k \/ j = k + 1
            OBVIOUS
          <5> QED
            BY <4>2, <4>3, <4>5, <5>1
        <4> QED
          BY <4>4, <4>5
      <3>4. tips \in T
        <4> HIDE DEF T
        <4> QED
          BY <1>0, <3>2, <3>3, Induction
      <3>5. PICK j \in 1..tips : order[j] = x
        BY <1>0, <2>1 DEF Visits
      <3>6. it(tips).fork = own
        BY <1>0, <3>4, <3>5
      <3> QED
        BY <3>6 DEF it
    <2> HIDE DEF S, zero, own, x
    <2> QED
      BY <2>7, <2>8 DEF e, turn
  <1>2. L \subseteq Tips
    BY DEF longestOf, Tips
  <1>3. \A l \in L : \E order \in orders(Tips) : order[1] = l
    BY <1>0, <1>2, OrderFirst
  <1>4. Fork(a) = {reply(end(order)) : order \in orders(Tips)}
    BY DEF Fork, Tips, tips
  <1>5. ASSUME NEW s, NEW l, s.longest = l, s.fork = own
        PROVE  reply(s) = r(l)
    <2>1. s.fork.head = x
      BY <1>5
    <2> DEFINE P == peersOn(x, DOMAIN leashes)
               h == block(x).height
               yes == TRUE
               no == FALSE
    <2>2. own = Entry(no, x, P, x, h)
      BY DEF Entry
    <2>3. CASE x = l
      <3>1. reply(s) = OnLongest(own, yes) /\ r(l) = Entry(yes, x, P, x, 0)
        BY <1>5, <2>3 DEF OnLongest, Entry
      <3> HIDE DEF x, own, reply, r, P, h, yes, no
      <3>2. OnLongest(Entry(no, x, P, x, h), yes) = Entry(yes, x, P, x, 0)
        BY EntryOnLongest
      <3> QED
        BY <2>2, <3>1, <3>2, Zenon
    <2>4. CASE x # l
      <3> DEFINE c == lca(l, x)
                 m == block(c).height
      <3>1. reply(s) = IF c = Panic THEN Panic ELSE Above(own, c, m)
        BY <1>5, <2>1, <2>4 DEF Above
      <3>2. (x = l) = no
        BY <2>4, Zenon
      <3>3. forkEntry(x, l, DOMAIN leashes) = Entry(no, x, P, c, h - m)
        BY <3>2, Zenon DEF forkEntry, Entry
      <3>4. r(l) = IF c = Panic THEN Panic ELSE forkEntry(x, l, DOMAIN leashes)
        BY <2>4
      <3> HIDE DEF x, own, reply, r, P, h, yes, no, c, m
      <3> QED
        BY <2>2, <3>1, <3>3, <3>4, EntryAbove
    <2> QED
      BY <2>3, <2>4
  <1> HIDE DEF end, L, r, reply, own
  <1>6. \A order \in orders(Tips) : reply(end(order)) = r(end(order).longest)
    BY <1>1, <1>5
  <1>7. Fork(a) = {r(l) : l \in L}
    BY <1>1, <1>3, <1>4, <1>6
  <1> QED
    BY <1>7 DEF L, r

\* LCB, Fork and Forks say the same of a peer.
LEMMA ViewsExact ==
    ASSUME QInv, FiniteLeashes
    PROVE  ViewsAgree
  <1> SUFFICES ASSUME NEW a \in DOMAIN leashes, Panic \notin Forks({})
               PROVE  /\ Fork(a) = {CHOOSE f \in r : a \in f.peers : r \in Forks({})}
                      /\ LCB(a) = {f.lcb : f \in Fork(a)}
    BY DEF ViewsAgree
  <1> DEFINE sel == DOMAIN leashes
             x == leashes[a]
             e(l) == forkEntry(x, l, sel)
  <1>1. selected({}) = sel /\ sel # {} /\ x \in leashed(sel)
    BY DEF selected, leashed
  <1>2. \A l \in longestOf(sel) : l \in leashed(sel)
    BY DEF longestOf
  <1>3. \A l \in longestOf(sel) : ~(\E y \in leashed(sel) : lca(l, y) = Panic)
    BY <1>1, ForksReplies
  <1>4. Forks({}) = {Reply(l, sel) : l \in longestOf(sel)}
    BY <1>1, <1>3, ForksReplies
  <1>5. \A l \in longestOf(sel) : (CHOOSE f \in Reply(l, sel) : a \in f.peers) = e(l)
    <2> SUFFICES ASSUME NEW l \in longestOf(sel)
                 PROVE  (CHOOSE f \in Reply(l, sel) : a \in f.peers) = e(l)
      OBVIOUS
    <2>1. /\ e(l) \in Reply(l, sel)
          /\ \A f \in Reply(l, sel) : a \in f.peers <=> f = e(l)
      BY <1>2, PeersOnce
    <2> HIDE DEF e
    <2> QED
      BY <2>1
  <1>6. {CHOOSE f \in r : a \in f.peers : r \in Forks({})} = {e(l) : l \in longestOf(sel)}
    <2> DEFINE pick(r) == CHOOSE f \in r : a \in f.peers
               ls == longestOf(sel)
    <2>1. \A l \in ls : pick(Reply(l, sel)) = e(l)
      BY <1>5
    <2>2. Forks({}) = {Reply(l, sel) : l \in ls}
      BY <1>4
    <2> HIDE DEF e, sel, pick, ls
    <2>3. {pick(r) : r \in Forks({})} = {e(l) : l \in ls}
      BY <2>1, <2>2
    <2> QED
      BY <2>3 DEF pick, ls
  <1>7. \A l \in longestOf(sel) : x = l => e(l) =
            [longest |-> TRUE, head |-> x, peers |-> peersOn(x, sel), lcb |-> x, length |-> 0]
    <2>0. sel \subseteq DOMAIN leashes
      OBVIOUS
    <2> HIDE DEF sel, x, e
    <2>1. forkEntry(x, x, sel) =
            [longest |-> TRUE, head |-> x, peers |-> peersOn(x, sel), lcb |-> x, length |-> 0]
      BY <1>1, <2>0, EntryFacts, Zenon
    <2> QED
      BY <2>1 DEF e
  <1>8. Fork(a) = {e(l) : l \in longestOf(sel)}
    <2>1. Fork(a) =
            {IF x = l THEN [longest |-> TRUE, head |-> x, peers |-> peersOn(x, sel),
                            lcb |-> x, length |-> 0]
             ELSE IF lca(l, x) = Panic THEN Panic
             ELSE e(l) : l \in longestOf(sel)}
      BY ForkExact
    <2>2. \A l \in longestOf(sel) : lca(l, x) # Panic
      BY <1>1, <1>3
    <2> HIDE DEF e, sel, x
    <2> QED
      BY <1>7, <2>1, <2>2
  <1>9. \A l \in longestOf(sel) : e(l).lcb = IF x = l THEN x ELSE lca(l, x)
    <2>1. \A l \in longestOf(sel) : e(l).lcb = lca(l, x)
      BY DEF forkEntry
    <2>2. x \in Stored
      BY <1>1, EntryFacts
    <2>3. lca(x, x) = x
      BY <2>2, LcaSelf
    <2> QED
      BY <2>1, <2>3
  <1>10. LCB(a) = {IF x = l THEN x ELSE lca(l, x) : l \in longestOf(sel)}
    BY LCBExact
  <1>11. LCB(a) = {f.lcb : f \in Fork(a)}
    <2> HIDE DEF e, sel, x
    <2> QED
      BY <1>8, <1>9, <1>10
  <1> QED
    BY <1>6, <1>8, <1>11

\* An action adds at most one entry to the table of leashes.
LEMMA LeashesFinite ==
    ASSUME FiniteLeashes, [Next]_vars
    PROVE  FiniteLeashes'
  <1>1. ASSUME NEW addr, NEW id, updateLeash(addr, id)
        PROVE  FiniteLeashes'
    <2>1. DOMAIN leashes' = DOMAIN leashes \cup {addr}
      BY <1>1 DEF updateLeash, Put
    <2> QED
      BY <2>1, FS_AddElement DEF FiniteLeashes
  <1>2. ASSUME leashes' = leashes
        PROVE  FiniteLeashes'
    BY <1>2 DEF FiniteLeashes
  <1>3. CASE NewLinkage
    BY <1>2, <1>3 DEF NewLinkage
  <1>4. ASSUME NEW b \in Blocks, NEW addr \in Addr, PutBlock(b, addr)
        PROVE  FiniteLeashes'
    BY <1>1, <1>2, <1>4 DEF PutBlock, PutKnownBlock, vars
  <1>5. ASSUME NEW inv \in MicroInvs, NEW addr \in Addr, PutMicroBlock(inv, addr)
        PROVE  FiniteLeashes'
    BY <1>1, <1>2, <1>5 DEF PutMicroBlock, PutKnownBlock, vars
  <1>6. CASE FinishPut
    BY <1>1, <1>6 DEF FinishPut
  <1>7. CASE FailPut
    BY <1>2, <1>7 DEF FailPut
  <1>8. ASSUME NEW id \in ID, NEW addr \in Addr, MoveLeash(id, addr)
        PROVE  FiniteLeashes'
    BY <1>1, <1>2, <1>8 DEF MoveLeash, PutKnownBlock, vars
  <1>9. CASE Crash
    BY <1>2, <1>9 DEF Crash
  <1>10. CASE UNCHANGED vars
    BY <1>2, <1>10 DEF vars
  <1> QED
    BY <1>3, <1>4, <1>5, <1>6, <1>7, <1>8, <1>9, <1>10 DEF Next

-----------------------------------------------------------------------------
(* Theorems                                                                *)

\* The tables the queries read are consistent in every reachable state, also
\* while a PutBlock is half done.
THEOREM QInvariance == Spec => []QInv
  <1>1. IInv /\ SkipInv => QInv
    BY DEF IInv, QInv
  <1> QED
    BY <1>1, Invariance, SkipInvariance, PTL

\* lca finds the last common block of any two chains, however high, or panics.
THEOREM LcaIsCorrect == Spec => []LcaCorrect
  <1>1. QInv => LcaCorrect
    BY LcaExact DEF LcaCorrect
  <1> QED
    BY <1>1, QInvariance, PTL

\* lca returns on every fork that begins above a third of the height.
THEOREM LcaDoesReturn == Spec => []LcaReturns
  <1>1. QInv => LcaReturns
    BY LcaPanics DEF LcaReturns
  <1> QED
    BY <1>1, QInvariance, PTL

\* LastIDs and ForkGenerators see the last `count' blocks of the chain, for every
\* count and height.
THEOREM WalksFollow == Spec => []WalksFollowChain
  BY WalksExact, QInvariance, PTL

\* The table of leashes stays finite, whatever the number of addresses.
THEOREM LeashesStayFinite == Spec => []FiniteLeashes
  <1>1. Init => FiniteLeashes
    BY FS_EmptySet DEF Init, FiniteLeashes, Empty
  <1>2. FiniteLeashes /\ [Next]_vars => FiniteLeashes'
    BY LeashesFinite
  <1> QED
    BY <1>1, <1>2, PTL DEF Spec

\* Forks describes every chain against the one with the highest score: the length
\* of a fork is the number of its blocks that are not on the main chain.
THEOREM ForksDescribed == Spec => []ForksAgainstMain
  BY MainExact, QInvariance, PTL

\* LCB, Fork and Forks agree unless lca panics.
THEOREM ViewsDoAgree == Spec => []ViewsAgree
  BY ViewsExact, QInvariance, LeashesStayFinite, PTL

\* A reply about active forks covers the selected peers and no other.
THEOREM ActiveForksSelected == Spec => []ActiveForksSelect
  BY ActiveExact, QInvariance, PTL
=============================================================================
