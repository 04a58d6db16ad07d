--------------------------- MODULE NaturalNumbers ---------------------------
(***************************************************************************)
(* Induction over the natural numbers, as facts about sets and functions   *)
(* that the provers can instantiate: a set of numbers has a least element, *)
(* and a function on a set can be iterated.  The proofs about the loops of *)
(* the code rest on them.                                                  *)
(***************************************************************************)
EXTENDS Integers, Loops, WellFoundedInduction, TLAPS

\* A set of natural numbers that is not empty has a least element.
LEMMA LeastNatural ==
    ASSUME NEW T \in SUBSET Nat, T # {}
    PROVE  \E x \in T : \A y \in T : x <= y
  <1>1. PICK x \in T : \A y \in T : ~(<<y, x>> \in OpToRel(<, Nat))
    BY WFMin, NatLessThanWellFounded
  <1>2. ASSUME NEW y \in T
        PROVE  ~(y < x)
    <2>1. <<y, x>> \in Nat \X Nat /\ <<y, x>>[1] = y /\ <<y, x>>[2] = x
      OBVIOUS
    <2>2. y < x => <<y, x>> \in {ss \in Nat \X Nat : ss[1] < ss[2]}
      BY <2>1
    <2> QED
      BY <1>1, <2>2, Zenon DEF OpToRel
  <1> QED
    BY <1>2

\* Induction: a set of natural numbers with 0 and with the successors of its
\* members has all of them.
LEMMA Induction ==
    ASSUME NEW T, 0 \in T, \A k \in Nat : k \in T => k + 1 \in T
    PROVE  \A k \in Nat : k \in T
  <1> DEFINE U == {k \in Nat : k \notin T}
  <1> SUFFICES ASSUME U # {}
               PROVE  FALSE
    OBVIOUS
  <1>1. PICK u \in U : \A k \in U : u <= k
    BY LeastNatural
  <1>2. u \in Nat /\ u # 0 /\ u \notin T
    BY <1>1
  <1>3. u - 1 \in Nat /\ u - 1 \notin U
    BY <1>1, <1>2
  <1> QED
    BY <1>2, <1>3

\* The first k iterations of a function, as a function on 0..k.
Iterates(nx, x, k, g) ==
    /\ DOMAIN g = 0..k
    /\ g[0] = x
    /\ \A i \in 0..(k - 1) : g[i + 1] = nx[g[i]]

\* A function can be iterated any number of times.
LEMMA IteratesExist ==
    ASSUME NEW nx, NEW x, NEW k \in Nat
    PROVE  \E g : Iterates(nx, x, k, g)
  <1> DEFINE T == {j \in Nat : \E g : Iterates(nx, x, j, g)}
  <1>1. 0 \in T
    <2>1. Iterates(nx, x, 0, [i \in 0..0 |-> x])
      BY DEF Iterates
    <2> QED
      BY <2>1
  <1>2. ASSUME NEW j \in Nat, j \in T
        PROVE  j + 1 \in T
    <2>1. PICK g : Iterates(nx, x, j, g)
      BY <1>2
    <2> DEFINE h == [i \in 0..(j + 1) |-> IF i = j + 1 THEN nx[g[j]] ELSE g[i]]
    <2>2. DOMAIN h = 0..(j + 1) /\ h[0] = x
      BY <2>1 DEF Iterates
    <2>3. ASSUME NEW i \in 0..j
          PROVE  h[i + 1] = nx[h[i]]
      <3>1. CASE i = j
        BY <3>1
      <3>2. CASE i # j
        <4>1. i \in 0..(j - 1) /\ i + 1 \in 0..(j + 1) /\ i + 1 # j + 1 /\ i # j + 1
          BY <3>2
        <4>2. h[i + 1] = g[i + 1] /\ h[i] = g[i]
          BY <4>1
        <4> QED
          BY <2>1, <4>1, <4>2 DEF Iterates
      <3> QED
        BY <3>1, <3>2
    <2>4. Iterates(nx, x, j + 1, h)
      <3> HIDE DEF h
      <3> QED
        BY <2>2, <2>3 DEF Iterates
    <2> QED
      BY <2>4
  <1> HIDE DEF T
  <1>3. k \in T
    BY <1>1, <1>2, Induction
  <1> QED
    BY <1>3 DEF T

\* Its iterations are determined.
LEMMA IteratesAgree ==
    ASSUME NEW nx, NEW x, NEW k \in Nat, NEW m \in Nat, NEW g, NEW h,
           Iterates(nx, x, k, g), Iterates(nx, x, m, h), NEW i \in Nat, i <= k, i <= m
    PROVE  g[i] = h[i]
  <1> DEFINE T == {j \in Nat : j <= k /\ j <= m => g[j] = h[j]}
  <1>1. 0 \in T
    BY DEF Iterates
  <1>2. ASSUME NEW j \in Nat, j \in T
        PROVE  j + 1 \in T
    <2> SUFFICES ASSUME j + 1 <= k, j + 1 <= m
                 PROVE  g[j + 1] = h[j + 1]
      OBVIOUS
    <2>1. j \in 0..(k - 1) /\ j \in 0..(m - 1) /\ g[j] = h[j]
      BY <1>2
    <2> QED
      BY <2>1 DEF Iterates
  <1> HIDE DEF T
  <1>3. i \in T
    BY <1>1, <1>2, Induction
  <1> QED
    BY <1>3 DEF T

\* f is the sequence of all iterations of the function nx on the set S, from x.
Iterated(f, S, x, nx) ==
    /\ f \in [Nat -> S]
    /\ f[0] = x
    /\ \A k \in Nat : f[k + 1] = nx[f[k]]

\* Every function from a set to itself has such a sequence.
LEMMA Iteration ==
    ASSUME NEW S, NEW x \in S, NEW nx \in [S -> S]
    PROVE  \E f : Iterated(f, S, x, nx)
  <1> DEFINE it(k) == CHOOSE g : Iterates(nx, x, k, g)
             f == [k \in Nat |-> it(k)[k]]
  <1>1. ASSUME NEW k \in Nat
        PROVE  Iterates(nx, x, k, it(k))
    BY IteratesExist
  <1> HIDE DEF it
  <1>2. f[0] = x
    BY <1>1 DEF Iterates
  <1>3. ASSUME NEW k \in Nat
        PROVE  f[k + 1] = nx[f[k]]
    <2>1. it(k + 1)[k] = it(k)[k]
      <3>1. k + 1 \in Nat /\ k <= k /\ k <= k + 1
        OBVIOUS
      <3>2. Iterates(nx, x, k, it(k)) /\ Iterates(nx, x, k + 1, it(k + 1))
        BY <1>1, <3>1
      <3> QED
        BY <3>1, <3>2, IteratesAgree
    <2>2. k \in 0..(k + 1 - 1) /\ k + 1 \in Nat
      OBVIOUS
    <2>3. it(k + 1)[k + 1] = nx[it(k + 1)[k]]
      BY <1>1, <2>2 DEF Iterates
    <2> QED
      BY <2>1, <2>2, <2>3
  <1> DEFINE T == {k \in Nat : f[k] \in S}
  <1>4. 0 \in T
    BY <1>2
  <1>5. \A k \in Nat : k \in T => k + 1 \in T
    <2> HIDE DEF f
    <2> QED
      BY <1>3
  <1>6. \A k \in Nat : f[k] \in S
    <2>1. \A k \in Nat : k \in T
      <3> HIDE DEF T
      <3> QED
        BY <1>4, <1>5, Induction
    <2> QED
      BY <2>1
  <1>7. f \in [Nat -> S]
    BY <1>6
  <1> HIDE DEF f
  <1> QED
    BY <1>2, <1>3, <1>7 DEF Iterated

\* The same when a step may depend on how many came before it.
Counted(f, S, x, nx) ==
    /\ f \in [Nat -> S]
    /\ f[0] = x
    /\ \A k \in Nat : f[k + 1] = nx[<<k, f[k]>>]

\* A loop with a counter has a sequence of values too.
LEMMA Recursion ==
    ASSUME NEW S, NEW x \in S, NEW nx \in [Nat \X S -> S]
    PROVE  \E f : Counted(f, S, x, nx)
  <1> DEFINE P == Nat \X S
             np == [s \in P |-> <<s[1] + 1, nx[s]>>]
             x0 == <<0, x>>
  <1>1. np \in [P -> P] /\ x0 \in P
    OBVIOUS
  <1>2. PICK g : Iterated(g, P, x0, np)
    <2> HIDE DEF P, np, x0
    <2> QED
      BY <1>1, Iteration
  <1>3. \A k \in Nat : g[k] \in Nat \X S /\ g[k + 1] = <<g[k][1] + 1, nx[g[k]]>>
    BY <1>2 DEF Iterated
  <1> DEFINE T == {k \in Nat : g[k][1] = k}
  <1>4. \A k \in Nat : k \in T
    <2>1. 0 \in T
      BY <1>2 DEF Iterated
    <2>2. \A k \in Nat : k \in T => k + 1 \in T
      BY <1>3
    <2> HIDE DEF T
    <2> QED
      BY <2>1, <2>2, Induction
  <1> DEFINE f == [k \in Nat |-> g[k][2]]
  <1>5. f \in [Nat -> S] /\ f[0] = x
    BY <1>2, <1>3 DEF Iterated
  <1>6. ASSUME NEW k \in Nat
        PROVE  f[k + 1] = nx[<<k, f[k]>>]
    <2>1. g[k] = <<g[k][1], g[k][2]>>
      BY <1>3
    <2>2. g[k] = <<k, f[k]>>
      BY <1>4, <2>1
    <2>3. g[k + 1][2] = nx[g[k]] /\ f[k + 1] = g[k + 1][2]
      BY <1>3
    <2> HIDE DEF f
    <2> QED
      BY <2>2, <2>3
  <1> HIDE DEF f
  <1> QED
    BY <1>5, <1>6 DEF Counted

-----------------------------------------------------------------------------
(* Iter, the loops of the modules                                          *)

\* A body that maps the set S to itself.
Closed(S, nx) == \A s \in S : nx[s] \in S

\* A loop with such a body is well defined on S.
LEMMA IterSteps ==
    ASSUME NEW S, NEW x \in S, NEW nx, Closed(S, nx)
    PROVE  /\ Iter(nx, x, 0) = x
           /\ \A k \in Nat : Iter(nx, x, k) \in S
           /\ \A k \in Nat : Iter(nx, x, k + 1) = nx[Iter(nx, x, k)]
  <1> DEFINE Eq(it) == it = [j \in Nat |-> IF j = 0 THEN x ELSE nx[it[j - 1]]]
             c == CHOOSE it : Eq(it)
             ns == [s \in S |-> nx[s]]
  <1>0. PICK f : Iterated(f, S, x, ns)
    <2>1. ns \in [S -> S]
      BY DEF Closed
    <2> HIDE DEF ns
    <2> QED
      BY <2>1, Iteration
  <1>1. f \in [Nat -> S] /\ f[0] = x /\ \A k \in Nat : f[k + 1] = nx[f[k]]
    BY <1>0 DEF Iterated
  <1>2. Eq(f)
    <2>1. \A j \in Nat : f[j] = IF j = 0 THEN x ELSE nx[f[j - 1]]
      <3> SUFFICES ASSUME NEW j \in Nat
                   PROVE  f[j] = IF j = 0 THEN x ELSE nx[f[j - 1]]
        OBVIOUS
      <3>1. CASE j = 0
        BY <1>1, <3>1
      <3>2. CASE j # 0
        <4>1. j - 1 \in Nat /\ (j - 1) + 1 = j
          BY <3>2
        <4> QED
          BY <1>1, <3>2, <4>1
      <3> QED
        BY <3>1, <3>2
    <2>2. f = [j \in Nat |-> f[j]]
      BY <1>1
    <2> QED
      BY <2>1, <2>2
  <1>3. Eq(c)
    BY <1>2
  <1>4. \A k : Iter(nx, x, k) = c[k]
    BY DEF Iter
  <1> HIDE DEF c
  <1>5. c[0] = x
    BY <1>3
  <1>6. \A k \in Nat : c[k + 1] = nx[c[k]]
    <2> SUFFICES ASSUME NEW k \in Nat
                 PROVE  c[k + 1] = nx[c[k]]
      OBVIOUS
    <2>1. k + 1 \in Nat /\ k + 1 # 0 /\ (k + 1) - 1 = k
      OBVIOUS
    <2> QED
      BY <1>3, <2>1
  <1> DEFINE T == {k \in Nat : c[k] \in S}
  <1>7. \A k \in Nat : k \in T
    <2>1. 0 \in T
      BY <1>5
    <2>2. \A k \in Nat : k \in T => k + 1 \in T
      BY <1>6 DEF Closed
    <2> HIDE DEF T
    <2> QED
      BY <2>1, <2>2, Induction
  <1> QED
    BY <1>4, <1>5, <1>6, <1>7

\* i + j iterations are i iterations and then j.
LEMMA IterSum ==
    ASSUME NEW S, NEW x \in S, NEW nx, Closed(S, nx),
           NEW i \in Nat, NEW j \in Nat
    PROVE  Iter(nx, x, i + j) = Iter(nx, Iter(nx, x, i), j)
  <1> DEFINE y == Iter(nx, x, i)
             T == {k \in Nat : Iter(nx, x, i + k) = Iter(nx, y, k)}
  <1>1. y \in S /\ \A k \in Nat : Iter(nx, x, k + 1) = nx[Iter(nx, x, k)]
    BY IterSteps
  <1>2. Iter(nx, y, 0) = y /\ \A k \in Nat : Iter(nx, y, k + 1) = nx[Iter(nx, y, k)]
    <2> HIDE DEF y
    <2> QED
      BY <1>1, IterSteps
  <1>3. 0 \in T
    BY <1>2
  <1>4. ASSUME NEW k \in Nat, k \in T
        PROVE  k + 1 \in T
    <2>1. i + k \in Nat /\ i + (k + 1) = (i + k) + 1
      OBVIOUS
    <2>2. Iter(nx, x, i + (k + 1)) = nx[Iter(nx, x, i + k)]
      BY <1>1, <2>1
    <2> QED
      BY <1>2, <1>4, <2>2
  <1>5. j \in T
    <2> HIDE DEF T
    <2> QED
      BY <1>3, <1>4, Induction
  <1> QED
    BY <1>5

\* Two functions that agree on a set they map to itself agree on all iterations.
LEMMA IterAgree ==
    ASSUME NEW S, NEW x \in S, NEW nx, Closed(S, nx),
           NEW ny, \A s \in S : ny[s] = nx[s], NEW k \in Nat
    PROVE  Iter(ny, x, k) = Iter(nx, x, k)
  <1> DEFINE T == {j \in Nat : Iter(ny, x, j) = Iter(nx, x, j)}
  <1>1. /\ Iter(nx, x, 0) = x
        /\ \A j \in Nat : Iter(nx, x, j) \in S
        /\ \A j \in Nat : Iter(nx, x, j + 1) = nx[Iter(nx, x, j)]
    BY IterSteps
  <1>2. /\ Iter(ny, x, 0) = x
        /\ \A j \in Nat : Iter(ny, x, j + 1) = ny[Iter(ny, x, j)]
    <2>1. Closed(S, ny)
      BY DEF Closed
    <2> QED
      BY <2>1, IterSteps
  <1>3. 0 \in T
    BY <1>1, <1>2
  <1>4. \A j \in Nat : j \in T => j + 1 \in T
    BY <1>1, <1>2 DEF Closed
  <1>5. k \in T
    <2> HIDE DEF T
    <2> QED
      BY <1>3, <1>4, Induction
  <1> QED
    BY <1>5
=============================================================================
