---------------------------- MODULE ReturnsProofs ----------------------------
(***************************************************************************)
(* No unit of an order is returned twice and no money is given back twice, *)
(* for every order, however its returns and refunds interleave.            *)
(*                                                                         *)
(* The induction over finite sets that the facts about sums need is made   *)
(* with a smallest counterexample: among the subsets where a fact fails    *)
(* one has no smaller one where it fails, and taking an element away from  *)
(* it shows that it holds there too.                                       *)
(***************************************************************************)
EXTENDS Returns, FiniteSetsExt, FiniteSetTheorems, TLAPS

-----------------------------------------------------------------------------
(* Sums of a function over a finite set: SumFunctionOnSet of the community modules *)

\* The element a sum takes first.
Pick(s) == CHOOSE x \in s : TRUE

\* g adds f up over every subset of S, one element at a time.
AddsUp(g, f, S) == g = [s \in SUBSET S |-> IF s = {} THEN 0 ELSE f[Pick(s)] + g[s \ {Pick(s)}]]

\* Among subsets of a finite set one has none of the others below it.
LEMMA SmallestSubset ==
    ASSUME NEW S, IsFiniteSet(S), NEW B \in SUBSET SUBSET S, B # {}
    PROVE  \E A \in B : \A C \in SUBSET A : C # A => C \notin B
<1>1. IsWellFoundedOn(StrictSubsetOrdering(S), SUBSET S)
  BY FS_StrictSubsetOrderingWellFounded, FS_FiniteSubsetsOfFinite
<1>2. PICK A \in B : \A C \in B : ~(<<C, A>> \in StrictSubsetOrdering(S))
  BY <1>1, WFMin
<1>3. ASSUME NEW C \in SUBSET A, C # A, C \in B
      PROVE  FALSE
  <2>1. <<C, A>> \in StrictSubsetOrdering(S)
    BY <1>3 DEF StrictSubsetOrdering
  <2> QED
    BY <1>2, <1>3, <2>1
<1> QED
  BY <1>3

\* What is left after the element that is picked is smaller.
LEMMA PickRest ==
    ASSUME NEW s, s # {}
    PROVE  Pick(s) \in s /\ s \ {Pick(s)} \in SUBSET s /\ s \ {Pick(s)} # s
BY DEF Pick

\* Two ways of adding up agree on what both add up.
LEMMA AddsUpOnce ==
    ASSUME NEW S, NEW T, IsFiniteSet(S), NEW f, NEW g, NEW h,
           AddsUp(g, f, S), AddsUp(h, f, T), NEW s \in SUBSET S, s \in SUBSET T
    PROVE  g[s] = h[s]
<1> DEFINE B == {A \in SUBSET S : A \in SUBSET T /\ g[A] # h[A]}
<1>1. ASSUME B # {}
      PROVE  FALSE
  <2>1. PICK A \in B : \A C \in SUBSET A : C # A => C \notin B
    <3>1. B \in SUBSET SUBSET S
      OBVIOUS
    <3> HIDE DEF B
    <3> QED
      BY <1>1, <3>1, SmallestSubset
  <2>2. A \in SUBSET S /\ A \in SUBSET T /\ g[A] # h[A]
    BY <2>1
  <2>3. g[A] = IF A = {} THEN 0 ELSE f[Pick(A)] + g[A \ {Pick(A)}]
    BY <2>2 DEF AddsUp
  <2>4. h[A] = IF A = {} THEN 0 ELSE f[Pick(A)] + h[A \ {Pick(A)}]
    BY <2>2 DEF AddsUp
  <2>5. A # {}
    BY <2>2, <2>3, <2>4
  <2>6. g[A \ {Pick(A)}] = h[A \ {Pick(A)}]
    <3>1. A \ {Pick(A)} \in SUBSET A /\ A \ {Pick(A)} # A
      BY <2>5, PickRest
    <3> QED
      BY <2>1, <2>2, <3>1
  <2> QED
    BY <2>2, <2>3, <2>4, <2>5, <2>6
<1> QED
  BY <1>1

\* There is a way of adding up over every finite set.
LEMMA AddingUpExists ==
    ASSUME NEW S, IsFiniteSet(S), NEW f
    PROVE  \E g : AddsUp(g, f, S)
<1> DEFINE B == {A \in SUBSET S : ~\E g : AddsUp(g, f, A)}
           H(C) == CHOOSE g : AddsUp(g, f, C)
<1>1. ASSUME B # {}
      PROVE  FALSE
  <2>1. PICK A \in B : \A C \in SUBSET A : C # A => C \notin B
    <3>1. B \in SUBSET SUBSET S
      OBVIOUS
    <3> HIDE DEF B
    <3> QED
      BY <1>1, <3>1, SmallestSubset
  <2>2. ASSUME NEW C \in SUBSET A, C # A
        PROVE  AddsUp(H(C), f, C) /\ IsFiniteSet(C)
    <3>1. C \in SUBSET S /\ C \notin B
      BY <2>1, <2>2
    <3>2. \E g : AddsUp(g, f, C)
      BY <3>1
    <3>3. IsFiniteSet(C)
      BY <3>1, FS_Subset
    <3> QED
      BY <3>2, <3>3
  <2> DEFINE R(s) == s \ {Pick(s)}
             G == [s \in SUBSET A |-> IF s = {} THEN 0 ELSE f[Pick(s)] + H(R(s))[R(s)]]
  <2>3. ASSUME NEW r \in SUBSET A, r # A
        PROVE  H(r)[r] = IF r = {} THEN 0 ELSE f[Pick(r)] + H(R(r))[R(r)]
    <3>1. AddsUp(H(r), f, r) /\ IsFiniteSet(r)
      BY <2>2, <2>3
    <3>2. H(r)[r] = IF r = {} THEN 0 ELSE f[Pick(r)] + H(r)[R(r)]
      <4> HIDE DEF H
      <4> QED
        BY <3>1 DEF AddsUp
    <3>3. ASSUME r # {}
          PROVE  H(r)[R(r)] = H(R(r))[R(r)]
      <4>1. R(r) \in SUBSET r /\ R(r) \in SUBSET A /\ R(r) # A
        BY <3>3, PickRest
      <4>2. AddsUp(H(R(r)), f, R(r))
        BY <2>2, <4>1
      <4>3. R(r) \in SUBSET R(r)
        OBVIOUS
      <4> HIDE DEF H, R
      <4> QED
        BY <3>1, <4>1, <4>2, <4>3, AddsUpOnce
    <3> HIDE DEF H, R
    <3> QED
      BY <3>2, <3>3
  <2>4. ASSUME NEW s \in SUBSET A
        PROVE  G[s] = IF s = {} THEN 0 ELSE f[Pick(s)] + G[R(s)]
    <3>1. CASE s = {}
      BY <3>1
    <3>2. CASE s # {}
      <4>1. R(s) \in SUBSET A /\ R(s) # A
        BY <3>2, PickRest
      <4> DEFINE r == R(s)
      <4>2. H(r)[r] = IF r = {} THEN 0 ELSE f[Pick(r)] + H(R(r))[R(r)]
        <5> HIDE DEF H, R
        <5> QED
          BY <2>3, <4>1
      <4>3. G[r] = IF r = {} THEN 0 ELSE f[Pick(r)] + H(R(r))[R(r)]
        <5>1. r \in SUBSET A
          BY <4>1
        <5> HIDE DEF H, R, r
        <5> QED
          BY <5>1
      <4>4. G[s] = f[Pick(s)] + H(r)[r]
        <5> HIDE DEF H, R
        <5> QED
          BY <3>2 DEF r
      <4> HIDE DEF H, R, G
      <4> QED
        BY <3>2, <4>2, <4>3, <4>4 DEF r
    <3> QED
      BY <3>1, <3>2
  <2>5. AddsUp(G, f, A)
    <3>1. G = [s \in SUBSET A |-> G[s]]
      OBVIOUS
    <3>2. [s \in SUBSET A |-> G[s]] = [s \in SUBSET A |-> IF s = {} THEN 0 ELSE f[Pick(s)] + G[R(s)]]
      <4> HIDE DEF G, R
      <4> QED
        BY <2>4
    <3>3. G = [s \in SUBSET A |-> IF s = {} THEN 0 ELSE f[Pick(s)] + G[R(s)]]
      <4> HIDE DEF G, R
      <4> QED
        BY <3>1, <3>2
    <3> HIDE DEF G
    <3> QED
      BY <3>3 DEF AddsUp
  <2> HIDE DEF G, H
  <2> QED
    BY <2>1, <2>5
<1>2. S \in SUBSET S /\ S \notin B
  BY <1>1
<1> QED
  BY <1>2

\* SumFunctionOnSet adds up, in an order nobody knows.
LEMMA SumAddsUp ==
    ASSUME NEW S, IsFiniteSet(S), NEW f
    PROVE  \E g : AddsUp(g, f, S) /\ \A s \in SUBSET S : g[s] = SumFunctionOnSet(f, s)
<1> DEFINE H(s) == CHOOSE g : AddsUp(g, f, s)
<1>1. ASSUME NEW s \in SUBSET S
      PROVE  AddsUp(H(s), f, s) /\ SumFunctionOnSet(f, s) = H(s)[s]
  <2>1. IsFiniteSet(s)
    BY FS_Subset
  <2>2. \E g : AddsUp(g, f, s)
    BY <2>1, AddingUpExists
  <2>3. SumFunctionOnSet(f, s) = H(s)[s]
    BY DEF SumFunctionOnSet, FoldFunctionOnSet, MapThenFoldSet, AddsUp, Pick
  <2> QED
    BY <2>2, <2>3
<1>2. PICK g : AddsUp(g, f, S)
  BY AddingUpExists
<1>3. ASSUME NEW s \in SUBSET S
      PROVE  g[s] = SumFunctionOnSet(f, s)
  <2>1. s \in SUBSET s /\ AddsUp(H(s), f, s) /\ SumFunctionOnSet(f, s) = H(s)[s]
    BY <1>1
  <2> HIDE DEF H
  <2> QED
    BY <1>2, <2>1, AddsUpOnce
<1> QED
  BY <1>2, <1>3

\* Nothing adds up to zero.
LEMMA SumNone ==
    ASSUME NEW f
    PROVE  SumFunctionOnSet(f, {}) = 0
<1>1. PICK g : AddsUp(g, f, {}) /\ \A s \in SUBSET {} : g[s] = SumFunctionOnSet(f, s)
  BY SumAddsUp, FS_EmptySet
<1>2. {} \in SUBSET {}
  OBVIOUS
<1>3. g[{}] = 0
  BY <1>1, <1>2 DEF AddsUp
<1> QED
  BY <1>1, <1>2, <1>3

\* A nonempty sum is some element's value and the sum of the others.
LEMMA SumPick ==
    ASSUME NEW S, IsFiniteSet(S), S # {}, NEW f
    PROVE  SumFunctionOnSet(f, S) = f[Pick(S)] + SumFunctionOnSet(f, S \ {Pick(S)})
<1>1. PICK g : AddsUp(g, f, S) /\ \A s \in SUBSET S : g[s] = SumFunctionOnSet(f, s)
  BY SumAddsUp
<1>2. S \in SUBSET S /\ S \ {Pick(S)} \in SUBSET S
  OBVIOUS
<1>3. g[S] = f[Pick(S)] + g[S \ {Pick(S)}]
  BY <1>1, <1>2 DEF AddsUp
<1> QED
  BY <1>1, <1>2, <1>3

\* Integers add up to an integer.
LEMMA SumType ==
    ASSUME NEW S, IsFiniteSet(S), NEW f, \A x \in S : f[x] \in Int
    PROVE  SumFunctionOnSet(f, S) \in Int
<1> DEFINE B == {A \in SUBSET S : SumFunctionOnSet(f, A) \notin Int}
<1>1. ASSUME B # {}
      PROVE  FALSE
  <2>1. PICK A \in B : \A C \in SUBSET A : C # A => C \notin B
    <3>1. B \in SUBSET SUBSET S
      OBVIOUS
    <3> HIDE DEF B
    <3> QED
      BY <1>1, <3>1, SmallestSubset
  <2>2. A \in SUBSET S /\ SumFunctionOnSet(f, A) \notin Int /\ IsFiniteSet(A)
    BY <2>1, FS_Subset
  <2>3. A # {}
    BY <2>2, SumNone
  <2>4. Pick(A) \in A /\ A \ {Pick(A)} \in SUBSET A /\ A \ {Pick(A)} # A
    BY <2>3, PickRest
  <2>5. SumFunctionOnSet(f, A \ {Pick(A)}) \in Int /\ f[Pick(A)] \in Int
    BY <2>1, <2>2, <2>4
  <2>6. SumFunctionOnSet(f, A) = f[Pick(A)] + SumFunctionOnSet(f, A \ {Pick(A)})
    BY <2>2, <2>3, SumPick
  <2> HIDE DEF B
  <2> QED
    BY <2>2, <2>5, <2>6
<1> QED
  BY <1>1

\* Any element may be taken out of the sum, whichever the sum began with.
LEMMA SumTake ==
    ASSUME NEW S, IsFiniteSet(S), NEW f, \A y \in S : f[y] \in Int, NEW x \in S
    PROVE  SumFunctionOnSet(f, S) = f[x] + SumFunctionOnSet(f, S \ {x})
<1> DEFINE Sum(A) == SumFunctionOnSet(f, A)
           B == {A \in SUBSET S : \E y \in A : Sum(A) # f[y] + Sum(A \ {y})}
<1>1. ASSUME B # {}
      PROVE  FALSE
  <2>1. PICK A \in B : \A C \in SUBSET A : C # A => C \notin B
    <3>1. B \in SUBSET SUBSET S
      OBVIOUS
    <3> HIDE DEF B
    <3> QED
      BY <1>1, <3>1, SmallestSubset
  <2>2. PICK y \in A : Sum(A) # f[y] + Sum(A \ {y})
    BY <2>1
  <2>3. A \in SUBSET S /\ IsFiniteSet(A) /\ A # {}
    BY <2>1, FS_Subset
  <2> DEFINE c == Pick(A)
  <2>4. Sum(A) = f[c] + Sum(A \ {c}) /\ c \in A
    BY <2>3, SumPick, PickRest
  <2> HIDE DEF c
  <2>5. c # y
    BY <2>2, <2>4
  <2>6. ASSUME NEW C \in SUBSET A, C # A, NEW z \in C
        PROVE  Sum(C) = f[z] + Sum(C \ {z})
    <3>1. C \notin B /\ C \in SUBSET S
      BY <2>1, <2>3, <2>6
    <3> QED
      BY <3>1
  <2>7. Sum(A \ {c}) = f[y] + Sum((A \ {c}) \ {y})
    BY <2>4, <2>5, <2>6
  <2>8. Sum(A \ {y}) = f[c] + Sum((A \ {y}) \ {c})
    BY <2>4, <2>5, <2>6
  <2>9. (A \ {c}) \ {y} = (A \ {y}) \ {c} /\ (A \ {c}) \ {y} \in SUBSET S
    BY <2>3
  <2> DEFINE n == Sum((A \ {c}) \ {y})
  <2>10. n \in Int /\ f[c] \in Int /\ f[y] \in Int
    <3>1. IsFiniteSet((A \ {c}) \ {y}) /\ \A z \in (A \ {c}) \ {y} : f[z] \in Int
      BY <2>9, FS_Subset
    <3>2. Sum((A \ {c}) \ {y}) \in Int
      BY <3>1, SumType
    <3> QED
      BY <2>3, <2>4, <3>2
  <2>11. Sum(A) = f[c] + (f[y] + n) /\ Sum(A \ {y}) = f[c] + n
    BY <2>4, <2>7, <2>8, <2>9
  <2> HIDE DEF B, Sum, n
  <2> QED
    BY <2>2, <2>10, <2>11
<1>2. S \in SUBSET S /\ S \notin B
  BY <1>1
<1> QED
  BY <1>2

\* Sums of more are more, and of natural numbers are natural numbers.
LEMMA SumMono ==
    ASSUME NEW S, IsFiniteSet(S), NEW f, NEW g, \A x \in S : f[x] \in Int /\ g[x] \in Int /\ f[x] <= g[x]
    PROVE  SumFunctionOnSet(f, S) <= SumFunctionOnSet(g, S)
<1> DEFINE B == {A \in SUBSET S : ~(SumFunctionOnSet(f, A) <= SumFunctionOnSet(g, A))}
<1>1. ASSUME B # {}
      PROVE  FALSE
  <2>1. PICK A \in B : \A C \in SUBSET A : C # A => C \notin B
    <3>1. B \in SUBSET SUBSET S
      OBVIOUS
    <3> HIDE DEF B
    <3> QED
      BY <1>1, <3>1, SmallestSubset
  <2>2. A \in SUBSET S /\ ~(SumFunctionOnSet(f, A) <= SumFunctionOnSet(g, A)) /\ IsFiniteSet(A)
    BY <2>1, FS_Subset
  <2>3. A # {}
    BY <2>2, SumNone
  <2> DEFINE c == Pick(A)
             R == A \ {c}
  <2>4. c \in A /\ R \in SUBSET A /\ R # A /\ R \in SUBSET S
    BY <2>2, <2>3, PickRest
  <2>5. SumFunctionOnSet(f, R) <= SumFunctionOnSet(g, R)
    BY <2>1, <2>4
  <2>6. SumFunctionOnSet(f, A) = f[c] + SumFunctionOnSet(f, R) /\ SumFunctionOnSet(g, A) = g[c] + SumFunctionOnSet(g, R)
    BY <2>2, <2>3, SumPick
  <2> HIDE DEF B, c, R
  <2>7. IsFiniteSet(R) /\ c \in S /\ \A x \in R : f[x] \in Int /\ g[x] \in Int
    BY <2>2, <2>4, FS_Subset
  <2>8. SumFunctionOnSet(f, R) \in Int /\ SumFunctionOnSet(g, R) \in Int
    BY <2>7, SumType
  <2>9. f[c] \in Int /\ g[c] \in Int /\ f[c] <= g[c]
    BY <2>7
  <2> QED
    BY <2>2, <2>5, <2>6, <2>8, <2>9
<1> QED
  BY <1>1

\* The sum of two columns is the sum of their totals.
LEMMA SumAdd ==
    ASSUME NEW S, IsFiniteSet(S), NEW f, NEW g, NEW h,
           \A x \in S : f[x] \in Int /\ g[x] \in Int /\ h[x] = f[x] + g[x]
    PROVE  SumFunctionOnSet(h, S) = SumFunctionOnSet(f, S) + SumFunctionOnSet(g, S)
<1> DEFINE B == {A \in SUBSET S : SumFunctionOnSet(h, A) # SumFunctionOnSet(f, A) + SumFunctionOnSet(g, A)}
<1>1. ASSUME B # {}
      PROVE  FALSE
  <2>1. PICK A \in B : \A C \in SUBSET A : C # A => C \notin B
    <3>1. B \in SUBSET SUBSET S
      OBVIOUS
    <3> HIDE DEF B
    <3> QED
      BY <1>1, <3>1, SmallestSubset
  <2>2. A \in SUBSET S /\ SumFunctionOnSet(h, A) # SumFunctionOnSet(f, A) + SumFunctionOnSet(g, A) /\ IsFiniteSet(A)
    BY <2>1, FS_Subset
  <2>3. A # {}
    BY <2>2, SumNone
  <2> DEFINE c == Pick(A)
             R == A \ {c}
  <2>4. c \in A /\ R \in SUBSET A /\ R # A /\ R \in SUBSET S
    BY <2>2, <2>3, PickRest
  <2>5. SumFunctionOnSet(h, R) = SumFunctionOnSet(f, R) + SumFunctionOnSet(g, R)
    BY <2>1, <2>4
  <2>6. /\ SumFunctionOnSet(f, A) = f[c] + SumFunctionOnSet(f, R)
        /\ SumFunctionOnSet(g, A) = g[c] + SumFunctionOnSet(g, R)
        /\ SumFunctionOnSet(h, A) = h[c] + SumFunctionOnSet(h, R)
    BY <2>2, <2>3, SumPick
  <2> HIDE DEF B, c, R
  <2>7. IsFiniteSet(R) /\ c \in S /\ \A x \in R : f[x] \in Int /\ g[x] \in Int
    BY <2>2, <2>4, FS_Subset
  <2>8. SumFunctionOnSet(f, R) \in Int /\ SumFunctionOnSet(g, R) \in Int
    BY <2>7, SumType
  <2>9. f[c] \in Int /\ g[c] \in Int /\ h[c] = f[c] + g[c]
    BY <2>7
  <2> QED
    BY <2>2, <2>5, <2>6, <2>8, <2>9
<1> QED
  BY <1>1

\* A sum over natural numbers is one, and no smaller than any of them.
LEMMA SumNat ==
    ASSUME NEW S, IsFiniteSet(S), NEW f, \A x \in S : f[x] \in Nat
    PROVE  SumFunctionOnSet(f, S) \in Nat
<1> DEFINE B == {A \in SUBSET S : SumFunctionOnSet(f, A) \notin Nat}
<1>1. ASSUME B # {}
      PROVE  FALSE
  <2>1. PICK A \in B : \A C \in SUBSET A : C # A => C \notin B
    <3>1. B \in SUBSET SUBSET S
      OBVIOUS
    <3> HIDE DEF B
    <3> QED
      BY <1>1, <3>1, SmallestSubset
  <2>2. A \in SUBSET S /\ SumFunctionOnSet(f, A) \notin Nat /\ IsFiniteSet(A)
    BY <2>1, FS_Subset
  <2>3. A # {}
    BY <2>2, SumNone
  <2>4. Pick(A) \in A /\ A \ {Pick(A)} \in SUBSET A /\ A \ {Pick(A)} # A
    BY <2>3, PickRest
  <2>5. SumFunctionOnSet(f, A \ {Pick(A)}) \in Nat /\ f[Pick(A)] \in Nat
    BY <2>1, <2>2, <2>4
  <2>6. SumFunctionOnSet(f, A) = f[Pick(A)] + SumFunctionOnSet(f, A \ {Pick(A)})
    BY <2>2, <2>3, SumPick
  <2> HIDE DEF B
  <2> QED
    BY <2>2, <2>5, <2>6
<1> QED
  BY <1>1

\* What is summed is all that counts.
LEMMA SumSame ==
    ASSUME NEW S, IsFiniteSet(S), NEW f, NEW g, \A x \in S : f[x] \in Int /\ f[x] = g[x]
    PROVE  SumFunctionOnSet(f, S) = SumFunctionOnSet(g, S)
<1>1. SumFunctionOnSet(f, S) \in Int /\ SumFunctionOnSet(g, S) \in Int
  BY SumType
<1>2. SumFunctionOnSet(f, S) <= SumFunctionOnSet(g, S)
  BY SumMono
<1>3. SumFunctionOnSet(g, S) <= SumFunctionOnSet(f, S)
  BY SumMono
<1> QED
  BY <1>1, <1>2, <1>3

\* g over T is f over S and one more element, n.
OneMore(f, S, g, T, n) ==
    /\ IsFiniteSet(S) /\ n \notin S /\ T = S \cup {n}
    /\ g[n] \in Int /\ \A x \in S : f[x] \in Int /\ f[x] = g[x]

\* One more element adds its value.
LEMMA SumJoin ==
    ASSUME NEW f, NEW S, NEW g, NEW T, NEW n, OneMore(f, S, g, T, n)
    PROVE  SumFunctionOnSet(g, T) = SumFunctionOnSet(f, S) + g[n]
<1>1. IsFiniteSet(S) /\ \A x \in S : f[x] \in Int /\ f[x] = g[x]
  BY DEF OneMore
<1>2. IsFiniteSet(T) /\ n \in T /\ (\A x \in T : g[x] \in Int) /\ T \ {n} = S /\ g[n] \in Int
  BY FS_AddElement DEF OneMore
<1>3. SumFunctionOnSet(g, T) = g[n] + SumFunctionOnSet(g, T \ {n})
  BY <1>2, SumTake
<1>4. SumFunctionOnSet(f, S) = SumFunctionOnSet(g, S) /\ SumFunctionOnSet(f, S) \in Int
  BY <1>1, SumSame, SumType
<1>5. SumFunctionOnSet(g, T) = g[n] + SumFunctionOnSet(f, S)
  BY <1>2, <1>3, <1>4
<1> QED
  BY <1>2, <1>4, <1>5

\* Nothing adds up to nothing.
LEMMA SumZero ==
    ASSUME NEW S, IsFiniteSet(S), NEW f, \A x \in S : f[x] = 0
    PROVE  SumFunctionOnSet(f, S) = 0
<1>1. SumFunctionOnSet(f, S) = SumFunctionOnSet(f, S) + SumFunctionOnSet(f, S)
  BY SumAdd
<1>2. SumFunctionOnSet(f, S) \in Int
  BY SumType
<1> QED
  BY <1>1, <1>2

\* Two elements are no more than the sum of all.
LEMMA SumCovers ==
    ASSUME NEW S, IsFiniteSet(S), NEW f, \A x \in S : f[x] \in Nat, NEW n \in S
    PROVE  /\ f[n] <= SumFunctionOnSet(f, S)
           /\ \A m \in S \ {n} : f[n] + f[m] <= SumFunctionOnSet(f, S)
<1>1. IsFiniteSet(S \ {n}) /\ \A x \in S \ {n} : f[x] \in Nat
  BY FS_RemoveElement
<1>2. SumFunctionOnSet(f, S) = f[n] + SumFunctionOnSet(f, S \ {n})
  BY SumTake
<1>3. SumFunctionOnSet(f, S \ {n}) \in Nat
  BY <1>1, SumNat
<1>4. ASSUME NEW m \in S \ {n}
      PROVE  f[n] + f[m] <= SumFunctionOnSet(f, S)
  <2> DEFINE R == S \ {n}
  <2>1. IsFiniteSet(R \ {m}) /\ \A x \in R \ {m} : f[x] \in Nat
    BY <1>1, FS_RemoveElement
  <2>2. m \in R /\ \A x \in R : f[x] \in Int
    BY <1>1
  <2> HIDE DEF R
  <2>3. SumFunctionOnSet(f, R) = f[m] + SumFunctionOnSet(f, R \ {m})
    BY <1>1, <2>2, SumTake DEF R
  <2>4. SumFunctionOnSet(f, R \ {m}) \in Nat
    BY <2>1, SumNat
  <2>5. SumFunctionOnSet(f, S) = f[n] + SumFunctionOnSet(f, R) /\ f[n] \in Nat /\ f[m] \in Nat
    BY <1>2 DEF R
  <2> QED
    BY <2>3, <2>4, <2>5
<1>5. f[n] \in Nat
  OBVIOUS
<1> QED
  BY <1>2, <1>3, <1>4, <1>5

-----------------------------------------------------------------------------
(* The invariant *)

\* What a return is worth.
Worth(r) == ValueOf(r.units) + (IF r.withDelivery THEN Delivery ELSE 0)

\* The statuses of an order that can be returned over the counter.
Sold == {"Purchased", "Delivered", "PartiallyReturned"}

\* An order's fields fit each other: a counter sale is never owed money, an order not handed over has no
\* money given back, and a parcel is back in the shop only when all of it came back.
OrderSound ==
    /\ order.channel = "POS" => order.status \in {"Purchased", "PartiallyReturned", "Returned"} /\ order.due = 0
    /\ order.status = "Purchased" => order.channel = "POS"
    /\ order.status \in {"Pending", "Confirmed"} =>
        /\ order.channel = "ONLINE" /\ order.refunded = 0 /\ order.due = 0
        /\ order.payment \in {"unpaid", "partially_paid", "paid"}
    /\ order.parcel = "BackInShop" => order.status = "Returned"
    /\ OrderTellsItsReturns

\* A delivered order was paid in full.  One whose parcel never arrived gives back what is left when the
\* delivery charge is kept, at most.
PaidSound ==
    /\ order.paid <= Total
    /\ order.payment = "paid" => order.paid = Total
    /\ order.channel = "ONLINE" /\ order.status \in {"Delivered", "PartiallyReturned", "Returned"} =>
        \/ order.parcel # "BackInShop" /\ order.paid = Total /\ order.payment \notin {"unpaid", "partially_paid"}
        \/ order.parcel = "BackInShop" /\ order.refunded + order.due <= AtLeastZero(Received - Delivery)

\* A return that waits is no empty one and gives back no more than it is worth; one for a parcel that
\* never arrived is about the whole order.
WaitingSound ==
    \A n \in Pending :
        /\ returns[n].units # NoUnits
        /\ returns[n].refund <= Worth(returns[n])
        /\ returns[n].notDelivered =>
            /\ order.status = "Confirmed" /\ order.parcel = "Failed"
            /\ returns[n].units = Quantity /\ ~returns[n].withDelivery
            /\ returns[n].refund <= AtLeastZero(Received - Delivery)
        /\ ~returns[n].notDelivered => order.status \in Sold \cup {"Returned"}

\* The return being raised fits the order still, because the order stays locked.
RaisingSound ==
    ~OrderFree =>
        /\ raising.nth \in Returns /\ returns[raising.nth].status = "None"
        /\ raising.units # NoUnits
        /\ \A l \in Lines : returned[l] + PendingUnits(l) + raising.units[l] <= Quantity[l]
        /\ raising.notDelivered =>
            /\ order.status = "Confirmed" /\ order.parcel = "WithCourier"
            /\ raising.units = Quantity /\ raising.whole /\ ~raising.withDelivery
        /\ ~raising.notDelivered => order.status \in Sold

\* The delivery charge is given back by one return at most, the one that completes the order.
SettledSound ==
    \A n \in Settled : returns[n].withDelivery =>
        returned = Quantity /\ \A m \in Settled \ {n} : ~returns[m].withDelivery

\* The inductive invariant.
RInv ==
    /\ TypeOK
    /\ NoUnitReturnedTwice
    /\ PromisesCovered
    /\ RefundsAreEarned
    /\ OrderSound
    /\ PaidSound
    /\ WaitingSound
    /\ RaisingSound
    /\ SettledSound

-----------------------------------------------------------------------------
(* Units and money add up *)

\* The returns of an order are finitely many.
LEMMA ReturnsFinite == Returns \in SUBSET Nat /\ IsFiniteSet(Returns)
<1>1. 1 \in Int /\ MaxReturns \in Int
  BY MoneyAssumption
<1>2. IsFiniteSet(1..MaxReturns)
  BY <1>1, FS_Interval
<1> QED
  BY <1>2 DEF Returns

\* Amounts are natural numbers.
LEMMA ValueType ==
    ASSUME NEW u \in Units
    PROVE  ValueOf(u) \in Nat
<1> DEFINE f == [l \in Lines |-> u[l] * UnitPrice[l]]
<1>1. \A l \in Lines : f[l] \in Nat
  BY LinesAssumption DEF Units
<1>2. SumFunctionOnSet(f, Lines) \in Nat
  <2> HIDE DEF f
  <2> QED
    BY <1>1, LinesAssumption, SumNat
<1> QED
  BY <1>2 DEF ValueOf, SumFunction

\* Units that come back together are worth what they are worth one by one.
LEMMA ValueAdds ==
    ASSUME NEW u \in Units, NEW v \in Units, NEW w \in Units, \A l \in Lines : w[l] = u[l] + v[l]
    PROVE  ValueOf(w) = ValueOf(u) + ValueOf(v)
<1> DEFINE f == [l \in Lines |-> u[l] * UnitPrice[l]]
           g == [l \in Lines |-> v[l] * UnitPrice[l]]
           h == [l \in Lines |-> w[l] * UnitPrice[l]]
<1>1. \A l \in Lines : f[l] \in Int /\ g[l] \in Int /\ h[l] = f[l] + g[l]
  BY LinesAssumption DEF Units
<1>2. SumFunctionOnSet(h, Lines) = SumFunctionOnSet(f, Lines) + SumFunctionOnSet(g, Lines)
  <2> HIDE DEF f, g, h
  <2> QED
    BY <1>1, LinesAssumption, SumAdd
<1> QED
  BY <1>2 DEF ValueOf, SumFunction

\* No units are worth nothing, and an order is never of no units.
LEMMA NoValue == ValueOf(NoUnits) = 0 /\ NoUnits \in Units /\ Quantity \in Units /\ Quantity # NoUnits
<1> DEFINE f == [l \in Lines |-> NoUnits[l] * UnitPrice[l]]
<1>1. \A l \in Lines : f[l] = 0
  BY LinesAssumption DEF NoUnits
<1>2. SumFunctionOnSet(f, Lines) = 0
  <2> HIDE DEF f
  <2> QED
    BY <1>1, LinesAssumption, SumZero
<1>3. ValueOf(NoUnits) = 0
  BY <1>2 DEF ValueOf, SumFunction
<1>4. NoUnits \in Units /\ Quantity \in Units /\ Quantity # NoUnits
  BY LinesAssumption DEF NoUnits, Units
<1> QED
  BY <1>3, <1>4

\* Every amount the handlers compute is a natural number.
LEMMA MoneyTypes ==
    ASSUME TypeOK
    PROVE  /\ Delivery \in Nat /\ Total \in Nat /\ Received \in Nat /\ ValueOf(returned) \in Nat
           /\ Pending \in SUBSET Returns /\ IsFiniteSet(Pending)
           /\ PendingRefunds \in Nat /\ \A l \in Lines : PendingUnits(l) \in Nat
           /\ \A n \in Returns : Worth(returns[n]) \in Nat
<1>1. Delivery \in Nat
  BY MoneyAssumption DEF Delivery
<1>2. Total \in Nat /\ ValueOf(returned) \in Nat
  BY <1>1, NoValue, ValueType DEF Total, TypeOK
<1>3. Received \in Nat
  BY <1>2 DEF Received, TypeOK, OrderType
<1>4. Pending \in SUBSET Returns /\ IsFiniteSet(Pending)
  <2>1. Pending \in SUBSET Returns
    BY DEF Pending
  <2> QED
    BY <2>1, ReturnsFinite, FS_Subset
<1>5. PendingRefunds \in Nat
  <2> DEFINE f == [n \in Returns |-> returns[n].refund]
  <2>1. \A n \in Pending : f[n] \in Nat
    BY <1>4 DEF TypeOK, ReturnType
  <2> HIDE DEF f
  <2>2. SumFunctionOnSet(f, Pending) \in Nat
    BY <1>4, <2>1, SumNat
  <2> QED
    BY <2>2 DEF PendingRefunds, f
<1>6. ASSUME NEW l \in Lines
      PROVE  PendingUnits(l) \in Nat
  <2> DEFINE f == [n \in Returns |-> returns[n].units[l]]
  <2>1. \A n \in Pending : f[n] \in Nat
    BY <1>4 DEF TypeOK, ReturnType, Units
  <2> HIDE DEF f
  <2>2. SumFunctionOnSet(f, Pending) \in Nat
    BY <1>4, <2>1, SumNat
  <2> QED
    BY <2>2 DEF PendingUnits, f
<1>7. ASSUME NEW n \in Returns
      PROVE  Worth(returns[n]) \in Nat
  <2>1. returns[n].units \in Units
    BY DEF TypeOK, ReturnType
  <2>2. ValueOf(returns[n].units) \in Nat
    BY <2>1, ValueType
  <2> QED
    BY <1>1, <2>2 DEF Worth
<1> QED
  BY <1>1, <1>2, <1>3, <1>4, <1>5, <1>6, <1>7

\* A return that starts to wait adds its units and its refund to those that wait.
LEMMA OneMoreWaits ==
    ASSUME TypeOK, TypeOK', NEW n \in Returns, n \notin Pending, Pending' = Pending \cup {n},
           \A m \in Pending : returns'[m] = returns[m]
    PROVE  /\ PendingRefunds' = PendingRefunds + returns'[n].refund
           /\ \A l \in Lines : PendingUnits(l)' = PendingUnits(l) + returns'[n].units[l]
<1> DEFINE T == Pending'
<1>1. Pending \in SUBSET Returns /\ IsFiniteSet(Pending) /\ T = Pending \cup {n}
  BY MoneyTypes
<1>2. PendingRefunds' = PendingRefunds + returns'[n].refund
  <2> DEFINE f == [m \in Returns |-> returns[m].refund]
             g == [m \in Returns |-> returns'[m].refund]
  <2>1. g[n] \in Int /\ \A m \in Pending : f[m] \in Int /\ f[m] = g[m]
    BY <1>1 DEF TypeOK, ReturnType
  <2>2. PendingRefunds = SumFunctionOnSet(f, Pending) /\ PendingRefunds' = SumFunctionOnSet(g, T)
    BY DEF PendingRefunds
  <2>3. g[n] = returns'[n].refund
    OBVIOUS
  <2> HIDE DEF f, g, T
  <2>4. SumFunctionOnSet(g, T) = SumFunctionOnSet(f, Pending) + g[n]
    <3>1. OneMore(f, Pending, g, T, n)
      BY <1>1, <2>1 DEF OneMore
    <3> QED
      BY <3>1, SumJoin
  <2> QED
    BY <2>2, <2>3, <2>4
<1>3. ASSUME NEW l \in Lines
      PROVE  PendingUnits(l)' = PendingUnits(l) + returns'[n].units[l]
  <2> DEFINE f == [m \in Returns |-> returns[m].units[l]]
             g == [m \in Returns |-> returns'[m].units[l]]
  <2>1. g[n] \in Int /\ \A m \in Pending : f[m] \in Int /\ f[m] = g[m]
    BY <1>1 DEF TypeOK, ReturnType, Units
  <2>2. PendingUnits(l) = SumFunctionOnSet(f, Pending) /\ PendingUnits(l)' = SumFunctionOnSet(g, T)
    BY DEF PendingUnits
  <2>3. g[n] = returns'[n].units[l]
    OBVIOUS
  <2> HIDE DEF f, g, T
  <2>4. SumFunctionOnSet(g, T) = SumFunctionOnSet(f, Pending) + g[n]
    <3>1. OneMore(f, Pending, g, T, n)
      BY <1>1, <2>1 DEF OneMore
    <3> QED
      BY <3>1, SumJoin
  <2> QED
    BY <2>2, <2>3, <2>4
<1> QED
  BY <1>2, <1>3

\* One that no longer waits takes them with it.
LEMMA OneLessWaits ==
    ASSUME TypeOK, TypeOK', NEW n \in Pending, Pending' = Pending \ {n},
           \A m \in Pending \ {n} : returns'[m].refund = returns[m].refund /\ returns'[m].units = returns[m].units
    PROVE  /\ PendingRefunds' \in Nat /\ PendingRefunds = PendingRefunds' + returns[n].refund
           /\ \A l \in Lines : PendingUnits(l)' \in Nat /\ PendingUnits(l) = PendingUnits(l)' + returns[n].units[l]
<1> DEFINE S == Pending \ {n}
           T == Pending
<1>1. S \in SUBSET Returns /\ IsFiniteSet(S) /\ n \notin S /\ n \in Returns /\ T = S \cup {n}
  BY MoneyTypes, FS_RemoveElement
<1>2. PendingRefunds' \in Nat /\ PendingRefunds = PendingRefunds' + returns[n].refund
  <2> DEFINE f == [m \in Returns |-> returns'[m].refund]
             g == [m \in Returns |-> returns[m].refund]
  <2>1. g[n] \in Int /\ \A m \in S : f[m] \in Nat /\ f[m] = g[m]
    BY <1>1 DEF TypeOK, ReturnType
  <2>2. PendingRefunds' = SumFunctionOnSet(f, S) /\ PendingRefunds = SumFunctionOnSet(g, T)
    BY <1>1 DEF PendingRefunds
  <2>3. g[n] = returns[n].refund
    BY <1>1
  <2> HIDE DEF f, g, S, T
  <2>4. SumFunctionOnSet(g, T) = SumFunctionOnSet(f, S) + g[n]
    <3>1. OneMore(f, S, g, T, n)
      BY <1>1, <2>1 DEF OneMore
    <3> QED
      BY <3>1, SumJoin
  <2>5. SumFunctionOnSet(f, S) \in Nat
    BY <1>1, <2>1, SumNat
  <2> QED
    BY <2>2, <2>3, <2>4, <2>5
<1>3. ASSUME NEW l \in Lines
      PROVE  PendingUnits(l)' \in Nat /\ PendingUnits(l) = PendingUnits(l)' + returns[n].units[l]
  <2> DEFINE f == [m \in Returns |-> returns'[m].units[l]]
             g == [m \in Returns |-> returns[m].units[l]]
  <2>1. g[n] \in Int /\ \A m \in S : f[m] \in Nat /\ f[m] = g[m]
    BY <1>1 DEF TypeOK, ReturnType, Units
  <2>2. PendingUnits(l)' = SumFunctionOnSet(f, S) /\ PendingUnits(l) = SumFunctionOnSet(g, T)
    BY <1>1 DEF PendingUnits
  <2>3. g[n] = returns[n].units[l]
    BY <1>1
  <2> HIDE DEF f, g, S, T
  <2>4. SumFunctionOnSet(g, T) = SumFunctionOnSet(f, S) + g[n]
    <3>1. OneMore(f, S, g, T, n)
      BY <1>1, <2>1 DEF OneMore
    <3> QED
      BY <3>1, SumJoin
  <2>5. SumFunctionOnSet(f, S) \in Nat
    BY <1>1, <2>1, SumNat
  <2> QED
    BY <2>2, <2>3, <2>4, <2>5
<1> QED
  BY <1>2, <1>3

\* Two returns that wait hold different units of the order.
LEMMA WaitingApart ==
    ASSUME TypeOK, NEW n \in Pending
    PROVE  \A l \in Lines :
             /\ returns[n].units[l] <= PendingUnits(l)
             /\ \A m \in Pending \ {n} : returns[n].units[l] + returns[m].units[l] <= PendingUnits(l)
<1> TAKE l \in Lines
<1> DEFINE f == [m \in Returns |-> returns[m].units[l]]
<1>1. Pending \in SUBSET Returns /\ IsFiniteSet(Pending)
  BY MoneyTypes
<1>2. \A m \in Pending : f[m] \in Nat /\ f[m] = returns[m].units[l]
  BY <1>1 DEF TypeOK, ReturnType, Units
<1>3. PendingUnits(l) = SumFunctionOnSet(f, Pending)
  BY DEF PendingUnits
<1> HIDE DEF f
<1>4. /\ f[n] <= SumFunctionOnSet(f, Pending)
      /\ \A m \in Pending \ {n} : f[n] + f[m] <= SumFunctionOnSet(f, Pending)
  BY <1>1, <1>2, SumCovers
<1> QED
  BY <1>2, <1>3, <1>4

\* Without returns that wait nothing is promised.
LEMMA NoneWaiting ==
    ASSUME TypeOK, Pending = {}
    PROVE  PendingRefunds = 0 /\ \A l \in Lines : PendingUnits(l) = 0
BY SumNone DEF PendingRefunds, PendingUnits

-----------------------------------------------------------------------------
(* The order's own handlers *)

\* A handler of the order alone leaves its returns as they were, and the charge it pays for delivery.
LEMMA OrderOnly ==
    ASSUME RInv, OrderFree, UNCHANGED <<returned, returns, raising>>, order'.channel = order.channel
    PROVE  /\ NoUnitReturnedTwice' /\ RaisingSound' /\ SettledSound'
           /\ Pending' = Pending /\ Settled' = Settled /\ PendingRefunds' = PendingRefunds
           /\ Delivery' = Delivery /\ Total' = Total
           /\ \A n \in Returns : Worth(returns[n])' = Worth(returns[n])
<1>1. Pending' = Pending /\ Settled' = Settled
  BY DEF Pending, Settled
<1>2. PendingRefunds' = PendingRefunds /\ \A l \in Lines : PendingUnits(l)' = PendingUnits(l)
  BY <1>1 DEF PendingRefunds, PendingUnits
<1>3. Delivery' = Delivery /\ Total' = Total
  BY DEF Delivery, Total
<1>4. NoUnitReturnedTwice' /\ RaisingSound' /\ SettledSound'
  BY <1>1, <1>2 DEF RInv, NoUnitReturnedTwice, RaisingSound, SettledSound, OrderFree
<1>5. \A n \in Returns : Worth(returns[n])' = Worth(returns[n])
  BY <1>3 DEF Worth
<1> QED
  BY <1>1, <1>2, <1>3, <1>4, <1>5

\* Before the courier brings or loses a parcel nothing waits to come back.
LEMMA NothingBackYet ==
    ASSUME RInv, order.status \in {"Pending", "Confirmed"}, order.parcel # "Failed"
    PROVE  Pending = {} /\ PendingRefunds = 0 /\ order.refunded = 0 /\ order.due = 0 /\ returned = NoUnits
<1>1. Pending = {}
  BY DEF RInv, WaitingSound, Sold
<1> QED
  BY <1>1, NoneWaiting DEF RInv, OrderSound, OrderTellsItsReturns, StatusTellsReturned

\* Before dispatch nothing was given back, so all that was received can be owed.
LEMMA CancelOrderKeeps ==
    ASSUME RInv, CancelOrder
    PROVE  RInv'
<1> DEFINE owed == AtLeastZero(Received - order.refunded)
<1>1. /\ OrderFree /\ order.channel = "ONLINE" /\ order.status \in {"Pending", "Confirmed"} /\ order.parcel \in {"None", "Preparing"}
      /\ UNCHANGED <<returned, returns, raising>>
      /\ order' = [order EXCEPT !.status = "Cancelled", !.due = IF owed > 0 THEN owed ELSE order.due,
                                !.refund = IF owed > 0 THEN "ToRefund" ELSE order.refund]
  BY DEF CancelOrder
<1>2. order \in OrderType /\ Delivery \in Nat /\ Total \in Nat /\ Received \in Nat /\ owed = Received
  <2>1. order.refunded = 0
    BY <1>1, NothingBackYet
  <2> QED
    BY <2>1, MoneyTypes DEF RInv, TypeOK, AtLeastZero
<1> HIDE DEF owed
<1>3. /\ order'.channel = "ONLINE" /\ order'.status = "Cancelled" /\ order'.parcel = order.parcel
      /\ order'.payment = order.payment /\ order'.paid = order.paid /\ order'.refunded = order.refunded
      /\ order'.due = (IF owed > 0 THEN owed ELSE order.due)
      /\ order'.refund = (IF owed > 0 THEN "ToRefund" ELSE order.refund)
  BY <1>1, <1>2 DEF OrderType
<1>4. order' \in OrderType
  BY <1>1, <1>2 DEF OrderType
<1>5. Pending = {} /\ PendingRefunds = 0 /\ order.refunded = 0 /\ order.due = 0 /\ returned = NoUnits
  BY <1>1, NothingBackYet
<1>6. /\ NoUnitReturnedTwice' /\ RaisingSound' /\ SettledSound' /\ Pending' = {} /\ PendingRefunds' = 0
      /\ Delivery' = Delivery /\ Total' = Total
  BY <1>1, <1>3, <1>5, OrderOnly
<1>7. Received' = Received
  BY <1>3, <1>6 DEF Received
<1>8. TypeOK'
  BY <1>1, <1>4 DEF RInv, TypeOK
<1>9. PromisesCovered' /\ RefundsAreEarned'
  BY <1>2, <1>3, <1>5, <1>6, <1>7 DEF PromisesCovered, RefundsAreEarned
<1>10. OrderSound'
  <2>1. order.refund # "ToRefund"
    BY <1>5 DEF RInv, OrderSound, OrderTellsItsReturns, OwedWhileDue
  <2>2. OwedWhileDue'
    BY <1>2, <1>3, <1>5, <2>1 DEF OwedWhileDue
  <2>3. StatusTellsReturned'
    BY <1>1, <1>3, <1>5, NoValue DEF StatusTellsReturned
  <2> QED
    BY <1>1, <1>3, <2>2, <2>3 DEF OrderSound, OrderTellsItsReturns
<1>11. PaidSound'
  BY <1>3, <1>6 DEF RInv, PaidSound
<1>12. WaitingSound'
  BY <1>6 DEF WaitingSound
<1> QED
  BY <1>6, <1>8, <1>9, <1>10, <1>11, <1>12 DEF RInv

\* The courier brings the whole order and collects what was left to pay.
LEMMA DeliverOrderKeeps ==
    ASSUME RInv, DeliverOrder
    PROVE  RInv'
<1>1. /\ OrderFree /\ order.status = "Confirmed" /\ order.parcel = "WithCourier"
      /\ UNCHANGED <<returned, returns, raising>>
      /\ order' = [order EXCEPT !.status = "Delivered", !.parcel = "Delivered", !.payment = "paid",
                                !.paid = IF order.payment = "paid" THEN order.paid ELSE Total]
  BY DEF DeliverOrder
<1>2. order \in OrderType /\ Delivery \in Nat /\ Total \in Nat /\ order.channel = "ONLINE"
  BY <1>1, MoneyTypes DEF RInv, TypeOK, OrderSound
<1>3. /\ order'.channel = "ONLINE" /\ order'.status = "Delivered" /\ order'.parcel = "Delivered"
      /\ order'.payment = "paid" /\ order'.refunded = order.refunded /\ order'.due = order.due
      /\ order'.refund = order.refund /\ order'.paid = Total
  BY <1>1, <1>2 DEF OrderType, RInv, PaidSound
<1>4. order' \in OrderType
  BY <1>1, <1>2 DEF OrderType
<1>5. Pending = {} /\ PendingRefunds = 0 /\ order.refunded = 0 /\ order.due = 0 /\ returned = NoUnits
  BY <1>1, NothingBackYet
<1>6. /\ NoUnitReturnedTwice' /\ RaisingSound' /\ SettledSound' /\ Pending' = {} /\ PendingRefunds' = 0
      /\ Delivery' = Delivery /\ Total' = Total
  BY <1>1, <1>2, <1>3, <1>5, OrderOnly
<1>7. Received' = Total
  BY <1>3, <1>6 DEF Received
<1>8. TypeOK'
  BY <1>1, <1>4 DEF RInv, TypeOK
<1>9. PromisesCovered'
  BY <1>2, <1>3, <1>5, <1>6, <1>7 DEF PromisesCovered
<1>10. RefundsAreEarned'
  <2>1. ValueOf(returned) = 0 /\ returned' = returned
    BY <1>1, <1>5, NoValue
  <2> QED
    BY <1>2, <1>3, <1>5, <1>6, <2>1 DEF RefundsAreEarned
<1>11. OrderSound'
  <2>1. OwedWhileDue'
    BY <1>3 DEF RInv, OrderSound, OrderTellsItsReturns, OwedWhileDue
  <2>2. StatusTellsReturned'
    BY <1>1, <1>3, <1>5, NoValue DEF StatusTellsReturned
  <2> QED
    BY <1>3, <2>1, <2>2 DEF OrderSound, OrderTellsItsReturns
<1>12. PaidSound'
  BY <1>2, <1>3, <1>6 DEF PaidSound
<1>13. WaitingSound'
  BY <1>6 DEF WaitingSound
<1> QED
  BY <1>6, <1>8, <1>9, <1>10, <1>11, <1>12, <1>13 DEF RInv

\* An order that was paid for has its amount paid written down.
LEMMA PaidIsReceived ==
    ASSUME RInv, Received > 0
    PROVE  Received = order.paid
<1>1. order \in OrderType
  BY DEF RInv, TypeOK
<1>2. order.payment # "unpaid"
  BY DEF Received
<1> QED
  BY <1>1, <1>2 DEF Received, RInv, PaidSound

\* Money sent back moves from what is owed to what was given back.
LEMMA RecordRefundKeeps ==
    ASSUME RInv, NEW amount \in 1..Total, RecordRefund(amount)
    PROVE  RInv'
<1> DEFINE payment == IF order.paid - order.refunded - amount <= 0 THEN "refunded" ELSE "partially_refunded"
           refund == IF order.due = amount THEN "Refunded" ELSE "ToRefund"
<1>1. /\ OrderFree /\ order.channel = "ONLINE" /\ order.refund = "ToRefund" /\ amount <= order.due
      /\ UNCHANGED <<returned, returns, raising>>
      /\ order' = [order EXCEPT !.refunded = order.refunded + amount, !.due = order.due - amount,
                                !.refund = refund, !.payment = payment]
  BY DEF RecordRefund
<1>2. order \in OrderType /\ Delivery \in Nat /\ Total \in Nat /\ Received \in Nat /\ amount \in Nat /\ amount > 0
  BY MoneyTypes DEF RInv, TypeOK
<1>3. payment \in {"refunded", "partially_refunded"} /\ refund = IF order.due = amount THEN "Refunded" ELSE "ToRefund"
  OBVIOUS
<1> HIDE DEF payment, refund
<1>4. /\ order'.channel = "ONLINE" /\ order'.status = order.status /\ order'.parcel = order.parcel
      /\ order'.payment = payment /\ order'.paid = order.paid /\ order'.refund = refund
      /\ order'.refunded = order.refunded + amount /\ order'.due = order.due - amount
  BY <1>1, <1>2 DEF OrderType
<1>5. order.refunded \in Nat /\ order.due \in Nat /\ order.due > 0 /\ order.refunded + order.due > 0
  BY <1>1, <1>2 DEF OrderType
<1>6. order' \in OrderType /\ order'.refunded + order'.due = order.refunded + order.due
  <2>1. order.refunded + amount \in Nat /\ order.due - amount \in Nat
    BY <1>1, <1>2, <1>5
  <2>2. order' \in OrderType
    BY <1>1, <1>2, <1>3, <2>1 DEF OrderType
  <2>3. order'.refunded + order'.due = order.refunded + order.due
    BY <1>2, <1>4, <1>5
  <2> QED
    BY <2>2, <2>3
<1>7. /\ NoUnitReturnedTwice' /\ RaisingSound' /\ SettledSound' /\ Pending' = Pending /\ Settled' = Settled
      /\ PendingRefunds' = PendingRefunds /\ Delivery' = Delivery /\ Total' = Total
      /\ \A n \in Returns : Worth(returns[n])' = Worth(returns[n])
  BY <1>1, <1>4, OrderOnly
<1>8. Received' = Received
  <2>1. order.refunded + order.due + PendingRefunds <= Received /\ PendingRefunds \in Nat
    BY MoneyTypes DEF RInv, PromisesCovered
  <2>2. Received = order.paid
    BY <1>2, <1>5, <2>1, PaidIsReceived
  <2> QED
    BY <1>3, <1>4, <2>2 DEF Received
<1>9. order.status \notin {"Pending", "Confirmed"}
  BY <1>5 DEF RInv, OrderSound
<1>10. TypeOK'
  BY <1>1, <1>6 DEF RInv, TypeOK
<1>11. PromisesCovered'
  BY <1>6, <1>7, <1>8 DEF RInv, PromisesCovered
<1>12. RefundsAreEarned'
  BY <1>1, <1>4, <1>6, <1>7 DEF RInv, RefundsAreEarned
<1>13. OrderSound'
  <2>1. OwedWhileDue'
    BY <1>1, <1>2, <1>3, <1>4, <1>5 DEF OwedWhileDue
  <2>2. StatusTellsReturned'
    BY <1>1, <1>4 DEF RInv, OrderSound, OrderTellsItsReturns, StatusTellsReturned
  <2> QED
    BY <1>1, <1>4, <1>9, <2>1, <2>2 DEF RInv, OrderSound, OrderTellsItsReturns
<1>14. PaidSound'
  <2>1. AtLeastZero(Received - Delivery)' = AtLeastZero(Received - Delivery)
    BY <1>7, <1>8
  <2>2. order'.payment # "paid" /\ order'.payment \notin {"unpaid", "partially_paid"}
    BY <1>3, <1>4
  <2>3. PaidSound
    BY DEF RInv
  <2>4. order'.paid <= Total'
    BY <1>4, <1>7, <2>3 DEF PaidSound
  <2>5. ASSUME order.status \in {"Delivered", "PartiallyReturned", "Returned"}
        PROVE  \/ order.parcel # "BackInShop" /\ order.paid = Total
               \/ order.parcel = "BackInShop" /\ order.refunded + order.due <= AtLeastZero(Received - Delivery)
    BY <1>1, <2>3, <2>5 DEF PaidSound
  <2>6. ASSUME order'.status \in {"Delivered", "PartiallyReturned", "Returned"}
        PROVE  \/ order'.parcel # "BackInShop" /\ order'.paid = Total' /\ order'.payment \notin {"unpaid", "partially_paid"}
               \/ order'.parcel = "BackInShop" /\ order'.refunded + order'.due <= AtLeastZero(Received - Delivery)'
    BY <1>4, <1>6, <1>7, <2>1, <2>2, <2>5, <2>6
  <2> QED
    BY <2>2, <2>4, <2>6 DEF PaidSound
<1>15. WaitingSound'
  <2>1. \A n \in Pending : returns[n].notDelivered = FALSE
    BY <1>9, MoneyTypes DEF RInv, WaitingSound, TypeOK, ReturnType
  <2> QED
    BY <1>1, <1>4, <1>7, <2>1, MoneyTypes DEF RInv, WaitingSound
<1> QED
  BY <1>7, <1>10, <1>11, <1>12, <1>13, <1>14, <1>15 DEF RInv

-----------------------------------------------------------------------------
(* Raising a return *)

\* While a return is being raised the order and the returns that stand already are as they were.
LEMMA RaiseOnly ==
    ASSUME RInv, UNCHANGED <<order, returned, returns>>
    PROVE  /\ NoUnitReturnedTwice' /\ PromisesCovered' /\ RefundsAreEarned' /\ OrderSound' /\ PaidSound'
           /\ WaitingSound' /\ SettledSound'
           /\ \A l \in Lines : PendingUnits(l)' = PendingUnits(l)
<1>1. Pending' = Pending /\ Settled' = Settled /\ Delivery' = Delivery
  BY DEF Pending, Settled, Delivery
<1>2. PendingRefunds' = PendingRefunds /\ \A l \in Lines : PendingUnits(l)' = PendingUnits(l)
  BY <1>1 DEF PendingRefunds, PendingUnits
<1>3. Total' = Total
  BY <1>1 DEF Total
<1>4. Received' = Received
  BY <1>3 DEF Received
<1>5. NoUnitReturnedTwice' /\ PromisesCovered' /\ RefundsAreEarned'
  BY <1>1, <1>2, <1>4 DEF RInv, NoUnitReturnedTwice, PromisesCovered, RefundsAreEarned
<1>6. OrderSound' /\ PaidSound'
  BY <1>1, <1>3, <1>4 DEF RInv, OrderSound, OrderTellsItsReturns, OwedWhileDue, StatusTellsReturned, PaidSound
<1>7. WaitingSound'
  BY <1>1, <1>4 DEF RInv, WaitingSound, Worth
<1>8. SettledSound'
  BY <1>1 DEF RInv, SettledSound
<1> QED
  BY <1>2, <1>5, <1>6, <1>7, <1>8

\* A return being raised asks for units that are on no other return.
LEMMA StartRaiseKeeps ==
    ASSUME RInv, NEW units \in Units, NEW withDelivery \in BOOLEAN, NEW notDelivered \in BOOLEAN,
           StartRaise(units, withDelivery, notDelivered), UNCHANGED order,
           notDelivered =>
             /\ order.status = "Confirmed" /\ order.parcel = "WithCourier"
             /\ units = Quantity /\ ~withDelivery /\ \A l \in Lines : Outstanding(l) = units[l],
           ~notDelivered => order.status \in Sold
    PROVE  RInv'
<1> DEFINE whole == \A l \in Lines : Outstanding(l) = units[l]
<1>1. /\ units # NoUnits /\ \A l \in Lines : units[l] <= Outstanding(l)
      /\ UNCHANGED <<order, returned, returns>>
  BY DEF StartRaise
<1>2. PICK n \in Returns :
        /\ returns[n].status = "None"
        /\ raising' = [nth |-> n, units |-> units, withDelivery |-> withDelivery, notDelivered |-> notDelivered, whole |-> whole]
  BY DEF StartRaise
<1>3. whole \in BOOLEAN
  OBVIOUS
<1>4. notDelivered => whole
  OBVIOUS
<1> HIDE DEF whole
<1>5. n \in 0..MaxReturns
  BY MoneyAssumption DEF Returns
<1>6. /\ raising'.nth = n /\ raising'.units = units /\ raising'.withDelivery = withDelivery
      /\ raising'.notDelivered = notDelivered /\ raising'.whole = whole
  BY <1>2
<1>7. TypeOK'
  <2>1. raising' \in [nth : 0..MaxReturns, units : Units, withDelivery : BOOLEAN, notDelivered : BOOLEAN, whole : BOOLEAN]
    BY <1>2, <1>3, <1>5
  <2> QED
    BY <1>1, <2>1 DEF RInv, TypeOK
<1>8. /\ NoUnitReturnedTwice' /\ PromisesCovered' /\ RefundsAreEarned' /\ OrderSound' /\ PaidSound'
      /\ WaitingSound' /\ SettledSound' /\ \A l \in Lines : PendingUnits(l)' = PendingUnits(l)
  BY <1>1, RaiseOnly
<1>9. ASSUME NEW l \in Lines
      PROVE  returned'[l] + PendingUnits(l)' + raising'.units[l] <= Quantity[l]
  <2>1. returned[l] \in Nat /\ PendingUnits(l) \in Nat /\ Quantity[l] \in Nat /\ units[l] \in Nat
    BY MoneyTypes, LinesAssumption DEF RInv, TypeOK, Units
  <2>2. units[l] <= Quantity[l] - returned[l] - PendingUnits(l)
    BY <1>1 DEF Outstanding
  <2> QED
    BY <1>1, <1>6, <1>8, <2>1, <2>2
<1>10. RaisingSound'
  BY <1>1, <1>2, <1>4, <1>6, <1>9 DEF RaisingSound
<1> QED
  BY <1>7, <1>8, <1>10 DEF RInv

\* What a customer brings back.
LEMMA CreateReturnKeeps ==
    ASSUME RInv, NEW units \in [Lines -> UNION {0..Quantity[l] : l \in Lines}], NEW withDelivery \in BOOLEAN,
           CreateReturn(units, withDelivery)
    PROVE  RInv'
<1>1. units \in Units
  <2>1. ASSUME NEW l \in Lines
        PROVE  units[l] \in Nat
    <3>1. PICK m \in Lines : units[l] \in 0..Quantity[m]
      OBVIOUS
    <3> QED
      BY <3>1, LinesAssumption
  <2> QED
    BY <2>1 DEF Units
<1>2. StartRaise(units, withDelivery, FALSE) /\ UNCHANGED order /\ order.status \in Sold
  BY DEF CreateReturn, Sold
<1> QED
  BY <1>1, <1>2, StartRaiseKeeps

\* An order the courier failed to hand over comes back whole, as nothing of it had come back.
LEMMA NotDeliveredKeeps ==
    ASSUME RInv, NotDelivered
    PROVE  RInv'
<1> DEFINE units == [l \in Lines |-> AtLeastZero(Outstanding(l))]
<1>1. order.status = "Confirmed" /\ order.parcel = "WithCourier" /\ StartRaise(units, FALSE, TRUE) /\ UNCHANGED order
  BY DEF NotDelivered
<1>2. Pending = {} /\ returned = NoUnits
  BY <1>1, NothingBackYet
<1>3. \A l \in Lines : PendingUnits(l) = 0
  BY <1>2, NoneWaiting DEF RInv
<1>4. \A l \in Lines : Outstanding(l) = Quantity[l] /\ AtLeastZero(Outstanding(l)) = Quantity[l]
  BY <1>2, <1>3, LinesAssumption DEF Outstanding, NoUnits, AtLeastZero
<1>5. units = Quantity
  BY <1>4, LinesAssumption
<1> HIDE DEF units
<1>6. units \in Units
  BY <1>5, NoValue
<1>7. \A l \in Lines : Outstanding(l) = units[l]
  BY <1>4, <1>5
<1> QED
  BY <1>1, <1>5, <1>6, <1>7, StartRaiseKeeps

\* A return that is given up leaves nothing behind.
LEMMA DropRaiseKeeps ==
    ASSUME RInv, DropRaise
    PROVE  RInv'
<1>1. raising' = NotRaising /\ UNCHANGED <<order, returned, returns>>
  BY DEF DropRaise
<1>2. NotRaising \in [nth : 0..MaxReturns, units : Units, withDelivery : BOOLEAN, notDelivered : BOOLEAN, whole : BOOLEAN]
  BY NoValue, MoneyAssumption DEF NotRaising
<1>3. TypeOK' /\ RaisingSound'
  BY <1>1, <1>2 DEF RInv, TypeOK, RaisingSound, OrderFree
<1> QED
  BY <1>1, <1>3, RaiseOnly DEF RInv

\* Money is received, and the delivery charge paid, as the order says, wherever its parcel is.
LEMMA SameMoney ==
    ASSUME order'.channel = order.channel, order'.payment = order.payment, order'.paid = order.paid
    PROVE  Delivery' = Delivery /\ Total' = Total /\ Received' = Received
<1>1. Delivery' = Delivery
  BY DEF Delivery
<1>2. Total' = Total
  BY <1>1 DEF Total
<1> QED
  BY <1>1, <1>2 DEF Received

\* What a return is raised with is worth it, and covered by money nothing else is promised from.
LEMMA RefundFits ==
    ASSUME RInv, ~OrderFree
    PROVE  /\ RefundOf(raising) \in Nat
           /\ RefundOf(raising) <= Worth(raising)
           /\ order.refunded + order.due + PendingRefunds + RefundOf(raising) <= Received
           /\ raising.notDelivered => RefundOf(raising) <= AtLeastZero(Received - Delivery)
<1> DEFINE kept == IF raising.whole /\ ~raising.withDelivery THEN Delivery ELSE 0
           left == Received - order.refunded - order.due - PendingRefunds
<1>1. /\ order.refunded \in Nat /\ order.due \in Nat /\ PendingRefunds \in Nat /\ Received \in Nat /\ Delivery \in Nat
      /\ order.refunded + order.due + PendingRefunds <= Received
  BY MoneyTypes DEF RInv, TypeOK, OrderType, PromisesCovered
<1>2. Worth(raising) \in Nat
  <2>1. ValueOf(raising.units) \in Nat
    BY ValueType DEF RInv, TypeOK
  <2> QED
    BY <1>1, <2>1 DEF Worth
<1>3. kept \in Nat /\ left \in Nat
  BY <1>1
<1>4. Refundable(PendingRefunds) = left
  BY <1>3 DEF Refundable, AtLeastZero
<1>5. RefundOf(raising) = Least(Worth(raising), AtLeastZero(left - kept))
  BY <1>4 DEF RefundOf, Worth
<1>6. raising.notDelivered => kept = Delivery /\ left = Received
  <2>1. ASSUME raising.notDelivered
        PROVE  raising.whole /\ ~raising.withDelivery /\ order.status = "Confirmed" /\ order.parcel = "WithCourier"
    BY <2>1 DEF RInv, RaisingSound
  <2>2. ASSUME raising.notDelivered
        PROVE  PendingRefunds = 0 /\ order.refunded = 0 /\ order.due = 0
    BY <2>1, <2>2, NothingBackYet
  <2> QED
    BY <1>1, <2>1, <2>2
<1> HIDE DEF kept
<1>7. AtLeastZero(left - kept) \in Nat /\ AtLeastZero(left - kept) <= left
  BY <1>3 DEF AtLeastZero
<1>8. /\ RefundOf(raising) \in Nat /\ RefundOf(raising) <= Worth(raising) /\ RefundOf(raising) <= left
      /\ RefundOf(raising) <= AtLeastZero(left - kept)
  BY <1>2, <1>3, <1>5, <1>7 DEF Least
<1>9. order.refunded + order.due + PendingRefunds + RefundOf(raising) <= Received
  BY <1>1, <1>8
<1> QED
  BY <1>6, <1>8, <1>9

\* A return starts to wait with its units and a refund that fits, although others may have been
\* cancelled since its units were read.
LEMMA FinishRaiseKeeps ==
    ASSUME RInv, FinishRaise
    PROVE  RInv'
<1>0. PICK n \in Returns : n = raising.nth
  BY DEF RInv, RaisingSound, FinishRaise
<1> DEFINE r == [status |-> "Pending", units |-> raising.units, refund |-> RefundOf(raising),
                 withDelivery |-> raising.withDelivery, notDelivered |-> raising.notDelivered]
<1>1. /\ ~OrderFree /\ returns' = [returns EXCEPT ![n] = r] /\ raising' = NotRaising /\ returned' = returned
      /\ order' = IF raising.notDelivered THEN [order EXCEPT !.parcel = "Failed"] ELSE order
  BY <1>0 DEF FinishRaise
<1>2. /\ returns[n].status = "None" /\ raising.units # NoUnits
      /\ \A l \in Lines : returned[l] + PendingUnits(l) + raising.units[l] <= Quantity[l]
      /\ raising.notDelivered =>
           /\ order.status = "Confirmed" /\ order.parcel = "WithCourier"
           /\ raising.units = Quantity /\ ~raising.withDelivery
      /\ ~raising.notDelivered => order.status \in Sold
  BY <1>0, <1>1 DEF RInv, RaisingSound
<1>3. /\ order \in OrderType /\ returned \in Units /\ returns \in [Returns -> ReturnType]
      /\ raising.units \in Units /\ raising.withDelivery \in BOOLEAN /\ raising.notDelivered \in BOOLEAN
  BY DEF RInv, TypeOK
<1>4. /\ RefundOf(raising) \in Nat /\ RefundOf(raising) <= Worth(raising)
      /\ order.refunded + order.due + PendingRefunds + RefundOf(raising) <= Received
      /\ raising.notDelivered => RefundOf(raising) <= AtLeastZero(Received - Delivery)
  BY <1>1, RefundFits
<1>5. r \in ReturnType /\ r.status = "Pending" /\ r.units = raising.units /\ r.refund = RefundOf(raising)
      /\ r.withDelivery = raising.withDelivery /\ r.notDelivered = raising.notDelivered
  BY <1>3, <1>4 DEF ReturnType
<1> HIDE DEF r
<1>6. /\ order' \in OrderType /\ order'.channel = order.channel /\ order'.status = order.status
      /\ order'.payment = order.payment /\ order'.paid = order.paid /\ order'.refunded = order.refunded
      /\ order'.due = order.due /\ order'.refund = order.refund
      /\ order'.parcel = IF raising.notDelivered THEN "Failed" ELSE order.parcel
  BY <1>1, <1>3 DEF OrderType
<1>7. returns' \in [Returns -> ReturnType] /\ returns'[n] = r /\ \A m \in Returns \ {n} : returns'[m] = returns[m]
  BY <1>1, <1>2, <1>3, <1>5
<1>8. n \notin Pending /\ Pending' = Pending \cup {n} /\ Settled' = Settled /\ n \notin Settled
  BY <1>2, <1>5, <1>7 DEF Pending, Settled
<1>9. TypeOK'
  <2>1. NotRaising \in [nth : 0..MaxReturns, units : Units, withDelivery : BOOLEAN, notDelivered : BOOLEAN, whole : BOOLEAN]
    BY NoValue, MoneyAssumption DEF NotRaising
  <2> QED
    BY <1>1, <1>3, <1>6, <1>7, <2>1 DEF TypeOK
<1>10. Delivery' = Delivery /\ Total' = Total /\ Received' = Received
  BY <1>6, SameMoney
<1>11. /\ PendingRefunds' = PendingRefunds + r.refund
       /\ \A l \in Lines : PendingUnits(l)' = PendingUnits(l) + r.units[l]
  <2>1. \A m \in Pending : returns'[m] = returns[m]
    BY <1>7, <1>8 DEF Pending
  <2>2. /\ PendingRefunds' = PendingRefunds + returns'[n].refund
        /\ \A l \in Lines : PendingUnits(l)' = PendingUnits(l) + returns'[n].units[l]
    BY <1>2, <1>8, <1>9, <2>1, OneMoreWaits DEF RInv
  <2> QED
    BY <1>7, <2>2
<1>12. NoUnitReturnedTwice'
  <2>1. ASSUME NEW l \in Lines
        PROVE  returned'[l] + PendingUnits(l)' <= Quantity[l]
    <3>1. returned[l] \in Nat /\ PendingUnits(l) \in Nat /\ Quantity[l] \in Nat /\ raising.units[l] \in Nat
      BY <1>3, MoneyTypes, LinesAssumption DEF RInv, Units
    <3> QED
      BY <1>1, <1>2, <1>5, <1>11, <3>1
  <2> QED
    BY <2>1 DEF NoUnitReturnedTwice
<1>13. PromisesCovered'
  <2>1. order.refunded \in Nat /\ order.due \in Nat /\ PendingRefunds \in Nat /\ Received \in Nat
    BY <1>3, MoneyTypes DEF RInv, OrderType
  <2> QED
    BY <1>4, <1>5, <1>6, <1>10, <1>11, <2>1 DEF PromisesCovered
<1>14. \A m \in Settled : returns'[m] = returns[m]
  BY <1>7, <1>8 DEF Settled
<1>15. RefundsAreEarned'
  BY <1>1, <1>6, <1>8, <1>10, <1>14 DEF RInv, RefundsAreEarned
<1>16. OrderSound'
  <2>1. OrderTellsItsReturns'
    BY <1>1, <1>6 DEF RInv, OrderSound, OrderTellsItsReturns, OwedWhileDue, StatusTellsReturned
  <2> QED
    BY <1>6, <2>1 DEF RInv, OrderSound
<1>17. PaidSound'
  <2>1. CASE raising.notDelivered
    BY <1>2, <1>6, <1>10, <2>1 DEF RInv, PaidSound
  <2>2. CASE ~raising.notDelivered
    <3>1. order' = order
      BY <1>1, <2>2
    <3> QED
      BY <1>10, <3>1 DEF RInv, PaidSound
  <2> QED
    BY <2>1, <2>2
<1>18. WaitingSound'
  <2>1. AtLeastZero(Received - Delivery)' = AtLeastZero(Received - Delivery)
    BY <1>10
  <2>2. ASSUME NEW m \in Pending
        PROVE  /\ returns'[m] = returns[m] /\ Worth(returns[m])' = Worth(returns[m])
               /\ raising.notDelivered => returns[m].notDelivered
    <3>1. returns'[m] = returns[m]
      BY <1>7, <1>8 DEF Pending
    <3>2. Worth(returns[m])' = Worth(returns[m])
      BY <1>10, <3>1 DEF Worth
    <3>3. returns[m].notDelivered \in BOOLEAN
      BY <1>3 DEF Pending, ReturnType
    <3> QED
      BY <1>2, <3>1, <3>2, <3>3 DEF RInv, WaitingSound, Sold
  <2>3. Worth(returns[n])' = Worth(raising)
    BY <1>5, <1>7, <1>10 DEF Worth
  <2>4. ASSUME NEW m \in Pending
        PROVE  /\ returns'[m].units # NoUnits
               /\ returns'[m].refund <= Worth(returns[m])'
               /\ returns'[m].notDelivered =>
                    /\ order'.status = "Confirmed" /\ order'.parcel = "Failed"
                    /\ returns'[m].units = Quantity /\ ~returns'[m].withDelivery
                    /\ returns'[m].refund <= AtLeastZero(Received - Delivery)'
               /\ ~returns'[m].notDelivered => order'.status \in Sold \cup {"Returned"}
    BY <1>6, <2>1, <2>2 DEF RInv, WaitingSound
  <2>5. /\ returns'[n].units # NoUnits
        /\ returns'[n].refund <= Worth(returns[n])'
        /\ returns'[n].notDelivered =>
             /\ order'.status = "Confirmed" /\ order'.parcel = "Failed"
             /\ returns'[n].units = Quantity /\ ~returns'[n].withDelivery
             /\ returns'[n].refund <= AtLeastZero(Received - Delivery)'
        /\ ~returns'[n].notDelivered => order'.status \in Sold \cup {"Returned"}
    BY <1>2, <1>4, <1>5, <1>6, <1>7, <2>1, <2>3
  <2> QED
    BY <1>8, <2>4, <2>5 DEF WaitingSound
<1>19. RaisingSound'
  BY <1>1 DEF RaisingSound, OrderFree
<1>20. SettledSound'
  BY <1>1, <1>8, <1>14 DEF RInv, SettledSound
<1> QED
  BY <1>9, <1>12, <1>13, <1>15, <1>16, <1>17, <1>18, <1>19, <1>20 DEF RInv

-----------------------------------------------------------------------------
(* Confirming and cancelling a return *)

\* A return that waits holds units of its own, so not all of the order has come back.
LEMMA NotAllBack ==
    ASSUME RInv, NEW n \in Pending
    PROVE  /\ returned # Quantity
           /\ \E l \in Lines : returns[n].units[l] > 0
<1>1. n \in Returns /\ returns[n].units \in Units /\ returns[n].units # NoUnits /\ returned \in Units
  BY DEF Pending, RInv, TypeOK, ReturnType, WaitingSound
<1>2. PICK l \in Lines : returns[n].units[l] # 0
  BY <1>1 DEF Units, NoUnits
<1>3. returns[n].units[l] \in Nat /\ returns[n].units[l] > 0
  BY <1>1, <1>2 DEF Units
<1>4. returns[n].units[l] <= PendingUnits(l)
  BY WaitingApart DEF RInv
<1>5. returned[l] + PendingUnits(l) <= Quantity[l]
  BY DEF RInv, NoUnitReturnedTwice
<1>6. PendingUnits(l) \in Nat /\ returned[l] \in Nat /\ Quantity[l] \in Nat
  BY <1>1, MoneyTypes, LinesAssumption DEF RInv, Units
<1>7. returned[l] # Quantity[l]
  BY <1>3, <1>4, <1>5, <1>6
<1> QED
  BY <1>3, <1>7

\* A return for a parcel that never arrived holds the whole order, so it waits alone.
LEMMA NotDeliveredAlone ==
    ASSUME RInv, NEW n \in Pending, returns[n].notDelivered
    PROVE  Pending = {n} /\ returned = NoUnits /\ order.refunded = 0 /\ order.due = 0
<1>1. order.status = "Confirmed" /\ returns[n].units = Quantity
  BY DEF RInv, WaitingSound
<1>2. returned = NoUnits /\ order.refunded = 0 /\ order.due = 0
  BY <1>1 DEF RInv, OrderSound, OrderTellsItsReturns, StatusTellsReturned
<1>3. ASSUME NEW m \in Pending, m # n
      PROVE  FALSE
  <2>1. PICK l \in Lines : returns[m].units[l] > 0
    BY NotAllBack
  <2>2. returns[n].units[l] + returns[m].units[l] <= PendingUnits(l)
    BY <1>3, WaitingApart DEF RInv
  <2>3. returned[l] + PendingUnits(l) <= Quantity[l]
    BY DEF RInv, NoUnitReturnedTwice
  <2>4. returns[m].units[l] \in Nat /\ PendingUnits(l) \in Nat /\ Quantity[l] \in Nat /\ returned[l] = 0
    BY <1>2, MoneyTypes, LinesAssumption DEF RInv, TypeOK, ReturnType, Units, Pending, NoUnits
  <2> QED
    BY <1>1, <2>1, <2>2, <2>3, <2>4
<1> QED
  BY <1>2, <1>3

\* A return that settles moves its refund from what is promised to what was given back or is owed.
LEMMA ConfirmMovesMoney ==
    ASSUME RInv, NEW n \in Pending, ConfirmReturn(n),
           NEW back, back = [l \in Lines |-> returned[l] + returns[n].units[l]],
           NEW refund, refund = Least(returns[n].refund, Refundable(0))
    PROVE  /\ refund \in Nat /\ refund <= returns[n].refund
           /\ order' \in OrderType /\ order'.channel = order.channel /\ order'.paid = order.paid
           /\ order'.status = (IF AllBack(back) THEN "Returned" ELSE "PartiallyReturned")
           /\ order'.parcel = (IF returns[n].notDelivered THEN "BackInShop" ELSE order.parcel)
           /\ order'.refunded + order'.due = order.refunded + order.due + refund
           /\ Delivery' = Delivery /\ Total' = Total /\ Received' = Received
           /\ OwedWhileDue'
           /\ order.channel = "POS" => order'.due = 0
           /\ order'.payment = "paid" => order.payment = "paid"
           /\ order.channel = "ONLINE" => order'.payment = order.payment
<1> DEFINE r == returns[n]
           moved == [order EXCEPT !.status = IF AllBack(back) THEN "Returned" ELSE "PartiallyReturned",
                                  !.parcel = IF r.notDelivered THEN "BackInShop" ELSE order.parcel]
           payment == IF order.paid - order.refunded - refund <= 0 THEN "refunded" ELSE "partially_refunded"
<1>1. order' =
        CASE refund = 0 -> moved
          [] refund > 0 /\ order.channel = "POS" ->
                [moved EXCEPT !.refunded = order.refunded + refund, !.refund = "Refunded", !.payment = payment]
          [] OTHER -> [moved EXCEPT !.due = order.due + refund, !.refund = "ToRefund"]
  BY DEF ConfirmReturn, OrderType, RInv, TypeOK
<1>2. /\ order \in OrderType /\ order.refunded \in Nat /\ order.due \in Nat /\ order.paid \in Nat /\ Received \in Nat
      /\ n \in Returns /\ r.refund \in Nat /\ r.notDelivered \in BOOLEAN
  BY MoneyTypes DEF RInv, TypeOK, OrderType, ReturnType, Pending
<1>3. Refundable(0) \in Nat /\ Refundable(0) <= Received
  BY <1>2 DEF Refundable, AtLeastZero
<1>4. refund \in Nat /\ refund <= r.refund /\ refund <= Received
  BY <1>2, <1>3 DEF Least
<1>5. payment \in {"refunded", "partially_refunded"}
  OBVIOUS
<1> HIDE DEF payment
<1>6. /\ moved \in OrderType /\ moved.channel = order.channel /\ moved.paid = order.paid /\ moved.payment = order.payment
      /\ moved.refunded = order.refunded /\ moved.due = order.due /\ moved.refund = order.refund
      /\ moved.status = (IF AllBack(back) THEN "Returned" ELSE "PartiallyReturned")
      /\ moved.parcel = (IF r.notDelivered THEN "BackInShop" ELSE order.parcel)
  BY <1>2 DEF OrderType
<1> HIDE DEF moved
<1>7. OwedWhileDue /\ (order.channel = "POS" => order.due = 0)
  BY DEF RInv, OrderSound, OrderTellsItsReturns
<1> DEFINE Goal ==
        /\ order' \in OrderType /\ order'.channel = order.channel /\ order'.paid = order.paid
        /\ order'.status = moved.status /\ order'.parcel = moved.parcel
        /\ order'.refunded + order'.due = order.refunded + order.due + refund
        /\ Received' = Received /\ OwedWhileDue'
        /\ order.channel = "POS" => order'.due = 0
        /\ order'.payment = "paid" => order.payment = "paid"
        /\ order.channel = "ONLINE" => order'.payment = order.payment
<1>8. ASSUME refund = 0
     PROVE  Goal
  <2>1. order' = moved
    BY <1>1, <1>8
  <2>2. Received' = Received
    BY <1>6, <2>1, SameMoney
  <2>3. OwedWhileDue'
    BY <1>6, <1>7, <2>1 DEF OwedWhileDue
  <2> QED
    BY <1>2, <1>6, <1>7, <1>8, <2>1, <2>2, <2>3
<1>9. ASSUME refund > 0 /\ order.channel = "POS"
     PROVE  Goal
  <2>1. order' = [moved EXCEPT !.refunded = order.refunded + refund, !.refund = "Refunded", !.payment = payment]
    BY <1>1, <1>4, <1>9
  <2>2. order.refunded + refund \in Nat
    BY <1>2, <1>4
  <2>3. /\ order' \in OrderType /\ order'.channel = order.channel /\ order'.paid = order.paid
        /\ order'.status = moved.status /\ order'.parcel = moved.parcel /\ order'.payment = payment
        /\ order'.refunded = order.refunded + refund /\ order'.due = order.due /\ order'.refund = "Refunded"
    BY <1>5, <1>6, <2>1, <2>2 DEF OrderType
  <2>4. Received = order.paid
    BY <1>2, <1>4, <1>9, PaidIsReceived
  <2>5. Received' = Received
    BY <1>5, <2>3, <2>4 DEF Received
  <2>6. OwedWhileDue'
    BY <1>7, <1>9, <2>3 DEF OwedWhileDue
  <2>7. order'.refunded + order'.due = order.refunded + order.due + refund
    BY <1>2, <1>4, <2>3
  <2> QED
    BY <1>5, <1>7, <1>9, <2>3, <2>5, <2>6, <2>7
<1>10. ASSUME refund > 0 /\ order.channel # "POS"
      PROVE  Goal
  <2>1. order' = [moved EXCEPT !.due = order.due + refund, !.refund = "ToRefund"]
    BY <1>1, <1>4, <1>10
  <2>2. order.due + refund \in Nat /\ order.due + refund > 0
    BY <1>2, <1>4, <1>10
  <2>3. /\ order' \in OrderType /\ order'.channel = order.channel /\ order'.paid = order.paid
        /\ order'.status = moved.status /\ order'.parcel = moved.parcel /\ order'.payment = order.payment
        /\ order'.refunded = order.refunded /\ order'.due = order.due + refund /\ order'.refund = "ToRefund"
    BY <1>6, <2>1, <2>2 DEF OrderType
  <2>4. Received' = Received
    BY <2>3, SameMoney
  <2>5. OwedWhileDue'
    BY <2>2, <2>3 DEF OwedWhileDue
  <2>6. order'.refunded + order'.due = order.refunded + order.due + refund
    BY <1>2, <1>4, <2>3
  <2> QED
    BY <1>10, <2>3, <2>4, <2>5, <2>6
<1>11. Goal
  BY <1>4, <1>8, <1>9, <1>10
<1>12. Delivery' = Delivery /\ Total' = Total
  <2>1. Delivery' = Delivery
    BY <1>11 DEF Delivery
  <2> QED
    BY <2>1 DEF Total
<1> QED
  BY <1>4, <1>6, <1>11, <1>12

\* What the return held and promised has come back and is given back, and when that completes the
\* order the delivery charge goes with it or stays.
LEMMA ConfirmReturnKeeps ==
    ASSUME RInv, NEW n \in Returns, ConfirmReturn(n)
    PROVE  RInv'
<1> DEFINE r == returns[n]
<1>1. PICK back : back = [l \in Lines |-> returned[l] + r.units[l]]
  OBVIOUS
<1>2. PICK refund : refund = Least(r.refund, Refundable(0))
  OBVIOUS
<1>3. /\ OrderFree /\ r.status = "Pending" /\ UNCHANGED raising
      /\ IF r.notDelivered THEN order.status = "Confirmed" /\ order.parcel = "Failed" ELSE order.status \in Sold
      /\ Confirmable(r, back) /\ returned' = back
      /\ returns' = [returns EXCEPT ![n].status = "Returned", ![n].refund = refund]
  BY <1>1, <1>2 DEF ConfirmReturn, Sold
<1>4. n \in Pending
  BY <1>3 DEF Pending
<1>5. /\ refund \in Nat /\ refund <= r.refund
      /\ order' \in OrderType /\ order'.channel = order.channel /\ order'.paid = order.paid
      /\ order'.status = (IF AllBack(back) THEN "Returned" ELSE "PartiallyReturned")
      /\ order'.parcel = (IF r.notDelivered THEN "BackInShop" ELSE order.parcel)
      /\ order'.refunded + order'.due = order.refunded + order.due + refund
      /\ Delivery' = Delivery /\ Total' = Total /\ Received' = Received
      /\ OwedWhileDue'
      /\ order.channel = "POS" => order'.due = 0
      /\ order'.payment = "paid" => order.payment = "paid"
      /\ order.channel = "ONLINE" => order'.payment = order.payment
  BY <1>1, <1>2, <1>4, ConfirmMovesMoney
<1>6. /\ order \in OrderType /\ returned \in Units /\ returns \in [Returns -> ReturnType] /\ r \in ReturnType
      /\ order.refunded \in Nat /\ order.due \in Nat /\ Received \in Nat /\ Delivery \in Nat
      /\ r.units \in Units /\ r.refund \in Nat
  BY MoneyTypes DEF RInv, TypeOK, OrderType, ReturnType
<1>7. back \in Units
  BY <1>1, <1>6 DEF Units
<1>8. /\ returns' \in [Returns -> ReturnType]
      /\ returns'[n].status = "Returned" /\ returns'[n].withDelivery = r.withDelivery /\ returns'[n].refund = refund
      /\ \A m \in Returns \ {n} : returns'[m] = returns[m]
  BY <1>3, <1>5, <1>6 DEF ReturnType
<1> HIDE DEF r
<1>9. Pending' = Pending \ {n} /\ Settled' = Settled \cup {n}
  BY <1>8 DEF Pending, Settled
<1>10. \A m \in Pending \ {n} : returns'[m] = returns[m] /\ Worth(returns[m])' = Worth(returns[m])
  BY <1>5, <1>8 DEF Pending, Worth
<1>11. \A m \in Settled : returns'[m] = returns[m] /\ m # n
  BY <1>3, <1>8 DEF Settled, r
<1>12. TypeOK'
  BY <1>3, <1>5, <1>7, <1>8 DEF RInv, TypeOK
<1>13. /\ PendingRefunds' \in Nat /\ PendingRefunds = PendingRefunds' + r.refund
       /\ \A l \in Lines : PendingUnits(l)' \in Nat /\ PendingUnits(l) = PendingUnits(l)' + r.units[l]
  BY <1>4, <1>9, <1>10, <1>12, OneLessWaits DEF RInv, r
<1>14. NoUnitReturnedTwice'
  <2>1. ASSUME NEW l \in Lines
        PROVE  returned'[l] + PendingUnits(l)' <= Quantity[l]
    <3>1. returned[l] \in Nat /\ Quantity[l] \in Nat /\ r.units[l] \in Nat /\ PendingUnits(l)' \in Nat
      BY <1>6, <1>13, LinesAssumption DEF Units
    <3>2. returned'[l] = returned[l] + r.units[l]
      BY <1>1, <1>3
    <3>3. returned[l] + PendingUnits(l) <= Quantity[l]
      BY DEF RInv, NoUnitReturnedTwice
    <3> QED
      BY <1>13, <3>1, <3>2, <3>3
  <2> QED
    BY <2>1 DEF NoUnitReturnedTwice
<1>15. PromisesCovered'
  <2>1. order.refunded + order.due + PendingRefunds <= Received
    BY DEF RInv, PromisesCovered
  <2>2. order'.refunded + order'.due + PendingRefunds' <= Received'
    BY <1>5, <1>6, <1>13, <2>1
  <2> QED
    BY <2>2 DEF PromisesCovered
<1>16. AllBack(back) <=> back = Quantity
  BY <1>7, NoValue DEF AllBack, Units
<1>17. returned # Quantity /\ \E l \in Lines : r.units[l] > 0
  BY <1>4, NotAllBack DEF r
<1>18. \A m \in Settled : ~returns[m].withDelivery
  BY <1>17 DEF RInv, SettledSound
<1>19. (\E m \in Settled' : returns'[m].withDelivery) <=> r.withDelivery
  BY <1>8, <1>9, <1>11, <1>18
<1>20. r.refund <= Worth(r)
  BY <1>4 DEF RInv, WaitingSound, r
<1>21. order.refunded + order.due <= ValueOf(returned)
  <2>1. order.status # "Cancelled"
    BY <1>3 DEF Sold
  <2> QED
    BY <1>6, <1>18, <2>1, MoneyTypes DEF RInv, RefundsAreEarned
<1>22. RefundsAreEarned'
  <2>1. ValueOf(back) = ValueOf(returned) + ValueOf(r.units)
    BY <1>1, <1>6, <1>7, ValueAdds
  <2>2. ValueOf(returned) \in Nat /\ ValueOf(r.units) \in Nat
    BY <1>6, ValueType
  <2>3. order'.refunded + order'.due <= ValueOf(back) + (IF r.withDelivery THEN Delivery ELSE 0)
    BY <1>5, <1>6, <1>20, <1>21, <2>1, <2>2 DEF Worth
  <2>4. ValueOf(returned)' = ValueOf(back)
    BY <1>3
  <2> QED
    BY <1>5, <1>19, <2>3, <2>4 DEF RefundsAreEarned
<1>23. r.notDelivered => Pending = {n} /\ returned = NoUnits /\ order.refunded = 0 /\ order.due = 0
  BY <1>4, NotDeliveredAlone DEF r
<1>24. r.notDelivered => AllBack(back)
  <2>1. ASSUME r.notDelivered
        PROVE  r.units = Quantity
    BY <1>4, <2>1 DEF RInv, WaitingSound, r
  <2> QED
    BY <1>1, <1>23, <2>1, LinesAssumption DEF AllBack, NoUnits, r
<1>25. ~r.notDelivered => order.parcel # "BackInShop"
  BY <1>3 DEF RInv, OrderSound, Sold
<1>26. StatusTellsReturned'
  <2>1. back # NoUnits
    <3>1. PICK l \in Lines : r.units[l] > 0
      BY <1>17
    <3>2. back[l] > 0
      BY <1>1, <1>6, <3>1 DEF Units, r
    <3> QED
      BY <3>2 DEF NoUnits
  <2> QED
    BY <1>3, <1>5, <1>16, <2>1 DEF StatusTellsReturned
<1>27. OrderSound'
  BY <1>5, <1>24, <1>25, <1>26 DEF OrderSound, OrderTellsItsReturns
<1>28. PaidSound'
  <2>1. order'.paid <= Total' /\ (order'.payment = "paid" => order'.paid = Total')
    BY <1>5 DEF RInv, PaidSound
  <2>2. ASSUME r.notDelivered
        PROVE  order'.parcel = "BackInShop" /\ order'.refunded + order'.due <= AtLeastZero(Received - Delivery)'
    <3>1. r.refund <= AtLeastZero(Received - Delivery)
      BY <1>4, <2>2 DEF RInv, WaitingSound, r
    <3>2. AtLeastZero(Received - Delivery)' = AtLeastZero(Received - Delivery)
      BY <1>5
    <3>3. AtLeastZero(Received - Delivery) \in Nat
      BY <1>6 DEF AtLeastZero
    <3> QED
      BY <1>5, <1>6, <1>23, <2>2, <3>1, <3>2, <3>3
  <2>3. ASSUME ~r.notDelivered, order'.channel = "ONLINE"
        PROVE  order'.parcel # "BackInShop" /\ order'.paid = Total' /\ order'.payment \notin {"unpaid", "partially_paid"}
    <3>1. order.status \in {"Delivered", "PartiallyReturned"} /\ order.channel = "ONLINE"
      BY <1>3, <1>5, <2>3 DEF Sold, RInv, OrderSound
    <3> QED
      BY <1>5, <1>25, <2>3, <3>1 DEF RInv, PaidSound
  <2> QED
    BY <2>1, <2>2, <2>3 DEF PaidSound
<1>29. WaitingSound'
  <2>1. ASSUME NEW m \in Pending \ {n}
        PROVE  ~returns[m].notDelivered
    BY <1>4, <2>1, NotDeliveredAlone
  <2>2. order'.status \in Sold \cup {"Returned"}
    BY <1>5 DEF Sold
  <2>3. \A m \in Pending \ {n} : returns[m].units # NoUnits /\ returns[m].refund <= Worth(returns[m])
    BY DEF RInv, WaitingSound
  <2> QED
    BY <1>9, <1>10, <2>1, <2>2, <2>3 DEF WaitingSound
<1>30. RaisingSound'
  BY <1>3 DEF RaisingSound, OrderFree
<1>31. SettledSound'
  <2>1. r.withDelivery => returned' = Quantity
    BY <1>3, <1>16 DEF Confirmable
  <2> QED
    BY <1>8, <1>9, <1>11, <1>18, <2>1 DEF SettledSound
<1> QED
  BY <1>12, <1>14, <1>15, <1>22, <1>27, <1>28, <1>29, <1>30, <1>31 DEF RInv

\* A return cancelled while another one is raised only frees units and money.
LEMMA CancelReturnKeeps ==
    ASSUME RInv, NEW n \in Returns, CancelReturn(n)
    PROVE  RInv'
<1> DEFINE r == returns[n]
<1>1. /\ r.status = "Pending" /\ UNCHANGED <<returned, raising>>
      /\ returns' = [returns EXCEPT ![n].status = "Cancelled"]
      /\ order' = IF r.notDelivered /\ order.parcel = "Failed" THEN [order EXCEPT !.parcel = "WithCourier"] ELSE order
  BY DEF CancelReturn
<1>2. n \in Pending
  BY <1>1 DEF Pending
<1>3. order \in OrderType /\ returns \in [Returns -> ReturnType] /\ r \in ReturnType /\ r.units \in Units /\ r.refund \in Nat
  BY DEF RInv, TypeOK, ReturnType
<1>4. returns' \in [Returns -> ReturnType] /\ returns'[n].status = "Cancelled" /\ \A m \in Returns \ {n} : returns'[m] = returns[m]
  BY <1>1, <1>3 DEF ReturnType
<1>5. /\ order' \in OrderType /\ order'.channel = order.channel /\ order'.status = order.status
      /\ order'.payment = order.payment /\ order'.paid = order.paid /\ order'.refunded = order.refunded
      /\ order'.due = order.due /\ order'.refund = order.refund
      /\ order'.parcel = (IF r.notDelivered /\ order.parcel = "Failed" THEN "WithCourier" ELSE order.parcel)
  BY <1>1, <1>3 DEF OrderType
<1> HIDE DEF r
<1>6. Pending' = Pending \ {n} /\ Settled' = Settled
  BY <1>1, <1>4 DEF Pending, Settled, r
<1>7. TypeOK'
  BY <1>1, <1>4, <1>5 DEF RInv, TypeOK
<1>8. Delivery' = Delivery /\ Total' = Total /\ Received' = Received
  BY <1>5, SameMoney
<1>9. \A m \in Pending \ {n} : returns'[m] = returns[m] /\ Worth(returns[m])' = Worth(returns[m])
  BY <1>4, <1>8 DEF Pending, Worth
<1>10. /\ PendingRefunds' \in Nat /\ PendingRefunds = PendingRefunds' + r.refund
       /\ \A l \in Lines : PendingUnits(l)' \in Nat /\ PendingUnits(l) = PendingUnits(l)' + r.units[l]
  BY <1>2, <1>6, <1>7, <1>9, OneLessWaits DEF RInv, r
<1>11. PendingRefunds' <= PendingRefunds
  BY <1>3, <1>10
<1>12. ASSUME NEW l \in Lines
       PROVE  PendingUnits(l)' <= PendingUnits(l)
  BY <1>3, <1>10 DEF Units
<1>13. NoUnitReturnedTwice'
  <2>1. ASSUME NEW l \in Lines
        PROVE  returned'[l] + PendingUnits(l)' <= Quantity[l]
    <3>1. returned[l] \in Nat /\ Quantity[l] \in Nat /\ PendingUnits(l)' \in Nat /\ PendingUnits(l) \in Nat
      BY <1>10, LinesAssumption, MoneyTypes DEF RInv, TypeOK, Units
    <3>2. returned[l] + PendingUnits(l) <= Quantity[l]
      BY DEF RInv, NoUnitReturnedTwice
    <3> QED
      BY <1>1, <1>12, <3>1, <3>2
  <2> QED
    BY <2>1 DEF NoUnitReturnedTwice
<1>14. PromisesCovered'
  <2>1. /\ order.refunded + order.due + PendingRefunds <= Received
        /\ order.refunded \in Nat /\ order.due \in Nat /\ Received \in Nat /\ PendingRefunds \in Nat
    BY <1>3, MoneyTypes DEF RInv, PromisesCovered, OrderType
  <2>2. order'.refunded + order'.due + PendingRefunds' <= Received'
    BY <1>5, <1>8, <1>10, <1>11, <2>1
  <2> QED
    BY <2>2 DEF PromisesCovered
<1>15. \A m \in Settled : returns'[m] = returns[m]
  BY <1>1, <1>4 DEF Settled, r
<1>16. RefundsAreEarned'
  BY <1>1, <1>5, <1>6, <1>8, <1>15 DEF RInv, RefundsAreEarned
<1>17. OrderSound'
  <2>1. OrderTellsItsReturns'
    BY <1>1, <1>5 DEF RInv, OrderSound, OrderTellsItsReturns, OwedWhileDue, StatusTellsReturned
  <2>2. order'.parcel = "BackInShop" => order'.status = "Returned"
    BY <1>5 DEF RInv, OrderSound
  <2>3. /\ order'.channel = "POS" => order'.status \in {"Purchased", "PartiallyReturned", "Returned"} /\ order'.due = 0
        /\ order'.status = "Purchased" => order'.channel = "POS"
        /\ order'.status \in {"Pending", "Confirmed"} =>
             /\ order'.channel = "ONLINE" /\ order'.refunded = 0 /\ order'.due = 0
             /\ order'.payment \in {"unpaid", "partially_paid", "paid"}
    BY <1>5 DEF RInv, OrderSound
  <2> QED
    BY <2>1, <2>2, <2>3 DEF OrderSound
<1>18. r.notDelivered => order.status = "Confirmed"
  BY <1>2 DEF RInv, WaitingSound, r
<1>19. PaidSound'
  <2>1. CASE r.notDelivered
    BY <1>5, <1>8, <1>18, <2>1 DEF RInv, PaidSound
  <2>2. CASE ~r.notDelivered
    <3>1. order' = order
      BY <1>1, <2>2 DEF r
    <3> QED
      BY <1>8, <3>1 DEF RInv, PaidSound
  <2> QED
    BY <2>1, <2>2
<1>20. WaitingSound'
  <2>1. AtLeastZero(Received - Delivery)' = AtLeastZero(Received - Delivery)
    BY <1>8
  <2>2. r.notDelivered => Pending' = {}
    BY <1>2, <1>6, NotDeliveredAlone DEF r
  <2>3. ~r.notDelivered => order' = order
    BY <1>1 DEF r
  <2>4. ASSUME NEW m \in Pending \ {n}
        PROVE  /\ returns'[m].units # NoUnits
               /\ returns'[m].refund <= Worth(returns[m])'
               /\ returns'[m].notDelivered =>
                    /\ order'.status = "Confirmed" /\ order'.parcel = "Failed"
                    /\ returns'[m].units = Quantity /\ ~returns'[m].withDelivery
                    /\ returns'[m].refund <= AtLeastZero(Received - Delivery)'
               /\ ~returns'[m].notDelivered => order'.status \in Sold \cup {"Returned"}
    BY <1>6, <1>9, <2>1, <2>2, <2>3 DEF RInv, WaitingSound
  <2> QED
    BY <1>6, <2>4 DEF WaitingSound
<1>21. RaisingSound'
  <2> SUFFICES ASSUME ~OrderFree
               PROVE  RaisingSound'
    BY <1>1 DEF RaisingSound, OrderFree
  <2>1. /\ raising.nth \in Returns /\ returns[raising.nth].status = "None"
        /\ raising.units # NoUnits
        /\ \A l \in Lines : returned[l] + PendingUnits(l) + raising.units[l] <= Quantity[l]
        /\ raising.notDelivered =>
             /\ order.status = "Confirmed" /\ order.parcel = "WithCourier"
             /\ raising.units = Quantity /\ raising.whole /\ ~raising.withDelivery
        /\ ~raising.notDelivered => order.status \in Sold
    BY DEF RInv, RaisingSound
  <2>2. returns'[raising.nth].status = "None"
    BY <1>1, <1>4, <2>1 DEF r
  <2>3. ASSUME NEW l \in Lines
        PROVE  returned[l] + PendingUnits(l)' + raising.units[l] <= Quantity[l]
    <3>1. /\ returned[l] \in Nat /\ Quantity[l] \in Nat /\ PendingUnits(l)' \in Nat /\ PendingUnits(l) \in Nat
          /\ raising.units[l] \in Nat
      BY <1>10, LinesAssumption, MoneyTypes DEF RInv, TypeOK, Units
    <3> QED
      BY <1>12, <2>1, <3>1
  <2>4. raising.notDelivered => order'.status = "Confirmed" /\ order'.parcel = "WithCourier"
    BY <1>5, <2>1
  <2> QED
    BY <1>1, <1>5, <2>1, <2>2, <2>3, <2>4 DEF RaisingSound
<1>22. SettledSound'
  BY <1>1, <1>6, <1>15 DEF RInv, SettledSound
<1> QED
  BY <1>7, <1>13, <1>14, <1>16, <1>17, <1>19, <1>20, <1>21, <1>22 DEF RInv

-----------------------------------------------------------------------------
(* The theorems *)

\* A new order has nothing back and nothing owed.
LEMMA InitRInv ==
    ASSUME Init
    PROVE  RInv
<1>1. /\ returned = NoUnits /\ returns = [n \in Returns |-> NoReturn] /\ raising = NotRaising
      /\ order.refunded = 0 /\ order.due = 0 /\ order.refund = "None"
      /\ order.payment \in {"unpaid", "partially_paid", "paid"}
      /\ \/ order.channel = "POS" /\ order.status = "Purchased" /\ order.parcel = "None"
         \/ order.channel = "ONLINE" /\ order.status \in {"Pending", "Confirmed"} /\ order.parcel \in {"None", "Preparing", "WithCourier"}
  BY DEF Init, Placed
<1>2. ValueOf(Quantity) \in Nat /\ ValueOf(NoUnits) = 0 /\ NoUnits \in Units /\ Quantity # NoUnits
  BY NoValue, ValueType
<1>3. Delivery \in Nat /\ Total \in Nat /\ Total = ValueOf(Quantity) + Delivery
  BY <1>2, MoneyAssumption DEF Delivery, Total
<1>4. order \in OrderType /\ order.paid <= Total /\ (order.payment = "paid" => order.paid = Total)
  <2>1. PICK payment \in {"unpaid", "partially_paid", "paid"}, advance \in Advances :
        \/ /\ order = Placed("POS", "Purchased", "None", payment,
                             CASE payment = "paid" -> ValueOf(Quantity) [] payment = "unpaid" -> 0 [] OTHER -> advance)
           /\ payment = "partially_paid" => advance < ValueOf(Quantity)
        \/ /\ \E s \in {<<"Pending", "None">>, <<"Confirmed", "Preparing">>, <<"Confirmed", "WithCourier">>} :
                order = Placed("ONLINE", s[1], s[2], payment,
                               CASE payment = "paid" -> ValueOf(Quantity) + DeliveryCharge [] payment = "unpaid" -> 0 [] OTHER -> advance)
           /\ payment = "partially_paid" => advance < ValueOf(Quantity) + DeliveryCharge
    BY DEF Init
  <2>2. advance \in Nat /\ DeliveryCharge \in Nat
    BY MoneyAssumption
  <2>3. ASSUME NEW paid,
               order = Placed("POS", "Purchased", "None", payment, paid),
               paid = (CASE payment = "paid" -> ValueOf(Quantity) [] payment = "unpaid" -> 0 [] OTHER -> advance),
               payment = "partially_paid" => advance < ValueOf(Quantity)
        PROVE  order \in OrderType /\ order.paid <= Total /\ (order.payment = "paid" => order.paid = Total)
    <3>1. Total = ValueOf(Quantity)
      BY <1>2, <2>3 DEF Total, Delivery, Placed
    <3>2. paid \in Nat /\ paid <= Total /\ (payment = "paid" => paid = Total)
      BY <1>2, <2>2, <2>3, <3>1
    <3> QED
      BY <2>3, <3>2 DEF Placed, OrderType
  <2>4. ASSUME NEW status \in {"Pending", "Confirmed"}, NEW parcel \in {"None", "Preparing", "WithCourier"}, NEW paid,
               order = Placed("ONLINE", status, parcel, payment, paid),
               paid = (CASE payment = "paid" -> ValueOf(Quantity) + DeliveryCharge [] payment = "unpaid" -> 0 [] OTHER -> advance),
               payment = "partially_paid" => advance < ValueOf(Quantity) + DeliveryCharge
        PROVE  order \in OrderType /\ order.paid <= Total /\ (order.payment = "paid" => order.paid = Total)
    <3>1. Total = ValueOf(Quantity) + DeliveryCharge
      BY <2>4 DEF Total, Delivery, Placed
    <3>2. paid \in Nat /\ paid <= Total /\ (payment = "paid" => paid = Total)
      BY <1>2, <2>2, <2>4, <3>1
    <3> QED
      BY <2>4, <3>2 DEF Placed, OrderType
  <2> QED
    BY <2>1, <2>3, <2>4
<1>5. Pending = {} /\ Settled = {}
  BY <1>1 DEF Pending, Settled, NoReturn
<1>6. TypeOK
  <2>1. NoReturn \in ReturnType
    BY <1>2 DEF NoReturn, ReturnType
  <2>2. NotRaising \in [nth : 0..MaxReturns, units : Units, withDelivery : BOOLEAN, notDelivered : BOOLEAN, whole : BOOLEAN]
    BY <1>2, MoneyAssumption DEF NotRaising
  <2> QED
    BY <1>1, <1>2, <1>4, <2>1, <2>2 DEF TypeOK
<1>7. PendingRefunds = 0 /\ \A l \in Lines : PendingUnits(l) = 0
  BY <1>5, <1>6, NoneWaiting
<1>8. NoUnitReturnedTwice
  BY <1>1, <1>7, LinesAssumption DEF NoUnitReturnedTwice, NoUnits
<1>9. PromisesCovered /\ RefundsAreEarned
  <2>1. Received \in Nat
    BY <1>6, MoneyTypes
  <2> QED
    BY <1>1, <1>2, <1>5, <1>7, <2>1 DEF PromisesCovered, RefundsAreEarned
<1>10. OrderSound
  BY <1>1, <1>2 DEF OrderSound, OrderTellsItsReturns, OwedWhileDue, StatusTellsReturned
<1>11. PaidSound
  BY <1>1, <1>4 DEF PaidSound
<1>12. WaitingSound /\ RaisingSound /\ SettledSound
  BY <1>1, <1>5 DEF WaitingSound, RaisingSound, OrderFree, SettledSound
<1> QED
  BY <1>6, <1>8, <1>9, <1>10, <1>11, <1>12 DEF RInv

\* Every handler keeps the invariant.
LEMMA NextRInv ==
    ASSUME RInv, [Next]_vars
    PROVE  RInv'
<1>1. CASE UNCHANGED vars
  <2>1. UNCHANGED <<order, returned, returns>> /\ raising' = raising
    BY <1>1 DEF vars
  <2>2. TypeOK'
    BY <2>1 DEF RInv, TypeOK
  <2>3. RaisingSound'
    BY <2>1, RaiseOnly DEF RInv, RaisingSound, OrderFree
  <2> QED
    BY <2>1, <2>2, <2>3, RaiseOnly DEF RInv
<1>2. CASE CancelOrder \/ DeliverOrder \/ NotDelivered
  BY <1>2, CancelOrderKeeps, DeliverOrderKeeps, NotDeliveredKeeps
<1>3. CASE \E amount \in 1..Total : RecordRefund(amount)
  BY <1>3, RecordRefundKeeps
<1>4. CASE \E units \in [Lines -> UNION {0..Quantity[l] : l \in Lines}], withDelivery \in BOOLEAN : CreateReturn(units, withDelivery)
  BY <1>4, CreateReturnKeeps
<1>5. CASE FinishRaise \/ DropRaise
  BY <1>5, FinishRaiseKeeps, DropRaiseKeeps
<1>6. CASE \E n \in Returns : ConfirmReturn(n) \/ CancelReturn(n)
  BY <1>6, ConfirmReturnKeeps, CancelReturnKeeps
<1> QED
  BY <1>1, <1>2, <1>3, <1>4, <1>5, <1>6 DEF Next

\* The invariant holds in every state.
LEMMA AlwaysRInv == Spec => []RInv
<1>1. Init => RInv
  BY InitRInv
<1>2. RInv /\ [Next]_vars => RInv'
  BY NextRInv
<1> QED
  BY <1>1, <1>2, PTL DEF Spec

\* What came back and what waits to come back never exceeds what was sold, on any line of any order,
\* whoever raises, confirms and cancels returns meanwhile (return-utils.js getPendingReturnQty).
THEOREM EveryUnitReturnsOnce == Spec => []NoUnitReturnedTwice
<1>1. RInv => NoUnitReturnedTwice
  BY DEF RInv
<1> QED
  BY <1>1, AlwaysRInv, PTL

\* The order says how much of it came back, and that a refund is owed exactly while money is
\* (confirm-return.js, record-order-refund.js).
THEOREM OrderSaysWhatReturned == Spec => []OrderTellsItsReturns
<1>1. RInv => OrderTellsItsReturns
  BY DEF RInv, OrderSound
<1> QED
  BY <1>1, AlwaysRInv, PTL

\* The business keeps the delivery charge, or all it was given where that is less, when an order comes
\* back with the charge kept or never arrives.
LEMMA ChargeKept ==
    ASSUME RInv
    PROVE  DeliveryChargeKept
<1> SUFFICES ASSUME order.status = "Returned", \A n \in Settled : ~returns[n].withDelivery
             PROVE  Received - order.refunded - order.due >= Least(Delivery, Received)
  BY DEF DeliveryChargeKept
<1>1. /\ order \in OrderType /\ order.refunded \in Nat /\ order.due \in Nat /\ Received \in Nat /\ Delivery \in Nat
      /\ ValueOf(Quantity) \in Nat
  BY MoneyTypes, NoValue, ValueType DEF RInv, TypeOK, OrderType
<1>2. CASE order.channel = "POS"
  <2>1. Delivery = 0
    BY <1>2 DEF Delivery
  <2>2. order.refunded + order.due + PendingRefunds <= Received /\ PendingRefunds \in Nat
    BY MoneyTypes DEF RInv, PromisesCovered
  <2> QED
    BY <1>1, <2>1, <2>2 DEF Least
<1>3. CASE order.channel = "ONLINE" /\ order.parcel # "BackInShop"
  <2>1. order.paid = Total /\ order.payment \notin {"unpaid", "partially_paid"}
    BY <1>3 DEF RInv, PaidSound
  <2>2. Received = Total
    BY <2>1 DEF Received
  <2>3. returned = Quantity
    BY DEF RInv, OrderSound, OrderTellsItsReturns, StatusTellsReturned
  <2>4. order.refunded + order.due <= ValueOf(Quantity)
    BY <1>1, <2>3 DEF RInv, RefundsAreEarned
  <2> QED
    BY <1>1, <2>2, <2>4 DEF Least, Total
<1>4. CASE order.channel = "ONLINE" /\ order.parcel = "BackInShop"
  <2>1. order.refunded + order.due <= AtLeastZero(Received - Delivery)
    BY <1>4 DEF RInv, PaidSound
  <2> QED
    BY <1>1, <2>1 DEF Least, AtLeastZero
<1> QED
  BY <1>1, <1>2, <1>3, <1>4 DEF OrderType

\* What is given back, owed back and promised is covered by what was received and earned by what came
\* back, and the delivery charge is given back once, with the whole order, or kept (raiseReturn,
\* refundableNow, splitReturnValue, confirm-return.js).
THEOREM RefundsStayRight == Spec => []RefundsAreRight
<1>1. ASSUME RInv
      PROVE  DeliveryGivenBackWithTheOrder
  BY <1>1 DEF RInv, SettledSound, DeliveryGivenBackWithTheOrder, OrderSound, OrderTellsItsReturns, StatusTellsReturned
<1>2. RInv => RefundsAreRight
  BY <1>1, ChargeKept DEF RInv, RefundsAreRight
<1> QED
  BY <1>2, AlwaysRInv, PTL
=============================================================================
